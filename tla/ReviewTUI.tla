----------------------------- MODULE ReviewTUI -----------------------------
(***************************************************************************)
(* The review screen (internal/tui/model.go) beside a vault that scans and *)
(* other clients change.  Update runs in one goroutine; every request to   *)
(* the daemon is a command that runs in another one and comes back as a    *)
(* message, in any order.  The screen shows the list it received last.     *)
(*                                                                         *)
(* An entry is its placeholder.  The screen works with 0-based positions,  *)
(* as the code does: the entry under the cursor is entries[cursor + 1].    *)
(* Flash messages, the help overlay and failed fetches change neither the  *)
(* list nor the position and are left out.                                 *)
(***************************************************************************)
EXTENDS Integers, Sequences, SequencesExt, FiniteSets

CONSTANTS Placeholder,
          MaxVis,       \* bound: rows of the list pane
          MaxChanges,   \* bound: changes of the vault by others
          MaxLists,     \* bound: answers to List under way
          MaxCommands   \* bound: other requests under way

None == "none"
ASSUME NoneAssumption == None \notin Placeholder
ASSUME MaxVisAssumption == MaxVis \in Nat \ {0}

VARIABLES
    vault,      \* the placeholders in the vault, in order
    changes,    \* how often others have changed it
    lists,      \* the answers to List under way (a set: the order is lost)
    ticking,    \* a tick of the refresh timer is due
    commands,   \* the requests under way
    entries, cursor, scrollOffset, vis,     \* model; vis is listVisibleLines
    state,      \* "list", "confirm", "bind" or "unbind"
    meant,      \* history: the entry for which the open prompt was opened
    reordered,  \* history: a list that does not just go on from the one on the
                \* screen has come in while the prompt was open
    shrunk      \* history: the window has become smaller since the last Down

screen == <<entries, cursor, scrollOffset, vis>>
prompt == <<state, meant, reordered>>
reviewVars == <<vault, changes, lists, ticking, commands, screen, prompt, shrunk>>

\* Init of the model: fetch the list, start the timer.
ReviewInit ==
    /\ vault = <<>>
    /\ changes = 0
    /\ lists = {<<>>}
    /\ ticking = TRUE
    /\ commands = {}
    /\ entries = <<>>
    /\ cursor = 0
    /\ scrollOffset = 0
    /\ vis \in 1..MaxVis
    /\ state = "list"
    /\ meant = None
    /\ reordered = FALSE
    /\ shrunk = FALSE

\* selected()
HasSelected == cursor \in 0..Len(entries) - 1
Selected == entries[cursor + 1]

-----------------------------------------------------------------------------
\* The vault changes behind the screen: a registration, a deletion.
Others ==
    /\ changes < MaxChanges
    /\ changes' = changes + 1
    /\ \E p \in Placeholder : vault' = IF p \in Range(vault) THEN RemoveFirst(vault, p)
                                                             ELSE Append(vault, p)
    /\ UNCHANGED <<lists, ticking, commands, screen, prompt, shrunk>>

FetchList == lists' = lists \cup {vault}

\* tickMsg: fetch the list and set the timer again.  Mutant: it is not set.
RearmedNot == FALSE
Rearmed == TRUE

Tick == /\ ticking
        /\ Cardinality(lists) < MaxLists
        /\ ticking' = Rearmed
        /\ FetchList
        /\ UNCHANGED <<vault, changes, commands, screen, prompt, shrunk>>

\* listMsg: take the list and clamp the position.
\* Mutant: the offset is left alone.
ScrolledNot(c) == scrollOffset

Clamped(l) == IF l = <<>> THEN 0 ELSE IF cursor >= Len(l) THEN Len(l) - 1 ELSE cursor
Scrolled(c) == IF scrollOffset > c THEN c ELSE scrollOffset

ListMsg(l) ==
    /\ l \in lists
    /\ lists' = lists \ {l}
    /\ entries' = l
    /\ cursor' = Clamped(l)
    /\ scrollOffset' = Scrolled(cursor')
    /\ reordered' = (reordered \/ (state # "list" /\ ~IsPrefix(entries, l)))
    /\ UNCHANGED <<vault, changes, ticking, commands, vis, state, meant, shrunk>>

\* A request reaches the daemon; the actionMsg it comes back with fetches the
\* list.
Run(c) ==
    /\ c \in commands
    /\ Cardinality(lists) < MaxLists
    /\ commands' = commands \ {c}
    /\ vault' = IF c[1] = "delete" THEN RemoveFirst(vault, c[2]) ELSE vault
    /\ lists' = lists \cup {vault'}
    /\ UNCHANGED <<changes, ticking, screen, prompt, shrunk>>

Resize == /\ vis' \in 1..MaxVis
          /\ shrunk' = (shrunk \/ vis' < vis)
          /\ UNCHANGED <<vault, changes, lists, ticking, commands, entries, cursor,
                         scrollOffset, prompt>>

-----------------------------------------------------------------------------
\* handleKey.
Up == /\ state = "list"
      /\ cursor > 0
      /\ cursor' = cursor - 1
      /\ scrollOffset' = Scrolled(cursor')
      /\ UNCHANGED <<vault, changes, lists, ticking, commands, entries, vis, prompt, shrunk>>

ScrolledDown(c) == IF c >= scrollOffset + vis THEN c - vis + 1 ELSE scrollOffset

Down == /\ state = "list"
        /\ cursor < Len(entries) - 1
        /\ cursor' = cursor + 1
        /\ scrollOffset' = ScrolledDown(cursor')
        /\ shrunk' = FALSE
        /\ UNCHANGED <<vault, changes, lists, ticking, commands, entries, vis, prompt>>

Send(op, p) == /\ Cardinality(commands) < MaxCommands
               /\ commands' = commands \cup {<<op, p>>}

\* a, r, n: no prompt.
StatusKey == /\ state = "list"
             /\ HasSelected
             /\ Send("status", Selected)
             /\ UNCHANGED <<vault, changes, lists, ticking, screen, prompt, shrunk>>

\* d, b, u.  (u needs an entry with bindings, which are not modelled.)
Prompt(s) == /\ state = "list"
             /\ HasSelected
             /\ state' = s
             /\ meant' = Selected
             /\ UNCHANGED <<vault, changes, lists, ticking, commands, screen, reordered, shrunk>>

\* y or enter; any other key, esc, or an empty host.
\* Mutant: the row below the cursor.
TargetNext == IF cursor + 2 \in DOMAIN entries THEN entries[cursor + 2] ELSE Selected
Target == Selected

CloseWith(s) == /\ state = s
                /\ state' = "list"
                /\ meant' = None
                /\ reordered' = FALSE
                /\ UNCHANGED <<vault, changes, lists, ticking, screen, shrunk>>

\* The command goes to what is under the cursor by now, if anything is.
Enter(s, op) == /\ CloseWith(s)
                /\ IF HasSelected THEN Send(op, Target) ELSE UNCHANGED commands

Cancel(s) == CloseWith(s) /\ UNCHANGED commands

Key == \/ Up \/ Down \/ StatusKey
       \/ \E s \in {"confirm", "bind", "unbind"} : Prompt(s) \/ Cancel(s)
       \/ Enter("confirm", "delete") \/ Enter("bind", "bind") \/ Enter("unbind", "unbind")

\* The messages, the daemon and the other clients.
Deliver == \E l \in lists : ListMsg(l)
Answer == \E c \in commands : Run(c)

ReviewNext == Deliver \/ Others \/ Tick \/ Answer \/ Key \/ Resize

\* The timer fires, the daemon answers, and the program takes its messages; the
\* user may do anything or nothing.
ReviewSpec == ReviewInit /\ [][ReviewNext]_reviewVars /\ WF_reviewVars(Tick) /\ WF_reviewVars(Answer) /\ WF_reviewVars(Deliver)

-----------------------------------------------------------------------------
\* "Clamp cursor and scrollOffset so they stay valid after vault mutations"
\* (model.go:115), and scroll "if cursor leaves visible window"
\* (model.go:218,228): the entry the next key acts on exists as long as any
\* does, and is one of the rows shown, whatever lists come in, unless the
\* window has become smaller since the last Down.
SelectedShown ==
    /\ entries # <<>> => HasSelected
    /\ scrollOffset <= cursor
    /\ ~shrunk => cursor < scrollOffset + vis

\* "Entry disappeared (race with background refresh) - cancel silently"
\* (model.go:191,165): a prompt deletes, binds or unbinds the entry for which it
\* was opened, or nothing, as long as the lists that come in meanwhile only add
\* entries at the end.
ActsOnTheMeant ==
    [][\A c \in commands' \ commands :
          c[1] # "status" /\ ~reordered => c[2] = meant]_reviewVars

\* The timer keeps the screen current: once the vault rests, the screen shows
\* it, even when lists arrive out of order.
ShowsVault == <>[](entries = vault)
=============================================================================
