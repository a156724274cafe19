SPECIFICATION Spec
CONSTANTS
    Handler = {h1, h2}
    Saver = {s1, s2}
    SlowSaves = TRUE
    MaxVersion = 3
    MaxFail = 0
PROPERTY DiskNeverGoesBack
