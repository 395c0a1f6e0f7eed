------------------------------ MODULE MCLogPath ------------------------------
EXTENDS LogPath

MCDevices == <<"other", "here">>

NoLoad == [entries |-> 0, logFaults |-> 0, lines |-> 0, commands |-> 0,
           appLogFaults |-> 0, viewer |-> FALSE, device |-> 0, keys |-> 0, breaks |-> 0]
Watched == [NoLoad EXCEPT !.viewer = TRUE]
MCLoads ==
  { [NoLoad EXCEPT !.entries = 4, !.logFaults = 2],
    [NoLoad EXCEPT !.lines = 4, !.commands = 2, !.appLogFaults = 1],
    [NoLoad EXCEPT !.lines = 2, !.commands = 2, !.appLogFaults = 1, !.logFaults = 1],
    [NoLoad EXCEPT !.entries = 2, !.lines = 2, !.commands = 1, !.appLogFaults = 1],
    [Watched EXCEPT !.entries = 3],
    [Watched EXCEPT !.entries = 2, !.keys = 1],
    [Watched EXCEPT !.entries = 1, !.keys = 1, !.device = 2],
    [Watched EXCEPT !.entries = 1, !.lines = 1, !.commands = 1, !.breaks = 1] }
=============================================================================
