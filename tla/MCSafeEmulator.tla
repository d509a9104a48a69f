--------------------------- MODULE MCSafeEmulator ---------------------------
(* Who calls what in the runs of SafeEmulator.                               *)
EXTENDS SafeEmulator

CONSTANTS a, b, c

OneOfEach ==
  [g \in Callers |->
     CASE g = a -> {"Resize", "SendKey", "SendText", "SetForegroundColor", "CellAt"}
       [] g = b -> {"Write", "Paste", "Render"}
       [] g = c -> {"Close"}]
=============================================================================
