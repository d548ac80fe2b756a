--------------------------- MODULE MCStreamReader ---------------------------
(***************************************************************************)
(* Two deployments and a short text, under the settings that take each     *)
(* path of stream.go.                                                      *)
(***************************************************************************)
EXTENDS StreamReader

Plain == [TextLen |-> 3, MaxRetries |-> 3, MaxCloses |-> 2,
          RecoveryMode |-> "retry", FromPlugin |-> FALSE,
          PluginMayDrop |-> FALSE, ConcurrentClose |-> FALSE]

MCSettings == {
    Plain,
    [Plain EXCEPT !.RecoveryMode = "append", !.MaxCloses = 1],
    [Plain EXCEPT !.RecoveryMode = "off"],
    [Plain EXCEPT !.TextLen = 2, !.PluginMayDrop = TRUE],
    [Plain EXCEPT !.TextLen = 2, !.ConcurrentClose = TRUE],
    [Plain EXCEPT !.TextLen = 7, !.FromPlugin = TRUE]}

=============================================================================
