--------------------------- MODULE MCConnections ----------------------------
(* A desktop connection beside a camera connection or a terminal, for TLC. *)
EXTENDS Connections

\* The kinds of the two connections of an instance.
MCKind == [c \in Conns |-> IF c = "desk" THEN "remote" ELSE IF c = "cam" THEN "camera" ELSE "terminal"]
Yes(S) == [yes |-> S, no |-> {}]
No(S) == [yes |-> {}, no |-> S]
ViewOnly == {"disable_keyboard", "disable_clipboard", "show_remote_cursor"}

MCMessages ==
    [c \in Conns |->
        CASE c = "desk" -> {Yes(ViewOnly \cup {"follow_remote_window"}), No(ViewOnly \cup {"follow_remote_window"})}
          [] c = "cam" -> {Yes({"disable_audio"}), No({"disable_audio"})}
          [] OTHER -> {Yes({"show_remote_cursor", "disable_audio"})}]
MCSwitches ==
    [c \in Conns |-> CASE c = "desk" -> {"keyboard"}
                       [] c = "cam" -> {"audio", "camera"}
                       [] OTHER -> {"keyboard"}]
AllGranted == {{"keyboard", "clipboard", "audio"}}
=============================================================================
