---------------------------- MODULE IpcProtocol ----------------------------
(***************************************************************************)
(* The words of the IPC socket, which its clients and the compositor share:*)
(* the request lines, their one-line answers and the event lines.          *)
(***************************************************************************)

CONSTANTS
    Request,     \* request lines: <<command, argument>>
    Category,    \* event categories: "client", "output", "tag"
    Tag          \* tag numbers, positive

(* A line goes over the wire in two halves, so that a write can stop in it.  *)
Halves(line) == <<<<line, 1>>, <<line, 2>>>>

(* setTagset returns early when the tagset does not change.                  *)
FocusTagValid(r) == r[1] = "focus_tag" /\ r[2] \in Tag
Changes(r, t) == FocusTagValid(r) /\ r[2] # t
TagAfter(r, t) == IF Changes(r, t) THEN r[2] ELSE t

(* The one answer to a request; commands act on windows this module leaves   *)
(* out, and answer "ok" when their argument names one.                       *)
Answer(r, t) ==
    CASE r[1] = "get_tags" -> <<"tagset", TagAfter(r, t)>>
      [] r[1] \in {"get_outputs", "get_clients"} -> <<"snapshot", 0>>
      [] r[1] = "focus_tag" -> <<IF r[2] \in Tag THEN "ok" ELSE "error", 0>>
      [] r[1] \in {"set_tag", "close", "close_all_on_tag"} ->
            <<IF r[2] # 0 THEN "ok" ELSE "error", 0>>
      [] r[1] \in {"reload", "subscribe"} -> <<"ok", 0>>
      [] OTHER -> <<"error", 0>>

(* A blank line is owed nothing.                                             *)
Owes(r) == r[1] # "blank"
=============================================================================
