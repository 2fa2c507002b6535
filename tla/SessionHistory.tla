---------------------------- MODULE SessionHistory ----------------------------
(***************************************************************************)
(* GetChatHistory, run while turns of the same session are under way.      *)
(*                                                                         *)
(* On the memory repository the request gets a slice header under the lock *)
(* and copies the messages after it, one by one, from an array that turns  *)
(* go on writing to.  On PostgreSQL the messages come with the one query.  *)
(***************************************************************************)
EXTENDS SessionTurns

CONSTANT Readers  \* requests for the history, each once

VARIABLE reader  \* the local state of each

readVars == <<vars, reader>>

ReaderInit ==
  /\ Init
  /\ reader = [r \in Readers |->
       [pc |-> "new", arr |-> 0, len |-> 0, shown |-> <<>>, settled |-> 0, result |-> "none"]]

\* Get.  (How much of the session had settled is history.)
GetSession(r) ==
  /\ reader[r].pc = "new"
  /\ reader' = [reader EXCEPT ![r] =
       IF kind = "memory"
       THEN [@ EXCEPT !.pc = "copy", !.arr = stored.arr, !.len = stored.len, !.settled = Len(quiet)]
       ELSE [@ EXCEPT !.pc = "done", !.len = Len(row), !.shown = Content,
                      !.settled = Len(quiet), !.result = "ok"]]

\* No session id, or a query that fails.
HistoryRefused(r) ==
  /\ reader[r].pc = "new"
  /\ reader' = [reader EXCEPT ![r].pc = "done", ![r].result = "refused"]

\* The array is the one the session had then, though it may have a larger one now.
CopyMessage(r) ==
  LET i == Len(reader[r].shown) + 1
  IN  /\ reader[r].pc = "copy" /\ i <= reader[r].len
      /\ reader' = [reader EXCEPT ![r].shown = Append(@, heap[reader[r].arr][i])]

CopyEnds(r) ==
  /\ reader[r].pc = "copy" /\ Len(reader[r].shown) = reader[r].len
  /\ reader' = [reader EXCEPT ![r].pc = "done", ![r].result = "ok"]

GetChatHistory(r) == GetSession(r) \/ HistoryRefused(r) \/ CopyMessage(r) \/ CopyEnds(r)

ReadNext ==
  \/ Next /\ UNCHANGED reader
  \/ \E r \in Readers : GetChatHistory(r) /\ UNCHANGED vars

ReadSpec ==
  /\ ReaderInit /\ [][ReadNext]_readVars
  /\ \A t \in Turns : WF_vars(Step(t) /\ UNCHANGED reader)

----------------------------------------------------------------------------
(* Properties *)

\* A history shows all that had settled when it was asked for, in its place and
\* whole, whatever turns do while it is copied; and as long as no two turns have
\* overlapped, it shows just the messages there were at that instant.
HistoryIsHonest ==
  \A r \in Readers : reader[r].result = "ok" =>
    LET shown == reader[r].shown
        all   == old \o log
    IN  /\ Len(shown) = reader[r].len
        /\ \A i \in 1..reader[r].settled : shown[i] = quiet[i]
        /\ ~overlapped => \A i \in DOMAIN shown : i <= Len(all) /\ shown[i] = Whole(all[i])
=============================================================================
