----------------------------- MODULE SessionTurns -----------------------------
(***************************************************************************)
(* application/session: SendMessage, run by concurrent requests for one    *)
(* session, on either repository that Bootstrap may have wired.            *)
(*                                                                         *)
(* The in-memory repository hands out slice headers: a copy of a session   *)
(* shares its backing array with the stored one.  AppendMessage appends    *)
(* under the repository's lock, SendMessage appends once more to its copy, *)
(* outside it, and writes into the shared array when that has room.  The   *)
(* heap of backing arrays is therefore part of the state, and a store      *)
(* outside the lock is two steps, since a message is more than one word.   *)
(*                                                                         *)
(* The PostgreSQL repository decodes a private copy on every read.  Its    *)
(* AppendMessage is a SELECT and an UPDATE of the whole list, with no      *)
(* transaction around them.                                                *)
(***************************************************************************)
EXTENDS Integers, Sequences, SequencesExt, FiniteSets

CONSTANTS
  Turns,        \* requests that send a message, each once
  Kinds,        \* repositories considered: "memory", "postgres"
  OldLengths    \* how long the session may be when the first request comes

ASSUME SessionAssumption ==
  /\ Kinds \subseteq {"memory", "postgres"}
  /\ OldLengths \subseteq Nat

VARIABLES
  kind,         \* the repository in use
  heap,         \* memory: the backing arrays allocated so far
  stored,       \* memory: the slice header of the stored session
  row,          \* postgres: the messages column
  turn,         \* the local state of each request
  old,          \* history: the messages of the session at the start
  log,          \* history: the messages appended since
  overlapped,   \* history: whether two turns were ever under way together
  quiet         \* history: the content when no turn was last under way

repoVars    == <<heap, stored, row>>
historyVars == <<old, log, overlapped, quiet>>
vars == <<kind, repoVars, turn, historyVars>>

\* A message: who sent it, or its place among the old ones, and its role.
Question(t) == [by |-> t, role |-> "user"]
Reply(t)    == [by |-> t, role |-> "assistant"]
OldMessage(i) == [by |-> i, role |-> "old"]

\* A place of an array: a message is stored in two halves, which differ after a
\* store that was cut through by another.
Nothing == [by |-> 0, role |-> "none"]
Whole(m) == [head |-> m, rest |-> m]

\* The capacity append gives a slice that is full.
NewCap(cap) == IF cap = 0 THEN 1 ELSE 2 * cap

\* The capacity that many single appends leave behind.
CapOf[length \in Nat] ==
  IF length = 0 THEN 0
  ELSE LET cap == CapOf[length - 1] IN IF cap < length THEN NewCap(cap) ELSE cap

Filled(slots, cap) ==
  [i \in 1..cap |-> IF i <= Len(slots) THEN slots[i] ELSE Whole(Nothing)]

\* The slots of the slice with this backing array and length; array 0 is nil.
Slots(arr, length) == IF arr = 0 THEN <<>> ELSE SubSeq(heap[arr], 1, length)

Cap(arr) == IF arr = 0 THEN 0 ELSE Len(heap[arr])

\* The stored messages, as a reader would find them now.
Content ==
  IF kind = "memory" THEN Slots(stored.arr, stored.len)
  ELSE [i \in DOMAIN row |-> Whole(row[i])]

Init ==
  /\ kind \in Kinds
  /\ \E n \in OldLengths : old = [i \in 1..n |-> OldMessage(i)]
  /\ LET slots == [i \in DOMAIN old |-> Whole(old[i])]
     IN  IF kind = "memory"
         THEN /\ heap = IF slots = <<>> THEN <<>> ELSE <<Filled(slots, CapOf[Len(slots)])>>
              /\ stored = [arr |-> Len(heap), len |-> Len(slots)]
              /\ row = <<>>
         ELSE heap = <<>> /\ stored = [arr |-> 0, len |-> 0] /\ row = old
  /\ turn = [t \in Turns |->
       [pc |-> "new", arr |-> 0, base |-> 0, read |-> <<>>, prompt |-> <<>>, result |-> "none"]]
  /\ log = <<>>
  /\ overlapped = FALSE
  /\ quiet = Content

At(t, pc) == turn[t].pc = pc
UnderWay(t) == turn[t].pc \notin {"new", "done"}

\* Every step of a request ends so: the histories follow.
Notes(t, appended) ==
  /\ UNCHANGED <<kind, old>>
  /\ log' = log \o appended
  /\ overlapped' = (overlapped \/ (UnderWay(t)' /\ \E u \in Turns \ {t} : UnderWay(u)))
  /\ quiet' = IF \E u \in Turns : UnderWay(u)' THEN quiet ELSE Content'

Goes(t, pc) == turn' = [turn EXCEPT ![t].pc = pc]
Ends(t, result) == turn' = [turn EXCEPT ![t].pc = "done", ![t].result = result]

----------------------------------------------------------------------------
(* Get, and the scan of the message *)

\* The session is copied; for postgres, with messages of its own.
Got(t) ==
  /\ At(t, "new")
  /\ turn' = [turn EXCEPT
       ![t].pc = "ask", ![t].arr = stored.arr, ![t].base = Len(Content),
       ![t].prompt = IF kind = "postgres" THEN Append(Content, Whole(Question(t))) ELSE <<>>]
  /\ UNCHANGED repoVars
  /\ Notes(t, <<>>)

\* The handler finds no tenant, no JSON or no session id; or the query fails, which
\* looks like a session that is not there.
NotGot(t) ==
  /\ At(t, "new")
  /\ Ends(t, "refused")
  /\ UNCHANGED repoVars
  /\ Notes(t, <<>>)

\* The message is not a user's, or the scan rejects it.
Refused(t) ==
  /\ At(t, "ask")
  /\ Ends(t, "refused")
  /\ UNCHANGED repoVars
  /\ Notes(t, <<>>)

----------------------------------------------------------------------------
(* AppendMessage of the memory repository *)

\* What each append is called for, and where the request goes on from there.
Appending(t) == IF At(t, "ask") \/ At(t, "asking") THEN Question(t) ELSE Reply(t)

Resumed(t) ==
  IF At(t, "ask") \/ At(t, "asking")
  THEN [turn[t] EXCEPT !.pc = IF kind = "memory" THEN "local" ELSE "answering"]
  ELSE [turn[t] EXCEPT !.pc = "done", !.result = "ok"]

\* Operators named Faulty... are plausible slips in the definition after them,
\* kept to show which property notices each slip.  Nothing else uses them.
FaultyGrown(slots, cap) == Filled(<<>>, cap)

Grown(slots, cap) == Filled(slots, cap)

FaultyPublished(t) == turn[t].base + 1

Published(t) == stored.len + 1

\* The backing array has room.
AppendedInPlace(t) == stored.len < Cap(stored.arr)

AppendMessage(t) ==
  LET m == Whole(Appending(t))
  IN  /\ kind = "memory"
      /\ At(t, "ask") \/ At(t, "record")
      /\ IF AppendedInPlace(t)
         THEN /\ heap' = [heap EXCEPT ![stored.arr][stored.len + 1] = m]
              /\ stored' = [stored EXCEPT !.len = Published(t)]
         ELSE /\ heap' = Append(heap, Grown(Append(Content, m), NewCap(Cap(stored.arr))))
              /\ stored' = [arr |-> Len(heap) + 1, len |-> Published(t)]
      /\ turn' = [turn EXCEPT ![t] = Resumed(t)]
      /\ UNCHANGED row
      /\ Notes(t, <<Appending(t)>>)

----------------------------------------------------------------------------
(* The append to the request's own copy, outside the lock *)

\* No room: the copy gets an array of its own, which nobody else ever sees.
LocalGrow(t) ==
  /\ At(t, "local")
  /\ turn[t].base = Cap(turn[t].arr)
  /\ turn' = [turn EXCEPT ![t].pc = "answering",
       ![t].prompt = Append(Slots(turn[t].arr, turn[t].base), Whole(Question(t)))]
  /\ UNCHANGED repoVars
  /\ Notes(t, <<>>)

FaultyLocalSlot(t) == turn[t].base

LocalSlot(t) == turn[t].base + 1

\* Room: the message is stored behind what the copy shows, one half after the
\* other, whatever other requests have stored there.
LocalHead(t) ==
  /\ At(t, "local")
  /\ turn[t].base < Cap(turn[t].arr)
  /\ heap' = [heap EXCEPT ![turn[t].arr][LocalSlot(t)].head = Question(t)]
  /\ Goes(t, "half")
  /\ UNCHANGED <<stored, row>>
  /\ Notes(t, <<>>)

LocalRest(t) ==
  /\ At(t, "half")
  /\ heap' = [heap EXCEPT ![turn[t].arr][LocalSlot(t)].rest = Question(t)]
  /\ Goes(t, "prompting")
  /\ UNCHANGED <<stored, row>>
  /\ Notes(t, <<>>)

\* The pipeline reads its messages.
Prompted(t) ==
  /\ At(t, "prompting")
  /\ turn' = [turn EXCEPT ![t].pc = "answering",
                          ![t].prompt = Slots(turn[t].arr, turn[t].base + 1)]
  /\ UNCHANGED repoVars
  /\ Notes(t, <<>>)

----------------------------------------------------------------------------
(* AppendMessage of the postgres repository *)

Select(t) ==
  /\ kind = "postgres"
  /\ At(t, "ask") \/ At(t, "record")
  /\ turn' = [turn EXCEPT ![t].pc = IF At(t, "ask") THEN "asking" ELSE "recording",
                          ![t].read = row]
  /\ UNCHANGED repoVars
  /\ Notes(t, <<>>)

\* The database cannot be read.
SelectFails(t) ==
  /\ kind = "postgres"
  /\ At(t, "ask") \/ At(t, "record")
  /\ Ends(t, "error")
  /\ UNCHANGED repoVars
  /\ Notes(t, <<>>)

FaultyUpdateFails(t, committed) ==
  /\ At(t, "asking") \/ At(t, "recording")
  /\ row' = IF committed THEN Append(turn[t].read, Appending(t)) ELSE row
  /\ Goes(t, IF At(t, "asking") THEN "ask" ELSE "record")
  /\ UNCHANGED <<heap, stored>>
  /\ Notes(t, IF committed THEN <<Appending(t)>> ELSE <<>>)

\* The UPDATE fails, or the connection after it has taken effect.
UpdateFails(t, committed) ==
  /\ At(t, "asking") \/ At(t, "recording")
  /\ row' = IF committed THEN Append(turn[t].read, Appending(t)) ELSE row
  /\ Ends(t, "error")
  /\ UNCHANGED <<heap, stored>>
  /\ Notes(t, IF committed THEN <<Appending(t)>> ELSE <<>>)

Update(t) ==
  /\ At(t, "asking") \/ At(t, "recording")
  /\ row' = Append(turn[t].read, Appending(t))
  /\ turn' = [turn EXCEPT ![t] = Resumed(t)]
  /\ UNCHANGED <<heap, stored>>
  /\ Notes(t, <<Appending(t)>>)

----------------------------------------------------------------------------
(* The pipeline's answer *)

\* Every model failed, or the scan rejects the answer.
Unanswered(t) ==
  /\ At(t, "answering")
  /\ Ends(t, "error")
  /\ UNCHANGED repoVars
  /\ Notes(t, <<>>)

Answered(t) ==
  /\ At(t, "answering")
  /\ Goes(t, "record")
  /\ UNCHANGED repoVars
  /\ Notes(t, <<>>)

Step(t) ==
  \/ Got(t)
  \/ NotGot(t)
  \/ Refused(t)
  \/ AppendMessage(t)
  \/ LocalGrow(t)
  \/ LocalHead(t)
  \/ LocalRest(t)
  \/ Prompted(t)
  \/ Select(t)
  \/ SelectFails(t)
  \/ \E committed \in BOOLEAN : UpdateFails(t, committed)
  \/ Update(t)
  \/ Unanswered(t)
  \/ Answered(t)

Next == \E t \in Turns : Step(t)

\* A request's goroutine runs on: the pipeline ends, as ChatPipeline shows, and
\* the database driver answers or fails.
Spec == Init /\ [][Next]_vars /\ \A t \in Turns : WF_vars(Step(t))

----------------------------------------------------------------------------
(* Properties *)

\* What the session held when no turn was last under way is still there, at the
\* same places: turns that overlap damage no more than each other's messages.
QuietHistoryStays == IsPrefix(quiet, Content)

\* As long as no two turns have overlapped, the session holds every message
\* appended to it, in order, and the model is prompted with just that.
SerialIsExact ==
  ~overlapped =>
    /\ Content = [i \in DOMAIN (old \o log) |-> Whole((old \o log)[i])]
    /\ \A t \in Turns : At(t, "answering") => turn[t].prompt = Content

\* The memory repository never loses a place: however turns overlap, a session is
\* as long as the messages appended to it are many.
AppendsAreCounted ==
  kind = "memory" => Len(Content) = Len(old) + Len(log)

\* The postgres repository may lose messages, but it invents none, stores none
\* twice and keeps those it has in the order in which they were appended.
NothingInvented ==
  kind = "postgres" =>
    /\ IsInjective(row)
    /\ \E kept \in SUBSET DOMAIN (old \o log) :
         /\ Cardinality(kept) = Len(row)
         /\ \A i \in kept : (old \o log)[i] = row[Cardinality({j \in kept : j <= i})]

\* What the handler says of a turn: it persists both the user and the assistant
\* turn.
PersistsBothTurns ==
  \A t \in Turns : turn[t].result = "ok" =>
    {Whole(Question(t)), Whole(Reply(t))} \subseteq ToSet(Content)
=============================================================================
