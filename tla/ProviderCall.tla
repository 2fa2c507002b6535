----------------------------- MODULE ProviderCall -----------------------------
(***************************************************************************)
(* A chat completion from the handler to the upstream and back: the form   *)
(* each adapter and each HTTP transport gives the messages, what counts as *)
(* an answer, and how the handler writes it.                               *)
(*                                                                         *)
(* Complete is taken here as the models it goes on to call, one after the  *)
(* other until one answers; ChatPipeline is about how it picks them.       *)
(***************************************************************************)
EXTENDS Integers, Sequences, SequencesExt, FiniteSets

CONSTANTS
  Roles,        \* of messages: "system", "user", "assistant"
  MaxMessages,  \* bound of the messages of a request
  MaxCalls,     \* calls Complete makes at most
  MaxParts      \* bound of the choices or content blocks of a reply

ASSUME ProviderAssumption ==
  /\ Roles \subseteq {"system", "user", "assistant"}
  /\ MaxMessages \in Nat /\ MaxCalls \in Nat \ {0} /\ MaxParts \in Nat

Card == [selfHosted : BOOLEAN, family : {"qwen", "claude", "other"}]

\* Bootstrap picks a protocol for each card,
Kind(card) ==
  CASE card.selfHosted -> "self_hosted"
    [] ~card.selfHosted /\ card.family = "qwen" -> "qwen"
    [] ~card.selfHosted /\ card.family = "claude" -> "claude"
    [] ~card.selfHosted /\ card.family = "other" -> "openai"

\* and a transport, if the environment has what it needs; else answers are echoes.
Transport(kind, configured) ==
  IF kind \notin configured THEN "echo" ELSE IF kind = "claude" THEN "claude" ELSE "openai"

NoWire == [system |-> <<>>, turns |-> <<>>]
NoReply == [ok |-> FALSE, decodes |-> FALSE, parts |-> <<>>]

\* A piece of what the handler writes, with the text in it.
Frame(kind, text) == [kind |-> kind, text |-> text]
Error == <<Frame("error", <<>>)>>

VARIABLES
  configured,   \* protocols with credentials in the environment
  chain,        \* cards of the models to call
  messages,     \* the request's
  stream,       \* whether the answer is to be streamed
  pc,
  written,      \* what the handler has written to the client
  answer,       \* the text a call has answered: parts of the reply
  posted,       \* history: what was posted last
  reply         \* history: what an upstream replied last

callVars == <<messages, answer, posted, reply>>
vars == <<configured, chain, stream, pc, written, callVars>>

Init ==
  /\ configured \in SUBSET {"openai", "qwen", "claude", "self_hosted"}
  /\ chain \in SeqOf(Card, MaxCalls) \ {<<>>}
  /\ stream \in BOOLEAN
  /\ messages = <<>>
  /\ pc = "new"
  /\ written = <<>> /\ answer = <<>>
  /\ posted = NoWire /\ reply = NoReply

----------------------------------------------------------------------------
(* The handler *)

\* The wrong method, no tenant, a body that is no JSON, or a writer that cannot stream.
BadRequest ==
  /\ pc = "new"
  /\ pc' = "done" /\ written' = Error
  /\ UNCHANGED <<configured, chain, stream, callVars>>

ChatCompletions(roles) ==
  /\ pc = "new"
  /\ messages' = [i \in DOMAIN roles |-> [id |-> i, role |-> roles[i]]]
  /\ pc' = "call"
  /\ UNCHANGED <<configured, chain, stream, written, answer, posted, reply>>

\* The whole answer in one piece,
WriteJSON ==
  /\ pc = "answered" /\ ~stream
  /\ pc' = "done" /\ written' = <<Frame("answer", answer)>>
  /\ UNCHANGED <<configured, chain, stream, callVars>>

\* or in one frame, with a last one after it that has the usage.
WriteDelta ==
  /\ pc = "answered" /\ stream
  /\ pc' = "streaming" /\ written' = <<Frame("answer", answer)>>
  /\ UNCHANGED <<configured, chain, stream, callVars>>

WriteDone ==
  /\ pc = "streaming"
  /\ pc' = "done" /\ written' = Append(written, Frame("end", <<>>))
  /\ UNCHANGED <<configured, chain, stream, callVars>>

----------------------------------------------------------------------------
(* The adapter of the model that is called *)

\* What is in T of a sequence, in its order.
Chosen(s, T) ==
  LET kept[n \in 0..Len(s)] ==
        IF n = 0 THEN <<>>
        ELSE IF s[n] \in T THEN Append(kept[n - 1], s[n])
        ELSE kept[n - 1]
  IN  kept[Len(s)]

SystemMessages(msgs) == Chosen(msgs, [id : Nat, role : {"system"}])
Turns(msgs) == Chosen(msgs, [id : Nat, role : Roles \ {"system"}])

hoistSystem(msgs) == SystemMessages(msgs) \o Turns(msgs)

normalize(card, msgs) == IF Kind(card) = "claude" THEN hoistSystem(msgs) ELSE msgs

\* Claude has a field for the system messages.
splitSystem(msgs) == [system |-> SystemMessages(msgs), turns |-> Turns(msgs)]

\* The body posted.
Wire(transport, msgs) ==
  IF transport = "claude" THEN splitSystem(msgs) ELSE [system |-> <<>>, turns |-> msgs]

TransportNow == Transport(Kind(Head(chain)), configured)

\* No transport: the last of the user's messages comes back.
Echoed == <<[id |-> 0, kind |-> "echo"]>>

Echo ==
  /\ pc = "call" /\ TransportNow = "echo"
  /\ pc' = "answered"
  /\ answer' = Echoed
  /\ UNCHANGED <<configured, chain, stream, written, messages, posted, reply>>

\* Operators named Faulty... are plausible slips in the definition after them,
\* kept to show which property notices each slip.  Nothing else uses them.
FaultyPost ==
  LET normal == normalize(Head(chain), messages)
  IN  /\ pc = "call" /\ TransportNow # "echo"
      /\ pc' = "waiting"
      /\ messages' = normal
      /\ posted' = Wire(TransportNow, normal)
      /\ UNCHANGED <<configured, chain, stream, written, answer, reply>>

\* The adapter's changes are in its own copy of the request.
Post ==
  /\ pc = "call" /\ TransportNow # "echo"
  /\ pc' = "waiting"
  /\ posted' = Wire(TransportNow, normalize(Head(chain), messages))
  /\ UNCHANGED <<configured, chain, stream, written, messages, answer, reply>>

----------------------------------------------------------------------------
(* What comes back *)

\* A part is a choice or a content block: with a text, or some other.
Reply == [ok : BOOLEAN, decodes : BOOLEAN, parts : SeqOf({"text", "other"}, MaxParts)]

\* The call returns an error: Complete goes on to the next model, or gives up.
Fails ==
  /\ chain' = Tail(chain)
  /\ IF Len(chain) = 1 THEN pc' = "done" /\ written' = Error ELSE pc' = "call" /\ UNCHANGED written

\* No reply: no connection, the timeout, or the client has gone.
Unanswered ==
  /\ pc = "waiting"
  /\ Fails
  /\ UNCHANGED <<configured, stream, callVars>>

\* OpenAI's transport asks for a choice; Claude's is content without text.
Serves(transport, r) == r.decodes /\ r.ok /\ (transport = "openai" => r.parts # <<>>)

Placed(parts) == [i \in DOMAIN parts |-> [id |-> i, kind |-> parts[i]]]

FaultyContent(transport, r) == Chosen(Placed(r.parts), [id : {1}, kind : {"text"}])

\* The text of the first choice, which may be none, or that of all the blocks.
Content(transport, r) ==
  Chosen(Placed(r.parts), [id : IF transport = "openai" THEN {1} ELSE Nat, kind : {"text"}])

Replied(r) ==
  /\ pc = "waiting"
  /\ reply' = r
  /\ IF Serves(TransportNow, r)
     THEN pc' = "answered" /\ answer' = Content(TransportNow, r) /\ UNCHANGED <<chain, written>>
     ELSE Fails /\ UNCHANGED answer
  /\ UNCHANGED <<configured, stream, messages, posted>>

Answering == WriteJSON \/ WriteDelta \/ WriteDone
Calling == Echo \/ Post \/ Unanswered \/ \E r \in Reply : Replied(r)

Next ==
  \/ BadRequest
  \/ \E roles \in SeqOf(Roles, MaxMessages) : ChatCompletions(roles)
  \/ Answering
  \/ Calling

\* A handler's goroutine runs on: each call ends by its timeout.
Spec == Init /\ [][Next]_vars /\ WF_vars(Answering) /\ WF_vars(Calling)

----------------------------------------------------------------------------
(* Properties *)

Increasing(s) == \A i, j \in DOMAIN s : i < j => s[i].id < s[j].id

\* Whatever form a transport gives the messages, and whatever models were called
\* before, each upstream is sent every message of the request once, the turns and
\* the system messages each in the client's order; Claude's turns are without system
\* messages, and every other upstream gets the messages just as they came.
WireIsFaithful ==
  pc = "waiting" =>
    /\ ToSet(posted.system \o posted.turns) = {[id |-> i, role |-> messages[i].role] : i \in DOMAIN messages}
    /\ Increasing(posted.system) /\ Increasing(posted.turns)
    /\ IF Kind(Head(chain)) = "claude" THEN \A m \in ToSet(posted.turns) : m.role # "system"
       ELSE posted.system = <<>>

\* The places of a reply's parts whose text is for the client: every text block of
\* Claude's, and another's first choice if it has one.
Texts(kind, r) ==
  {i \in DOMAIN r.parts : r.parts[i] = "text" /\ (i = 1 \/ kind = "claude")}

\* An upstream that serves a call is not asked in vain: the client is answered.  The
\* text it gets is that of the reply, whole: each of the Texts once and in order, and
\* nothing else, whatever models replied before; never that of a failure, and an echo
\* only, and always, where the model has no credentials.  A stream is ended.
ServedIsAnswered ==
  /\ reply.ok /\ reply.decodes /\ "text" \in ToSet(reply.parts) =>
       pc \in {"answered", "streaming", "done"} /\ written # Error
  /\ written \notin {<<>>, Error} =>
       LET kind == Kind(Head(chain))
           text == Head(written).text
       IN  IF kind \notin configured THEN text = Echoed
           ELSE /\ reply.ok /\ Increasing(text)
                /\ ToSet(text) = {[id |-> i, kind |-> "text"] : i \in Texts(kind, reply)}
  /\ pc = "done" /\ written # Error =>
       [i \in DOMAIN written |-> written[i].kind] = IF stream THEN <<"answer", "end">> ELSE <<"answer">>
=============================================================================
