------------------------ MODULE PermissionRelayProofs ------------------------
(***************************************************************************)
(* The permission relay, for any number of calls, tools and generations of *)
(* the subprocess: its types, that it implements PermissionExchange, and   *)
(* that it keeps answers to their calls while nothing has timed out.       *)
(***************************************************************************)
EXTENDS PermissionRelay, SequenceTheorems, TLAPS

-----------------------------------------------------------------------------
(* Types.  A channel pair has one slot for each direction.                 *)

Calls == 1..Current
Slot(S) == {<<>>} \cup {<<x>> : x \in S}
Slots(f, S) == f \in [Kinds -> Slot(S)]
Responses == [id : Ids, word : Words]
CallRecords == [kind : Kinds, tool : Tools \cup {"none"}]
ForwarderRecords == [at : {"take", "write", "read", "put"}, id : Ids, word : Words]
HandlerRecords == [at : {"none", "read", "send", "wait", "done"}, id : Ids]
DialerRecords == [at : {"dial", "serve", "off"}, conn : 0..MaxConns]

CallsTyped ==
  /\ calls \in Seq(CallRecords) /\ Current <= MaxCalls
  /\ \A c \in Calls : calls[c].kind = "permission" => calls[c].tool \in Tools
  /\ verdict \in [Calls -> {"open", "allowed", "denied", "lost"}]
  /\ source \in [Calls -> Ids]
  /\ said \in [Calls -> {"nothing", "yes", "always", "no"}]
  /\ server \in {"read", "send", "wait"}
  /\ \A c \in Calls : verdict[c] = "open" <=> c = Current /\ server # "read"
  /\ server # "read" => Current > 0
  /\ allowed \subseteq Tools
SubprocessTyped ==
  /\ Slots(subReq, Calls) /\ Slots(subResp, Responses)
  /\ fwd \in [Kinds -> ForwarderRecords]
ConnectionTyped ==
  /\ conn \in Conns /\ alive \in BOOLEAN /\ dialer \in DialerRecords
  /\ dialer.at = "serve" => dialer.conn \in Conns
  /\ ~alive /\ stop = "no" => conn < MaxConns
  /\ alive => stop = "no"
  /\ ~alive => server = "read"
  /\ up \in [Conns -> Seq(Calls)] /\ down \in [Conns -> Seq(Lines)]
HostTyped ==
  /\ handler \in [Conns -> HandlerRecords]
  /\ Slots(hostReq, Calls) /\ Slots(hostResp, Responses)
  /\ prompt \in [Kinds -> {0} \cup Calls]
  /\ stop \in {"no", "killed", "closing", "done"}
  /\ panicked \in BOOLEAN /\ disturbed \in BOOLEAN
\* What a forwarder or a handler has in hand is a call; a request is of its channel's kind.
InHand ==
  /\ \A k \in Kinds : fwd[k].at \in {"write", "read"} =>
       fwd[k].id \in Calls /\ KindOf(fwd[k].id) = k /\ fwd[k].word = "none"
  /\ \A c \in Conns : handler[c].at \in {"send", "wait"} => handler[c].id \in Calls
  /\ \A k \in Kinds, a \in Calls :
       (subReq[k] = <<a>> \/ hostReq[k] = <<a>> \/ prompt[k] = a) => KindOf(a) = k

Typed == CallsTyped /\ SubprocessTyped /\ ConnectionTyped /\ HostTyped /\ InHand

-----------------------------------------------------------------------------
(* The exchange.  The request of a call is in one place at most, until the *)
(* user has spoken; and so is, from then on, what the user has said.       *)

AtServer    == {a \in Calls : server = "send" /\ a = Current}
InSubReq    == {a \in Calls : subReq[KindOf(a)] = <<a>>}
ToBeWritten == {a \in Calls : fwd[KindOf(a)].at = "write" /\ fwd[KindOf(a)].id = a}
Up          == {a \in Calls : \E c \in Conns : \E i \in DOMAIN up[c] : up[c][i] = a}
AtHandler   == {a \in Calls : \E c \in Conns : handler[c].at = "send" /\ handler[c].id = a}
InHostReq   == {a \in Calls : hostReq[KindOf(a)] = <<a>>}
Shown       == {a \in Calls : prompt[KindOf(a)] = a}
Said        == {a \in Calls : said[a] # "nothing"}

RequestsApart ==
  /\ AtServer \cap (InSubReq \cup ToBeWritten \cup Up \cup AtHandler \cup InHostReq
                      \cup Shown \cup Said) = {}
  /\ InSubReq \cap (ToBeWritten \cup Up \cup AtHandler \cup InHostReq \cup Shown \cup Said) = {}
  /\ ToBeWritten \cap (Up \cup AtHandler \cup InHostReq \cup Shown \cup Said) = {}
  /\ Up \cap (AtHandler \cup InHostReq \cup Shown \cup Said) = {}
  /\ AtHandler \cap (InHostReq \cup Shown \cup Said) = {}
  /\ InHostReq \cap (Shown \cup Said) = {}
  /\ Shown \cap Said = {}
UpOnce ==
  \A c, d \in Conns : \A i \in DOMAIN up[c], j \in DOMAIN up[d] :
    up[c][i] = up[d][j] => c = d /\ i = j
HandlersApart ==
  \A c, d \in Conns :
    handler[c].at = "send" /\ handler[d].at = "send" /\ handler[c].id = handler[d].id => c = d

\* r tells of call a what the user has said.
Tells(r, a) == r.word # "none" /\ r.id = a
InHostResp == {a \in Calls : \E r \in Responses : hostResp[KindOf(a)] = <<r>> /\ Tells(r, a)}
Down       == {a \in Calls : \E c \in Conns : \E i \in DOMAIN down[c] : Tells(down[c][i], a)}
ToBePut    == {a \in Calls : fwd[KindOf(a)].at = "put" /\ Tells(fwd[KindOf(a)], a)}
InSubResp  == {a \in Calls : \E r \in Responses : subResp[KindOf(a)] = <<r>> /\ Tells(r, a)}
Used       == {a \in Calls : \E c \in Calls : source[c] = a}

AnswersApart ==
  /\ InHostResp \cap (Down \cup ToBePut \cup InSubResp \cup Used) = {}
  /\ Down \cap (ToBePut \cup InSubResp \cup Used) = {}
  /\ ToBePut \cap (InSubResp \cup Used) = {}
  /\ InSubResp \cap Used = {}
DownOnce ==
  \A c, d \in Conns : \A i \in DOMAIN down[c], j \in DOMAIN down[d] :
    /\ down[c][i].word # "none" /\ down[d][j].word # "none"
    /\ down[c][i].id = down[d][j].id
    => c = d /\ i = j

\* What travels to the server is what was said, under the kind of its call.
Faithful(k, r) ==
  r.word # "none" => r.id \in Calls /\ KindOf(r.id) = k /\ said[r.id] = r.word
HostResponsesFaithful == \A k \in Kinds, r \in Responses : hostResp[k] = <<r>> => Faithful(k, r)
LinesFaithful ==
  \A c \in Conns : \A i \in DOMAIN down[c] : Faithful(down[c][i].kind, down[c][i])
ForwardersFaithful == \A k \in Kinds : fwd[k].at = "put" => Faithful(k, fwd[k])
ResponsesFaithful == \A k \in Kinds, r \in Responses : subResp[k] = <<r>> => Faithful(k, r)
SourcesSaid == \A c \in Calls : source[c] # 0 => source[c] \in Said
QuestionsUnrefused == \A c \in Calls : said[c] = "no" => KindOf(c) # "question"
AnswersFaithful ==
  /\ HostResponsesFaithful /\ LinesFaithful /\ ForwardersFaithful /\ ResponsesFaithful
  /\ SourcesSaid /\ QuestionsUnrefused

Asking    == RequestsApart /\ UpOnce /\ HandlersApart
Answering == AnswersApart /\ DownOnce /\ AnswersFaithful
XInv == Typed /\ Asking /\ Answering

-----------------------------------------------------------------------------
(* The order of the steps, while nothing has timed out or was lost: the    *)
(* call at hand is alone in the relay, and in one place of it.             *)

\* A connection is not used before its time, and is served while its subprocess lives.
HandlersInTime ==
  /\ \A c \in Conns : c > conn => handler[c].at = "none"
  /\ alive => handler[conn].at # "done"

\* Nothing of kind k, and nothing on connection c.
NoneOf(k) ==
  /\ subReq[k] = <<>> /\ subResp[k] = <<>> /\ fwd[k].at = "take"
  /\ hostReq[k] = <<>> /\ hostResp[k] = <<>> /\ prompt[k] = 0
NoneOn(c) == up[c] = <<>> /\ down[c] = <<>> /\ handler[c].at \notin {"send", "wait"}
NothingUnderWay == (\A k \in Kinds : NoneOf(k)) /\ (\A c \in Conns : NoneOn(c))
NoneBut(k) ==
  /\ \A j \in Kinds : j # k => NoneOf(j)
  /\ \A c \in Conns : c # conn => NoneOn(c)

Unsaid(n) == said[n] = "nothing"
Word(n) == IF Unsaid(n) THEN "none" ELSE said[n]
Line(n, k) == [kind |-> k, id |-> n, word |-> Word(n)]

\* The subprocess, the connection and the host, where the call is concerned.
Sub(k, req, at, resp) == subReq[k] = req /\ fwd[k].at = at /\ subResp[k] = resp
InHandOf(k, n) == fwd[k].id = n
Wire(u, d) == up[conn] = u /\ down[conn] = d
Unhandled == handler[conn].at \notin {"send", "wait"}
Handling(at, n) == handler[conn].at = at /\ handler[conn].id = n
Host(k, req, p, resp) == hostReq[k] = req /\ prompt[k] = p /\ hostResp[k] = resp

\* Where call n of kind k can be: its request going up, and its answer down.
Requested(n, k) ==
  Unsaid(n) /\ Sub(k, <<n>>, "take", <<>>) /\ Wire(<<>>, <<>>) /\ Unhandled /\ Host(k, <<>>, 0, <<>>)
Taken(n, k) ==
  /\ Unsaid(n) /\ InHandOf(k, n) /\ Sub(k, <<>>, "write", <<>>)
  /\ Wire(<<>>, <<>>) /\ Unhandled /\ Host(k, <<>>, 0, <<>>)
Written(n, k) ==
  /\ Unsaid(n) /\ InHandOf(k, n) /\ Sub(k, <<>>, "read", <<>>)
  /\ Wire(<<n>>, <<>>) /\ Unhandled /\ Host(k, <<>>, 0, <<>>)
Received(n, k) ==
  /\ Unsaid(n) /\ InHandOf(k, n) /\ Sub(k, <<>>, "read", <<>>)
  /\ Wire(<<>>, <<>>) /\ Handling("send", n) /\ Host(k, <<>>, 0, <<>>)
Posted(n, k) ==
  /\ Unsaid(n) /\ InHandOf(k, n) /\ Sub(k, <<>>, "read", <<>>)
  /\ Wire(<<>>, <<>>) /\ Handling("wait", n) /\ Host(k, <<n>>, 0, <<>>)
Prompted(n, k) ==
  /\ Unsaid(n) /\ InHandOf(k, n) /\ Sub(k, <<>>, "read", <<>>)
  /\ Wire(<<>>, <<>>) /\ Handling("wait", n) /\ Host(k, <<>>, n, <<>>)
Answered(n, k) ==
  /\ ~Unsaid(n) /\ InHandOf(k, n) /\ Sub(k, <<>>, "read", <<>>)
  /\ Wire(<<>>, <<>>) /\ Handling("wait", n) /\ Host(k, <<>>, 0, <<Response(n, Word(n))>>)
Replied(n, k) ==
  /\ InHandOf(k, n) /\ Sub(k, <<>>, "read", <<>>)
  /\ Wire(<<>>, <<Line(n, k)>>) /\ Unhandled /\ Host(k, <<>>, 0, <<>>)
Fetched(n, k) ==
  /\ InHandOf(k, n) /\ fwd[k].word = Word(n) /\ Sub(k, <<>>, "put", <<>>)
  /\ Wire(<<>>, <<>>) /\ Unhandled /\ Host(k, <<>>, 0, <<>>)
Returned(n, k) ==
  /\ Sub(k, <<>>, "take", <<Response(n, Word(n))>>)
  /\ Wire(<<>>, <<>>) /\ Unhandled /\ Host(k, <<>>, 0, <<>>)

OnItsWay(n, k) ==
  \/ Requested(n, k) \/ Taken(n, k) \/ Written(n, k) \/ Received(n, k) \/ Posted(n, k)
  \/ Prompted(n, k) \/ Answered(n, k) \/ Replied(n, k) \/ Fetched(n, k) \/ Returned(n, k)

OwnAnswers ==
  \A c \in Calls :
    source[c] \in {0, c} /\ (said[c] # "nothing" => source[c] = c \/ verdict[c] = "open")
Tidy ==
  /\ OwnAnswers
  /\ server # "wait" => NothingUnderWay
  /\ server = "send" => Unsaid(Current)
  /\ server = "wait" => NoneBut(KindOf(Current)) /\ OnItsWay(Current, KindOf(Current))
TidyUntilDisturbed == ~disturbed => Tidy
OrderInv == XInv /\ HandlersInTime /\ TidyUntilDisturbed

-----------------------------------------------------------------------------
(* Slots, and the updates at one place that the actions are made of.       *)

LEMMA SlotsAreSequences ==
  ASSUME NEW S, NEW s \in Slot(S)
  PROVE  s \in Seq(S) /\ Len(s) \in 0..ChannelBuffer
<1>1. CASE s = <<>>
  BY <1>1 DEF ChannelBuffer
<1>2. ASSUME NEW x \in S, s = <<x>>
      PROVE  s \in Seq(S) /\ Len(s) \in 0..ChannelBuffer
  BY <1>2 DEF ChannelBuffer
<1> QED
  BY <1>1, <1>2 DEF Slot

\* The equations that the lemmas below are about, as they stand in the actions.
SlotLoses(g, f, k)   == g = [f EXCEPT ![k] = Tail(@)]
SlotGains(g, f, k, x) == g = [f EXCEPT ![k] = Append(@, x)]
Grows(g, f, x)       == g = Append(f, x)
Shrinks(g, f)        == g = Tail(f)

LEMMA SlotTakes ==
  ASSUME NEW S, NEW f, Slots(f, S), NEW k \in Kinds, f[k] # <<>>, NEW g, SlotLoses(g, f, k)
  PROVE  /\ Slots(g, S) /\ g[k] = <<>>
         /\ \A j \in Kinds : j # k => g[j] = f[j]
         /\ \E x \in S : f[k] = <<x>> /\ Head(f[k]) = x
<1>1. PICK x \in S : f[k] = <<x>>
  BY DEF Slot, Slots
<1>2. Head(f[k]) = x /\ Tail(f[k]) = <<>>
  BY <1>1
<1> QED
  BY <1>1, <1>2 DEF Slot, Slots, SlotLoses

LEMMA SlotPuts ==
  ASSUME NEW S, NEW f, Slots(f, S), NEW k \in Kinds, ~Full(f[k]), NEW x \in S,
         NEW g, SlotGains(g, f, k, x)
  PROVE  /\ Slots(g, S) /\ f[k] = <<>> /\ g[k] = <<x>>
         /\ \A j \in Kinds : j # k => g[j] = f[j]
<1>1. f[k] = <<>>
  BY DEF Slot, Slots, Full, ChannelBuffer
<1>2. Append(f[k], x) = <<x>>
  BY <1>1
<1> QED
  BY <1>1, <1>2 DEF Slot, Slots, SlotGains

LEMMA EmptySlots ==
  ASSUME NEW S
  PROVE  Slots(Empty, S)
  BY DEF Empty, Slot, Slots

\* What a sequence that grows by one, or loses its head, holds.
LEMMA AppendFacts ==
  ASSUME NEW S, NEW s \in Seq(S), NEW x \in S, NEW u, Grows(u, s, x)
  PROVE  /\ u \in Seq(S) /\ Len(u) = Len(s) + 1 /\ u[Len(u)] = x
         /\ \A i \in DOMAIN s : i \in DOMAIN u /\ u[i] = s[i]
         /\ \A i \in DOMAIN u : i = Len(u) \/ i \in DOMAIN s
  BY DEF Grows

LEMMA TailFacts ==
  ASSUME NEW S, NEW s \in Seq(S), s # <<>>, NEW u, Shrinks(u, s)
  PROVE  /\ u \in Seq(S) /\ 1 \in DOMAIN s /\ s[1] = Head(s) /\ Head(s) \in S
         /\ \A i \in DOMAIN u : i + 1 \in DOMAIN s /\ u[i] = s[i + 1] /\ i + 1 # 1
         /\ \A i \in DOMAIN u : i \in Nat
  BY DEF Shrinks

LEMMA ForwardsSets ==
  ASSUME fwd \in [Kinds -> ForwarderRecords], NEW k \in Kinds,
         NEW at \in {"take", "write", "read", "put"}, NEW id \in Ids, NEW word \in Words,
         Forwards(k, at, id, word)
  PROVE  /\ fwd' \in [Kinds -> ForwarderRecords]
         /\ fwd'[k].at = at /\ fwd'[k].id = id /\ fwd'[k].word = word
         /\ \A j \in Kinds : j # k => fwd'[j] = fwd[j]
<1>1. PICK r \in ForwarderRecords : r = [at |-> at, id |-> id, word |-> word]
  BY DEF ForwarderRecords
<1>2. r.at = at /\ r.id = id /\ r.word = word
  BY <1>1
<1> QED
  BY <1>1, <1>2 DEF Forwards

LEMMA AtSets ==
  ASSUME handler \in [Conns -> HandlerRecords], NEW c \in Conns,
         NEW at \in {"none", "read", "send", "wait", "done"}, NEW id \in Ids, At(c, at, id)
  PROVE  /\ handler' \in [Conns -> HandlerRecords]
         /\ handler'[c].at = at /\ handler'[c].id = id
         /\ \A d \in Conns : d # c => handler'[d] = handler[d]
<1>1. PICK r \in HandlerRecords : r = [at |-> at, id |-> id]
  BY DEF HandlerRecords
<1>2. r.at = at /\ r.id = id
  BY <1>1
<1> QED
  BY <1>1, <1>2 DEF At

LEMMA WritesAppends ==
  ASSUME down \in [Conns -> Seq(Lines)], NEW c \in Conns, NEW k \in Kinds, NEW id \in Ids,
         NEW word \in Words, Writes(c, k, id, word)
  PROVE  /\ down' \in [Conns -> Seq(Lines)]
         /\ \E line \in Lines :
              /\ line = [kind |-> k, id |-> id, word |-> word]
              /\ line.kind = k /\ line.id = id /\ line.word = word
              /\ Grows(down'[c], down[c], line)
         /\ \A d \in Conns : d # c => down'[d] = down[d]
<1>1. PICK line \in Lines : line = [kind |-> k, id |-> id, word |-> word]
  BY DEF Lines
<1>2. line.kind = k /\ line.id = id /\ line.word = word
  BY <1>1
<1>3. Append(down[c], line) \in Seq(Lines)
  OBVIOUS
<1> QED
  BY <1>1, <1>2, <1>3 DEF Writes, Grows

\* Numbers.
LEMMA CallNumbers ==
  ASSUME CallsTyped
  PROVE  /\ Current \in Nat /\ Current <= MaxCalls
         /\ Calls \subseteq Ids /\ 0 \in Ids /\ \A c \in Calls : c # 0
         /\ server # "read" => Current \in Calls
         /\ \A c \in Calls : calls[c] \in CallRecords /\ KindOf(c) \in Kinds
<1>1. Current \in Nat /\ Current <= MaxCalls
  BY DEF CallsTyped, Current
<1>2. Calls \subseteq Ids /\ 0 \in Ids /\ \A c \in Calls : c # 0
  BY <1>1, BoundsAssumption DEF Calls, Ids
<1>3. server # "read" => Current \in Calls
  BY <1>1 DEF CallsTyped, Calls
<1>4. \A c \in Calls : calls[c] \in CallRecords
  BY <1>1 DEF CallsTyped, Calls, Current
<1>5. \A c \in Calls : KindOf(c) \in Kinds
  BY <1>4 DEF KindOf, CallRecords
<1> QED
  BY <1>1, <1>2, <1>3, <1>4, <1>5

-----------------------------------------------------------------------------
(* What each step does, variable by variable.                              *)

\* A value for each of the first n calls.
List(f, n, S) == f \in [1..n -> S]

LEMMA ListAppends ==
  ASSUME NEW S, NEW n \in Nat, NEW f, List(f, n, S), NEW x \in S, NEW g, Grows(g, f, x)
  PROVE  List(g, n + 1, S) /\ g[n + 1] = x /\ \A i \in 1..n : g[i] = f[i]
<1>1. f \in Seq(S) /\ Len(f) = n
  BY DEF List
<1>2. g \in Seq(S) /\ Len(g) = n + 1
  BY <1>1 DEF Grows
<1>3. g \in [1..(n + 1) -> S]
  BY <1>2, LenProperties
<1>4. g[n + 1] = x
  BY <1>1 DEF Grows
<1>5. ASSUME NEW i \in 1..n
      PROVE  g[i] = f[i]
  BY <1>1 DEF Grows
<1> QED
  BY <1>3, <1>4, <1>5 DEF List

\* A new call of kind, settled at once by v or open.
LEMMA NewCallFacts ==
  ASSUME CallsTyped, NEW record \in CallRecords, Current < MaxCalls,
         NEW v \in {"open", "allowed", "denied"},
         NewCall(record.kind, record.tool, v)
  PROVE  /\ Current' = Current + 1 /\ Current' <= MaxCalls /\ Current + 1 \notin Calls
         /\ Calls' = Calls \cup {Current + 1}
         /\ calls' \in Seq(CallRecords) /\ calls'[Current + 1] = record
         /\ verdict' \in [Calls' -> {"open", "allowed", "denied", "lost"}]
         /\ source' \in [Calls' -> Ids]
         /\ said' \in [Calls' -> {"nothing", "yes", "always", "no"}]
         /\ verdict'[Current + 1] = v /\ source'[Current + 1] = 0
         /\ said'[Current + 1] = "nothing"
         /\ \A a \in Calls : /\ calls'[a] = calls[a] /\ KindOf(a)' = KindOf(a)
                             /\ verdict'[a] = verdict[a] /\ source'[a] = source[a]
                             /\ said'[a] = said[a]
<1>1. Current \in Nat /\ 0 \in Ids
  BY CallNumbers
<1>2. record = [kind |-> record.kind, tool |-> record.tool]
  BY DEF CallRecords
<1>3. calls' = Append(calls, record)
  BY <1>2 DEF NewCall
<1>4. calls \in Seq(CallRecords)
  BY DEF CallsTyped
<1>5. /\ calls' \in Seq(CallRecords) /\ Len(calls') = Len(calls) + 1
      /\ calls'[Len(calls) + 1] = record
      /\ \A a \in 1..Len(calls) : calls'[a] = calls[a]
  BY <1>3, <1>4
<1>6. Current' = Current + 1
  BY <1>5 DEF Current
<1>7. Calls' = 1..(Current + 1) /\ Calls' = Calls \cup {Current + 1} /\ Current + 1 \notin Calls
  BY <1>1, <1>6 DEF Calls
<1>8. /\ verdict' \in [1..(Current + 1) -> {"open", "allowed", "denied", "lost"}]
      /\ verdict'[Current + 1] = v /\ \A a \in Calls : verdict'[a] = verdict[a]
  <2>1. List(verdict, Current, {"open", "allowed", "denied", "lost"})
    BY DEF CallsTyped, Calls, List
  <2>2. Grows(verdict', verdict, v) /\ v \in {"open", "allowed", "denied", "lost"}
    BY <1>1 DEF NewCall, Grows
  <2>3. /\ List(verdict', Current + 1, {"open", "allowed", "denied", "lost"})
        /\ verdict'[Current + 1] = v /\ \A a \in 1..Current : verdict'[a] = verdict[a]
    BY <1>1, <2>1, <2>2, ListAppends
  <2> QED
    BY <2>3 DEF Calls, List
<1>9. /\ source' \in [1..(Current + 1) -> Ids]
      /\ source'[Current + 1] = 0 /\ \A a \in Calls : source'[a] = source[a]
  <2>1. List(source, Current, Ids)
    BY DEF CallsTyped, Calls, List
  <2>2. Grows(source', source, 0) /\ 0 \in Ids
    BY <1>1 DEF NewCall, Grows
  <2>3. /\ List(source', Current + 1, Ids)
        /\ source'[Current + 1] = 0 /\ \A a \in 1..Current : source'[a] = source[a]
    BY <1>1, <2>1, <2>2, ListAppends
  <2> QED
    BY <2>3 DEF Calls, List
<1>10. /\ said' \in [1..(Current + 1) -> {"nothing", "yes", "always", "no"}]
       /\ said'[Current + 1] = "nothing" /\ \A a \in Calls : said'[a] = said[a]
  <2>1. List(said, Current, {"nothing", "yes", "always", "no"})
    BY DEF CallsTyped, Calls, List
  <2>2. Grows(said', said, "nothing") /\ "nothing" \in {"nothing", "yes", "always", "no"}
    BY <1>1 DEF NewCall, Grows
  <2>3. /\ List(said', Current + 1, {"nothing", "yes", "always", "no"})
        /\ said'[Current + 1] = "nothing" /\ \A a \in 1..Current : said'[a] = said[a]
    BY <1>1, <2>1, <2>2, ListAppends
  <2> QED
    BY <2>3 DEF Calls, List
<1>11. \A a \in Calls : calls'[a] = calls[a] /\ KindOf(a)' = KindOf(a)
  BY <1>5 DEF Calls, Current, KindOf
<1> QED
  BY <1>1, <1>5, <1>6, <1>7, <1>8, <1>9, <1>10, <1>11, BoundsAssumption DEF Current

LEMMA ReadCallFacts ==
  ASSUME Typed, ReadCall
  PROVE  /\ alive /\ server = "read" /\ Current < MaxCalls
         /\ UNCHANGED <<allowed, subReq, subResp, fwd, conn, alive, dialer, up, down, handler,
                        hostReq, hostResp, prompt, stop, panicked, disturbed>>
         /\ \E record \in CallRecords, v \in {"open", "allowed", "denied"} :
              /\ NewCall(record.kind, record.tool, v)
              /\ server' = IF v = "open" THEN "send" ELSE server
              /\ record.kind = "permission" => record.tool \in Tools
              /\ v = "allowed" => record.kind = "permission" /\ record.tool \in allowed
<1>1. \A kind \in Kinds, tool \in Tools \cup {"none"} :
        \E record \in CallRecords : record.kind = kind /\ record.tool = tool
  <2> SUFFICES ASSUME NEW kind \in Kinds, NEW tool \in Tools \cup {"none"}
               PROVE  \E record \in CallRecords : record.kind = kind /\ record.tool = tool
    OBVIOUS
  <2>1. [kind |-> kind, tool |-> tool] \in CallRecords
    BY DEF CallRecords
  <2> QED
    BY <2>1
<1>2. CASE "permission" \in Kinds /\ PermissionToolCall
  <2>1. PICK tool \in Tools : IF IsToolAllowed(tool) THEN Settles("permission", tool, "allowed")
                              ELSE Asks("permission", tool)
    BY <1>2 DEF PermissionToolCall
  <2>2. PICK record \in CallRecords : record.kind = "permission" /\ record.tool = tool
    BY <1>1, <1>2
  <2>3. CASE tool \in allowed
    BY <2>1, <2>2, <2>3 DEF ReadCall, IsToolAllowed, Settles, connVars, wireVars, hostVars, stopVars
  <2>4. CASE tool \notin allowed
    BY <2>1, <2>2, <2>4 DEF ReadCall, IsToolAllowed, Asks, connVars, wireVars, hostVars, stopVars
  <2> QED
    BY <2>3, <2>4
<1>3. ASSUME NEW kind \in Kinds, kind # "permission",
             Asks(kind, "none") \/ Settles(kind, "none", "denied")
      PROVE  \E record \in CallRecords, v \in {"open", "allowed", "denied"} :
               /\ NewCall(record.kind, record.tool, v)
               /\ server' = IF v = "open" THEN "send" ELSE server
               /\ record.kind = "permission" => record.tool \in Tools
               /\ v = "allowed" => record.kind = "permission" /\ record.tool \in allowed
  <2>1. PICK record \in CallRecords : record.kind = kind /\ record.tool = "none"
    BY <1>1
  <2> QED
    BY <1>3, <2>1 DEF Asks, Settles
<1> QED
  BY <1>2, <1>3 DEF ReadCall, AskUserQuestion, ExitPlanMode, ToolCall, connVars, wireVars, hostVars, stopVars

\* The result of the current call.
LEMMA ResultFacts ==
  ASSUME CallsTyped, server # "read", NEW v \in {"allowed", "denied"},
         verdict' = [verdict EXCEPT ![Current] = v]
  PROVE  /\ verdict' \in [Calls -> {"open", "allowed", "denied", "lost"}]
         /\ verdict'[Current] = v
         /\ \A a \in Calls : a # Current => verdict'[a] = verdict[a]
  BY CallNumbers DEF CallsTyped

LEMMA ServerSendsFacts ==
  ASSUME Typed, ServerSends
  PROVE  /\ alive /\ server = "send" /\ Current \in Calls /\ KindOf(Current) \in Kinds
         /\ UNCHANGED <<calls, said, allowed, subResp, fwd, conn, alive, dialer, up, down, handler,
                        hostReq, hostResp, prompt, stop, panicked, disturbed, source>>
         /\ \/ /\ server' = "wait" /\ verdict' = verdict
               /\ Slots(subReq', Calls)
               /\ subReq[KindOf(Current)] = <<>> /\ subReq'[KindOf(Current)] = <<Current>>
               /\ \A j \in Kinds : j # KindOf(Current) => subReq'[j] = subReq[j]
            \/ /\ server' = "read" /\ verdict' = [verdict EXCEPT ![Current] = "denied"]
               /\ Full(subReq[KindOf(Current)]) /\ subReq' = subReq
<1>1. /\ alive /\ server = "send" /\ Current \in Calls /\ KindOf(Current) \in Kinds
      /\ Slots(subReq, Calls)
  BY CallNumbers DEF ServerSends, Typed, SubprocessTyped
<1>2. UNCHANGED <<calls, said, allowed, subResp, fwd, conn, alive, dialer, up, down, handler,
                  hostReq, hostResp, prompt, stop, panicked, disturbed, source>>
  BY DEF ServerSends, GivesUp, connVars, wireVars, hostVars, userVars, stopVars
<1>3. PICK k \in Kinds : k = KindOf(Current)
  BY <1>1
<1>4. CASE /\ ~Full(subReq[k]) /\ subReq' = [subReq EXCEPT ![k] = Append(@, Current)]
           /\ server' = "wait" /\ UNCHANGED <<verdict, source>>
  <2>1. ~Full(subReq[k]) /\ SlotGains(subReq', subReq, k, Current) /\ Current \in Calls
    BY <1>1, <1>4 DEF SlotGains
  <2>2. /\ Slots(subReq', Calls) /\ subReq[k] = <<>> /\ subReq'[k] = <<Current>>
        /\ \A j \in Kinds : j # k => subReq'[j] = subReq[j]
    BY <1>1, <2>1, SlotPuts
  <2> QED
    BY <1>1, <1>2, <1>3, <1>4, <2>2
<1>5. CASE Full(subReq[k]) /\ GivesUp /\ UNCHANGED subReq
  BY <1>1, <1>2, <1>3, <1>5 DEF GivesUp
<1> QED
  BY <1>3, <1>4, <1>5 DEF ServerSends

LEMMA ServerReceivesFacts ==
  ASSUME Typed, ServerReceives
  PROVE  /\ alive /\ server = "wait" /\ server' = "read"
         /\ Current \in Calls /\ KindOf(Current) \in Kinds
         /\ UNCHANGED <<calls, said, subReq, fwd, conn, alive, dialer, up, down, handler,
                        hostReq, hostResp, prompt, stop, panicked, disturbed>>
         /\ \E r \in Responses, v \in {"allowed", "denied"} :
              /\ subResp[KindOf(Current)] = <<r>> /\ subResp'[KindOf(Current)] = <<>>
              /\ Slots(subResp', Responses)
              /\ \A j \in Kinds : j # KindOf(Current) => subResp'[j] = subResp[j]
              /\ verdict' = [verdict EXCEPT ![Current] = v]
              /\ v = "allowed" <=> r.word \in {"yes", "always"} \/ KindOf(Current) = "question"
              /\ source' = [source EXCEPT ![Current] = IF r.word = "none" THEN 0 ELSE r.id]
              /\ allowed' = IF KindOf(Current) = "permission" /\ r.word = "always"
                            THEN allowed \cup {calls[Current].tool} ELSE allowed
<1>1. /\ alive /\ server = "wait" /\ Current \in Calls /\ KindOf(Current) \in Kinds
      /\ Slots(subResp, Responses)
  BY CallNumbers DEF ServerReceives, Typed, SubprocessTyped
<1>2. UNCHANGED <<calls, said, subReq, fwd, conn, alive, dialer, up, down, handler,
                  hostReq, hostResp, prompt, stop, panicked, disturbed>>
  BY DEF ServerReceives, connVars, wireVars, hostVars, userVars, stopVars
<1>3. PICK k \in Kinds : k = KindOf(Current)
  BY <1>1
<1>4. subResp[k] # <<>> /\ SlotLoses(subResp', subResp, k)
  BY <1>3 DEF ServerReceives, SlotLoses
<1>5. PICK r \in Responses : subResp[k] = <<r>> /\ Head(subResp[k]) = r
  BY <1>1, <1>4, SlotTakes
<1>6. /\ Slots(subResp', Responses) /\ subResp'[k] = <<>>
      /\ \A j \in Kinds : j # k => subResp'[j] = subResp[j]
  BY <1>1, <1>4, SlotTakes
<1>7. Replies(r.id, r.word)
  BY <1>3, <1>5 DEF ServerReceives
<1>8. PICK v \in {"allowed", "denied"} :
        /\ v = "allowed" <=> r.word \in {"yes", "always"} \/ KindOf(Current) = "question"
        /\ verdict' = [verdict EXCEPT ![Current] = v]
  BY <1>7 DEF Replies
<1>9. /\ source' = [source EXCEPT ![Current] = IF r.word = "none" THEN 0 ELSE r.id]
      /\ server' = "read"
  BY <1>7 DEF Replies
<1>10. allowed' = IF KindOf(Current) = "permission" /\ r.word = "always"
                  THEN allowed \cup {calls[Current].tool} ELSE allowed
  BY <1>3, <1>5 DEF ServerReceives, AddAllowedTool
<1> QED
  BY <1>1, <1>2, <1>3, <1>5, <1>6, <1>8, <1>9, <1>10

LEMMA ServerTimesOutFacts ==
  ASSUME Typed, ServerTimesOut
  PROVE  /\ alive /\ server = "wait" /\ server' = "read" /\ disturbed' = TRUE
         /\ Current \in Calls /\ verdict' = [verdict EXCEPT ![Current] = "denied"]
         /\ UNCHANGED <<calls, source, said, allowed, subReq, subResp, fwd, conn, alive, dialer,
                        up, down, handler, hostReq, hostResp, prompt, stop, panicked>>
  BY CallNumbers DEF ServerTimesOut, GivesUp, Typed, connVars, wireVars, hostVars, userVars, stopVars

\* The variables that no forwarder writes.
ForwarderLeaves ==
  UNCHANGED <<calls, verdict, source, said, server, allowed, conn, alive, dialer, handler, hostReq,
              hostResp, prompt, stop, panicked>>

LEMMA ForwarderLeavesThem ==
  ASSUME NEW k \in Kinds, ForwarderStep(k)
  PROVE  ForwarderLeaves /\ alive
  BY DEF ForwarderStep, ForwarderLeaves, callVars, connVars, hostVars, userVars, stopVars

LEMMA ForwarderTakesFacts ==
  ASSUME Typed, NEW k \in Kinds, ForwarderTakes(k)
  PROVE  /\ UNCHANGED <<subResp, up, down, disturbed>>
         /\ \E a \in Calls :
              /\ KindOf(a) = k
              /\ fwd[k].at = "take" /\ subReq[k] = <<a>> /\ subReq'[k] = <<>>
              /\ Slots(subReq', Calls) /\ fwd' \in [Kinds -> ForwarderRecords]
              /\ \A j \in Kinds : j # k => subReq'[j] = subReq[j] /\ fwd'[j] = fwd[j]
              /\ fwd'[k].at = "write" /\ fwd'[k].id = a /\ fwd'[k].word = "none"
<1>1. /\ Slots(subReq, Calls) /\ SlotLoses(subReq', subReq, k) /\ subReq[k] # <<>>
  BY DEF Typed, SubprocessTyped, ForwarderTakes, SlotLoses
<1>2. PICK a \in Calls : subReq[k] = <<a>> /\ Head(subReq[k]) = a
  BY <1>1, SlotTakes
<1>3. /\ Slots(subReq', Calls) /\ subReq'[k] = <<>>
      /\ \A j \in Kinds : j # k => subReq'[j] = subReq[j]
  BY <1>1, SlotTakes
<1>4. Forwards(k, "write", a, "none")
  BY <1>2 DEF ForwarderTakes
<1>5. a \in Ids /\ "none" \in Words
  BY CallNumbers DEF Typed, Words
<1>6. /\ fwd' \in [Kinds -> ForwarderRecords]
      /\ fwd'[k].at = "write" /\ fwd'[k].id = a /\ fwd'[k].word = "none"
      /\ \A j \in Kinds : j # k => fwd'[j] = fwd[j]
  BY <1>4, <1>5, ForwardsSets DEF Typed, SubprocessTyped
<1>7. KindOf(a) = k
  BY <1>2 DEF Typed, InHand
<1> QED
  BY <1>2, <1>3, <1>6, <1>7 DEF ForwarderTakes, wireVars

\* The forwarder of k goes on with what it has, or with an answer made up.
LEMMA FailsFacts ==
  ASSUME Typed, NEW k \in Kinds, ForwarderFails(k)
  PROVE  /\ fwd' \in [Kinds -> ForwarderRecords]
         /\ fwd'[k].at = "put" /\ fwd'[k].id = fwd[k].id /\ fwd'[k].word = "none"
         /\ \A j \in Kinds : j # k => fwd'[j] = fwd[j]
<1>1. fwd[k].id \in Ids /\ "none" \in Words
  BY DEF Typed, SubprocessTyped, ForwarderRecords, Words
<1> QED
  BY <1>1, ForwardsSets DEF ForwarderFails, Typed, SubprocessTyped

LEMMA ForwarderWritesFacts ==
  ASSUME Typed, NEW k \in Kinds, ForwarderWrites(k)
  PROVE  /\ UNCHANGED <<subReq, subResp, down, disturbed>>
         /\ fwd[k].at = "write" /\ fwd[k].id \in Calls /\ KindOf(fwd[k].id) = k
         /\ fwd' \in [Kinds -> ForwarderRecords]
         /\ fwd'[k].id = fwd[k].id /\ fwd'[k].word = "none"
         /\ \A j \in Kinds : j # k => fwd'[j] = fwd[j]
         /\ \/ handler[conn].at = "done" /\ up' = up /\ fwd'[k].at = "put"
            \/ /\ fwd'[k].at = "read" /\ up' \in [Conns -> Seq(Calls)]
               /\ Grows(up'[conn], up[conn], fwd[k].id)
               /\ \A c \in Conns : c # conn => up'[c] = up[c]
<1>1. /\ fwd[k].at = "write" /\ fwd[k].id \in Calls /\ KindOf(fwd[k].id) = k
      /\ fwd[k].id \in Ids /\ "none" \in Words
  BY CallNumbers DEF ForwarderWrites, Typed, InHand, Words
<1>2. CASE handler[conn].at = "done"
  BY <1>1, <1>2, FailsFacts DEF ForwarderWrites
<1>3. CASE handler[conn].at # "done"
  <2>1. /\ Forwards(k, "read", fwd[k].id, "none")
        /\ up' = [up EXCEPT ![conn] = Append(@, fwd[k].id)]
    BY <1>3 DEF ForwarderWrites
  <2>2. /\ fwd' \in [Kinds -> ForwarderRecords]
        /\ fwd'[k].at = "read" /\ fwd'[k].id = fwd[k].id /\ fwd'[k].word = "none"
        /\ \A j \in Kinds : j # k => fwd'[j] = fwd[j]
    BY <1>1, <2>1, ForwardsSets DEF Typed, SubprocessTyped
  <2>3. conn \in Conns /\ up \in [Conns -> Seq(Calls)]
    BY DEF Typed, ConnectionTyped
  <2>4. /\ up' \in [Conns -> Seq(Calls)] /\ up'[conn] = Append(up[conn], fwd[k].id)
        /\ \A c \in Conns : c # conn => up'[c] = up[c]
    BY <1>1, <2>1, <2>3
  <2> QED
    BY <1>1, <2>2, <2>4 DEF ForwarderWrites, Grows
<1> QED
  BY <1>2, <1>3

\* The next line of the connection is taken off it.
LEMMA LineFacts ==
  ASSUME Typed, down[conn] # <<>>, down' = [down EXCEPT ![conn] = Tail(@)]
  PROVE  /\ conn \in Conns /\ Head(down[conn]) \in Lines
         /\ down' \in [Conns -> Seq(Lines)] /\ Shrinks(down'[conn], down[conn])
         /\ \A c \in Conns : c # conn => down'[c] = down[c]
<1>1. conn \in Conns /\ down \in [Conns -> Seq(Lines)]
  BY DEF Typed, ConnectionTyped
<1>2. Head(down[conn]) \in Lines /\ Tail(down[conn]) \in Seq(Lines)
  BY <1>1
<1> QED
  BY <1>1, <1>2 DEF Shrinks

\* A read by the forwarder of k: the line is its own answer, or it fails; and in
\* a race another forwarder that reads may fail with it.
LEMMA ReadsFacts ==
  ASSUME Typed, NEW k \in Kinds, ForwarderReads(k) \/ ForwardersRace(k)
  PROVE  /\ UNCHANGED <<subReq, subResp, up, disturbed>>
         /\ fwd[k].at = "read" /\ down[conn] # <<>> /\ conn \in Conns
         /\ Head(down[conn]) \in Lines
         /\ down' \in [Conns -> Seq(Lines)] /\ Shrinks(down'[conn], down[conn])
         /\ \A c \in Conns : c # conn => down'[c] = down[c]
         /\ fwd' \in [Kinds -> ForwarderRecords] /\ fwd'[k].at = "put"
         /\ \/ fwd'[k].word = "none" /\ fwd'[k].id = fwd[k].id
            \/ /\ Head(down[conn]).kind = k
               /\ fwd'[k].id = Head(down[conn]).id /\ fwd'[k].word = Head(down[conn]).word
         /\ Head(down[conn]).kind = k /\ (\A j \in Kinds \ {k} : fwd[j].at # "read") =>
              fwd'[k].id = Head(down[conn]).id /\ fwd'[k].word = Head(down[conn]).word
         /\ \A j \in Kinds \ {k} :
              \/ fwd'[j] = fwd[j]
              \/ fwd[j].at = "read" /\ fwd'[j].at = "put" /\ fwd'[j].word = fwd[j].word
<1>1. /\ fwd[k].at = "read" /\ down[conn] # <<>> /\ UNCHANGED <<subReq, subResp, up, disturbed>>
      /\ down' = [down EXCEPT ![conn] = Tail(@)]
  BY DEF ForwarderReads, ForwardersRace
<1>2. /\ conn \in Conns /\ Head(down[conn]) \in Lines
      /\ down' \in [Conns -> Seq(Lines)] /\ Shrinks(down'[conn], down[conn])
      /\ \A c \in Conns : c # conn => down'[c] = down[c]
  BY <1>1, LineFacts
<1>3. PICK line \in Lines : line = Head(down[conn])
  BY <1>2
<1>4. line.id \in Ids /\ line.word \in Words
  BY DEF Lines
<1>5. CASE ForwarderReads(k)
  <2>1. CASE line.kind = k
    <3>1. Forwards(k, "put", line.id, line.word)
      BY <1>3, <1>5, <2>1 DEF ForwarderReads
    <3>2. /\ fwd' \in [Kinds -> ForwarderRecords]
          /\ fwd'[k].at = "put" /\ fwd'[k].id = line.id /\ fwd'[k].word = line.word
          /\ \A j \in Kinds : j # k => fwd'[j] = fwd[j]
      BY <1>4, <3>1, ForwardsSets DEF Typed, SubprocessTyped
    <3> QED
      BY <1>1, <1>2, <1>3, <2>1, <3>2
  <2>2. CASE line.kind # k
    <3>1. ForwarderFails(k)
      BY <1>3, <1>5, <2>2 DEF ForwarderReads
    <3> QED
      BY <1>1, <1>2, <1>3, <2>2, <3>1, FailsFacts
  <2> QED
    BY <2>1, <2>2
<1>6. CASE ForwardersRace(k)
  <2>1. PICK other \in Kinds \ {k} : fwd[other].at = "read"
    BY <1>6 DEF ForwardersRace
  <2>2. CASE ForwarderFails(k)
    BY <1>1, <1>2, <1>3, <2>1, <2>2, FailsFacts
  <2>3. CASE /\ line.kind = k
             /\ \E other2 \in Kinds \ {k} :
                  /\ fwd[other2].at = "read"
                  /\ fwd' = [fwd EXCEPT ![k] = [at |-> "put", id |-> line.id, word |-> line.word],
                                        ![other2].at = "put"]
    <3>1. PICK it \in Kinds \ {k} :
            /\ fwd[it].at = "read"
            /\ fwd' = [fwd EXCEPT ![k] = [at |-> "put", id |-> line.id, word |-> line.word],
                                  ![it].at = "put"]
      BY <2>3
    <3>2. PICK r \in ForwarderRecords : r = [at |-> "put", id |-> line.id, word |-> line.word]
      BY <1>4 DEF ForwarderRecords
    <3>3. r.at = "put" /\ r.id = line.id /\ r.word = line.word
      BY <3>2
    <3>4. PICK was \in ForwarderRecords : was = fwd[it]
      BY DEF Typed, SubprocessTyped
    <3>5. PICK s : s = [was EXCEPT !.at = "put"]
      OBVIOUS
    <3>6. s \in ForwarderRecords
      BY <3>5 DEF ForwarderRecords
    <3>7. s.at = "put" /\ s.word = was.word
      BY <3>5 DEF ForwarderRecords
    <3>8. fwd \in [Kinds -> ForwarderRecords]
      BY DEF Typed, SubprocessTyped
    <3>9. fwd' = [fwd EXCEPT ![k] = r, ![it] = s]
      BY <3>1, <3>2, <3>4, <3>5, <3>8
    <3>10. /\ fwd' \in [Kinds -> ForwarderRecords] /\ fwd'[k] = r /\ fwd'[it] = s
           /\ \A j \in Kinds \ {k} : j # it => fwd'[j] = fwd[j]
      BY <3>6, <3>8, <3>9
    <3>11. /\ fwd'[k].at = "put" /\ fwd'[k].id = line.id /\ fwd'[k].word = line.word
      BY <3>3, <3>10
    <3>12. \A j \in Kinds \ {k} :
             \/ fwd'[j] = fwd[j]
             \/ fwd[j].at = "read" /\ fwd'[j].at = "put" /\ fwd'[j].word = fwd[j].word
      BY <3>1, <3>4, <3>7, <3>10
    <3> QED
      BY <1>1, <1>2, <1>3, <2>3, <3>10, <3>11, <3>12
  <2> QED
    BY <1>3, <1>6, <2>2, <2>3 DEF ForwardersRace
<1> QED
  BY <1>5, <1>6

LEMMA ForwarderGivesUpFacts ==
  ASSUME Typed, NEW k \in Kinds, ForwarderGivesUp(k)
  PROVE  /\ UNCHANGED <<subReq, subResp, up, down>>
         /\ fwd[k].at = "read"
         /\ fwd' \in [Kinds -> ForwarderRecords]
         /\ fwd'[k].at = "put" /\ fwd'[k].id = fwd[k].id /\ fwd'[k].word = "none"
         /\ \A j \in Kinds : j # k => fwd'[j] = fwd[j]
         /\ \/ handler[conn].at = "done" /\ down[conn] = <<>> /\ disturbed' = disturbed
            \/ disturbed' = TRUE
  BY FailsFacts DEF ForwarderGivesUp, wireVars

LEMMA ForwarderPutsFacts ==
  ASSUME Typed, NEW k \in Kinds, ForwarderPuts(k)
  PROVE  /\ UNCHANGED <<subReq, up, down, disturbed>>
         /\ fwd[k].at = "put" /\ fwd' \in [Kinds -> ForwarderRecords]
         /\ fwd'[k].at = "take" /\ \A j \in Kinds : j # k => fwd'[j] = fwd[j]
         /\ Slots(subResp', Responses) /\ subResp[k] = <<>>
         /\ \A j \in Kinds : j # k => subResp'[j] = subResp[j]
         /\ \E r \in Responses : /\ subResp'[k] = <<r>> /\ r.id = fwd[k].id /\ r.word = fwd[k].word
                                 /\ r = Response(fwd[k].id, fwd[k].word)
<1>1. PICK was \in ForwarderRecords : was = fwd[k]
  BY DEF Typed, SubprocessTyped
<1>2. PICK r \in Responses : r = Response(was.id, was.word)
  BY DEF ForwarderRecords, Responses, Response
<1>3. r.id = was.id /\ r.word = was.word
  BY <1>2 DEF Response
<1>4. ~Full(subResp[k]) /\ SlotGains(subResp', subResp, k, r) /\ Slots(subResp, Responses)
  BY <1>1, <1>2 DEF ForwarderPuts, SlotGains, Typed, SubprocessTyped
<1>5. /\ Slots(subResp', Responses) /\ subResp[k] = <<>> /\ subResp'[k] = <<r>>
      /\ \A j \in Kinds : j # k => subResp'[j] = subResp[j]
  BY <1>4, SlotPuts
<1>6. Idle \in ForwarderRecords /\ Idle.at = "take"
  BY BoundsAssumption DEF Idle, ForwarderRecords, Ids, Words
<1>7. /\ fwd' \in [Kinds -> ForwarderRecords] /\ fwd'[k].at = "take"
      /\ \A j \in Kinds : j # k => fwd'[j] = fwd[j]
  BY <1>6 DEF ForwarderPuts, Typed, SubprocessTyped
<1> QED
  BY <1>1, <1>2, <1>3, <1>5, <1>7 DEF ForwarderPuts, wireVars

\* The variables that no handler writes.
HandlerLeaves ==
  UNCHANGED <<calls, verdict, source, said, server, allowed, subReq, subResp, fwd, conn, alive, dialer,
              prompt, stop>>

LEMMA HandlerLeavesThem ==
  ASSUME NEW c \in Conns, HandlerStep(c) \/ HandlerSeesEnd(c)
  PROVE  HandlerLeaves
  BY DEF HandlerStep, HandlerSeesEnd, HandlerLeaves, callVars, subVars, connVars, userVars, stopVars,
     wireVars

\* A handler that is done with a request.
LEMMA ReturnsFacts ==
  ASSUME Typed, NEW c \in Conns, Returns(c)
  PROVE  /\ handler' \in [Conns -> HandlerRecords]
         /\ handler'[c].at \in {"read", "done"}
         /\ handler'[c].at = IF ServerClosed THEN "done" ELSE "read"
         /\ \A d \in Conns : d # c => handler'[d] = handler[d]
<1>1. 0 \in Ids /\ handler \in [Conns -> HandlerRecords]
  BY CallNumbers DEF Typed, HostTyped
<1>2. CASE ServerClosed
  BY <1>1, <1>2, AtSets DEF Returns
<1>3. CASE ~ServerClosed
  BY <1>1, <1>3, AtSets DEF Returns
<1> QED
  BY <1>2, <1>3

LEMMA HandlerReadsFacts ==
  ASSUME Typed, NEW c \in Conns, HandlerReads(c)
  PROVE  /\ UNCHANGED <<down, hostReq, hostResp, panicked, disturbed>>
         /\ handler[c].at = "read" /\ up[c] # <<>> /\ Head(up[c]) \in Calls
         /\ up' \in [Conns -> Seq(Calls)] /\ Shrinks(up'[c], up[c])
         /\ \A d \in Conns : d # c => up'[d] = up[d]
         /\ handler' \in [Conns -> HandlerRecords]
         /\ handler'[c].at = "send" /\ handler'[c].id = Head(up[c])
         /\ \A d \in Conns : d # c => handler'[d] = handler[d]
<1>1. /\ handler[c].at = "read" /\ up[c] # <<>> /\ up' = [up EXCEPT ![c] = Tail(@)]
      /\ At(c, "send", Head(up[c])) /\ UNCHANGED <<down, hostReq, hostResp, panicked, disturbed>>
  BY DEF HandlerReads
<1>2. up \in [Conns -> Seq(Calls)]
  BY DEF Typed, ConnectionTyped
<1>3. Head(up[c]) \in Calls /\ Tail(up[c]) \in Seq(Calls)
  BY <1>1, <1>2
<1>4. Head(up[c]) \in Ids
  BY <1>3, CallNumbers DEF Typed
<1>5. /\ handler' \in [Conns -> HandlerRecords]
      /\ handler'[c].at = "send" /\ handler'[c].id = Head(up[c])
      /\ \A d \in Conns : d # c => handler'[d] = handler[d]
  BY <1>1, <1>4, AtSets DEF Typed, HostTyped
<1> QED
  BY <1>1, <1>2, <1>3, <1>5 DEF Shrinks

\* An answer that the handler has made up, or taken from the Runner.
LEMMA AnswersFacts ==
  ASSUME Typed, NEW c \in Conns, NEW k \in Kinds, NEW id \in Ids, NEW word \in Words,
         Writes(c, k, id, word), Returns(c)
  PROVE  /\ handler' \in [Conns -> HandlerRecords]
         /\ handler'[c].at \in {"read", "done"}
         /\ handler'[c].at = IF ServerClosed THEN "done" ELSE "read"
         /\ \A d \in Conns : d # c => handler'[d] = handler[d]
         /\ down' \in [Conns -> Seq(Lines)]
         /\ \A d \in Conns : d # c => down'[d] = down[d]
         /\ \E line \in Lines :
              /\ line.kind = k /\ line.id = id /\ line.word = word
              /\ line = [kind |-> k, id |-> id, word |-> word]
              /\ Grows(down'[c], down[c], line)
  BY ReturnsFacts, WritesAppends DEF Typed, ConnectionTyped

LEMMA HandlerSendsFacts ==
  ASSUME Typed, NEW c \in Conns, HandlerSends(c)
  PROVE  /\ UNCHANGED <<up, hostResp, disturbed>> /\ panicked' \in BOOLEAN
         /\ handler[c].at = "send" /\ handler[c].id \in Calls /\ KindOf(handler[c].id) \in Kinds
         /\ \/ /\ hostReq[KindOf(handler[c].id)] = <<>>
               /\ Slots(hostReq', Calls) /\ hostReq'[KindOf(handler[c].id)] = <<handler[c].id>>
               /\ \A j \in Kinds : j # KindOf(handler[c].id) => hostReq'[j] = hostReq[j]
               /\ handler' \in [Conns -> HandlerRecords]
               /\ handler'[c].at = "wait" /\ handler'[c].id = handler[c].id
               /\ \A d \in Conns : d # c => handler'[d] = handler[d]
               /\ UNCHANGED <<down, panicked>>
            \/ /\ Full(hostReq[KindOf(handler[c].id)])
               /\ Writes(c, KindOf(handler[c].id), handler[c].id, "none") /\ Returns(c)
               /\ UNCHANGED <<hostReq, panicked>>
            \/ ChannelsClosed /\ UNCHANGED <<handler, hostReq, down>>
<1>1. /\ UNCHANGED <<up, hostResp, disturbed>> /\ handler[c].at = "send"
      /\ handler[c].id \in Calls /\ KindOf(handler[c].id) \in Kinds /\ Slots(hostReq, Calls)
      /\ handler[c].id \in Ids
  BY CallNumbers DEF HandlerSends, Typed, InHand, HostTyped
<1>2. PICK k \in Kinds, id \in Calls : k = KindOf(handler[c].id) /\ id = handler[c].id
  BY <1>1
<1>3. CASE /\ ~ChannelsClosed /\ ~Full(hostReq[k])
           /\ hostReq' = [hostReq EXCEPT ![k] = Append(@, id)]
           /\ At(c, "wait", id) /\ UNCHANGED <<down, panicked>>
  <2>1. ~Full(hostReq[k]) /\ SlotGains(hostReq', hostReq, k, id)
    BY <1>3 DEF SlotGains
  <2>2. /\ Slots(hostReq', Calls) /\ hostReq[k] = <<>> /\ hostReq'[k] = <<id>>
        /\ \A j \in Kinds : j # k => hostReq'[j] = hostReq[j]
    BY <1>1, <2>1, SlotPuts
  <2>3. /\ handler' \in [Conns -> HandlerRecords] /\ handler'[c].at = "wait" /\ handler'[c].id = id
        /\ \A d \in Conns : d # c => handler'[d] = handler[d]
    BY <1>1, <1>2, <1>3, AtSets DEF Typed, HostTyped
  <2>4. panicked' \in BOOLEAN
    BY <1>3 DEF Typed, HostTyped
  <2> QED
    BY <1>1, <1>2, <1>3, <2>2, <2>3, <2>4
<1>4. CASE /\ Full(hostReq[k]) /\ Writes(c, k, id, "none") /\ Returns(c)
           /\ UNCHANGED <<hostReq, panicked>>
  <2>1. panicked' \in BOOLEAN
    BY <1>4 DEF Typed, HostTyped
  <2> QED
    BY <1>1, <1>2, <1>4, <2>1
<1>5. CASE ChannelsClosed /\ panicked' = TRUE /\ UNCHANGED <<handler, hostReq, down>>
  BY <1>1, <1>5
<1> QED
  BY <1>2, <1>3, <1>4, <1>5 DEF HandlerSends

LEMMA HandlerReceivesFacts ==
  ASSUME Typed, NEW c \in Conns, HandlerReceives(c)
  PROVE  /\ UNCHANGED <<up, hostReq, panicked, disturbed>>
         /\ handler[c].at = "wait" /\ handler[c].id \in Calls
         /\ KindOf(handler[c].id) \in Kinds /\ Returns(c)
         /\ \/ \E r \in Responses :
                 /\ hostResp[KindOf(handler[c].id)] = <<r>>
                 /\ Writes(c, KindOf(handler[c].id), r.id, r.word)
                 /\ Slots(hostResp', Responses) /\ hostResp'[KindOf(handler[c].id)] = <<>>
                 /\ \A j \in Kinds : j # KindOf(handler[c].id) => hostResp'[j] = hostResp[j]
            \/ /\ ChannelsClosed /\ Writes(c, KindOf(handler[c].id), 0, "none")
               /\ hostResp' = hostResp
<1>1. /\ UNCHANGED <<up, hostReq, panicked, disturbed>> /\ handler[c].at = "wait" /\ Returns(c)
      /\ handler[c].id \in Calls /\ KindOf(handler[c].id) \in Kinds /\ Slots(hostResp, Responses)
  BY CallNumbers DEF HandlerReceives, Typed, InHand, HostTyped
<1>2. PICK k \in Kinds : k = KindOf(handler[c].id)
  BY <1>1
<1>3. CASE hostResp[k] # <<>>
  <2>1. SlotLoses(hostResp', hostResp, k)
    BY <1>2, <1>3 DEF HandlerReceives, SlotLoses
  <2>2. PICK r \in Responses : hostResp[k] = <<r>> /\ Head(hostResp[k]) = r
    BY <1>1, <1>3, <2>1, SlotTakes
  <2>3. /\ Slots(hostResp', Responses) /\ hostResp'[k] = <<>>
        /\ \A j \in Kinds : j # k => hostResp'[j] = hostResp[j]
    BY <1>1, <1>3, <2>1, SlotTakes
  <2>4. Writes(c, k, r.id, r.word)
    BY <1>2, <1>3, <2>2 DEF HandlerReceives
  <2> QED
    BY <1>1, <1>2, <2>2, <2>3, <2>4
<1>4. CASE hostResp[k] = <<>>
  BY <1>1, <1>2, <1>4 DEF HandlerReceives
<1> QED
  BY <1>3, <1>4

LEMMA HandlerTimesOutFacts ==
  ASSUME Typed, NEW c \in Conns, HandlerTimesOut(c)
  PROVE  /\ UNCHANGED <<up, hostReq, hostResp, panicked>> /\ disturbed' = TRUE
         /\ handler[c].at = "wait" /\ handler[c].id \in Calls
         /\ KindOf(handler[c].id) \in Kinds /\ Returns(c)
         /\ Writes(c, KindOf(handler[c].id), handler[c].id, "none")
  BY CallNumbers DEF HandlerTimesOut, Typed, InHand

LEMMA HandlerEndsFacts ==
  ASSUME Typed, NEW c \in Conns, HandlerEnds(c) \/ HandlerSeesEnd(c)
  PROVE  /\ UNCHANGED <<up, down, hostReq, hostResp, panicked, disturbed>>
         /\ handler[c].at = "read" /\ handler' \in [Conns -> HandlerRecords]
         /\ handler'[c].at = "done"
         /\ \A d \in Conns : d # c => handler'[d] = handler[d]
<1>1. 0 \in Ids /\ handler \in [Conns -> HandlerRecords]
  BY CallNumbers DEF Typed, HostTyped
<1> QED
  BY <1>1, AtSets DEF HandlerEnds, HandlerSeesEnd, wireVars, stopVars

\* The variables that the TUI does not write.
UserLeaves ==
  UNCHANGED <<calls, verdict, source, server, allowed, subReq, subResp, fwd, conn, alive, dialer,
              up, down, handler, stop, panicked, disturbed>>

LEMMA ShowsFacts ==
  ASSUME Typed, NEW k \in Kinds, Shows(k)
  PROVE  /\ UNCHANGED <<said, hostResp>>
         /\ \E a \in Calls :
              /\ KindOf(a) = k /\ hostReq[k] = <<a>> /\ hostReq'[k] = <<>>
              /\ Slots(hostReq', Calls)
              /\ \A j \in Kinds : j # k => hostReq'[j] = hostReq[j] /\ prompt'[j] = prompt[j]
              /\ prompt \in [Kinds -> {0} \cup Calls] /\ prompt[k] = 0
              /\ prompt' \in [Kinds -> {0} \cup Calls] /\ prompt'[k] = a
<1>1. /\ Slots(hostReq, Calls) /\ SlotLoses(hostReq', hostReq, k) /\ hostReq[k] # <<>>
  BY DEF Typed, HostTyped, Shows, SlotLoses
<1>2. PICK a \in Calls : hostReq[k] = <<a>> /\ Head(hostReq[k]) = a
  BY <1>1, SlotTakes
<1>3. /\ Slots(hostReq', Calls) /\ hostReq'[k] = <<>>
      /\ \A j \in Kinds : j # k => hostReq'[j] = hostReq[j]
  BY <1>1, SlotTakes
<1>4. prompt' = [prompt EXCEPT ![k] = a] /\ prompt \in [Kinds -> {0} \cup Calls]
  BY <1>2 DEF Shows, Typed, HostTyped
<1>5. KindOf(a) = k
  BY <1>2 DEF Typed, InHand
<1> QED
  BY <1>2, <1>3, <1>4, <1>5 DEF Shows

LEMMA SendResponseFacts ==
  ASSUME Typed, NEW k \in Kinds, NEW word \in {"yes", "always", "no"}, SendResponse(k, word)
  PROVE  /\ hostReq' = hostReq
         /\ \E a \in Calls :
              /\ KindOf(a) = k /\ prompt[k] = a /\ prompt'[k] = 0
              /\ prompt' \in [Kinds -> {0} \cup Calls]
              /\ \A j \in Kinds : j # k => prompt'[j] = prompt[j]
              /\ said' = [said EXCEPT ![a] = word]
              /\ said' \in [Calls -> {"nothing", "yes", "always", "no"}]
              /\ said'[a] = word /\ \A b \in Calls : b # a => said'[b] = said[b]
              /\ \/ hostResp' = hostResp /\ (ServerClosed \/ Full(hostResp[k]))
                 \/ /\ hostResp[k] = <<>> /\ Slots(hostResp', Responses)
                    /\ \A j \in Kinds : j # k => hostResp'[j] = hostResp[j]
                    /\ \E r \in Responses : /\ hostResp'[k] = <<r>> /\ r.id = a /\ r.word = word
                                            /\ r = Response(a, word)
<1>1. PICK a \in Calls : a = prompt[k]
  BY DEF SendResponse, Typed, HostTyped
<1>2. KindOf(a) = k
  BY <1>1 DEF Typed, InHand
<1>3. /\ prompt' \in [Kinds -> {0} \cup Calls] /\ prompt'[k] = 0
      /\ \A j \in Kinds : j # k => prompt'[j] = prompt[j]
  BY DEF SendResponse, Typed, HostTyped
<1>4. said' = [said EXCEPT ![a] = word]
  BY <1>1 DEF SendResponse
<1>5. /\ said' \in [Calls -> {"nothing", "yes", "always", "no"}]
      /\ said'[a] = word /\ \A b \in Calls : b # a => said'[b] = said[b]
  BY <1>4 DEF Typed, CallsTyped
<1>6. CASE ServerClosed \/ Full(hostResp[k])
  BY <1>1, <1>2, <1>3, <1>4, <1>5, <1>6 DEF SendResponse
<1>7. CASE ~(ServerClosed \/ Full(hostResp[k]))
  <2>1. a \in Ids /\ word \in Words
    BY CallNumbers DEF Typed, Words
  <2>2. PICK r \in Responses : r = Response(a, word)
    BY <2>1 DEF Response, Responses
  <2>3. r.id = a /\ r.word = word
    BY <2>2 DEF Response
  <2>4. /\ ~Full(hostResp[k]) /\ SlotGains(hostResp', hostResp, k, r)
        /\ Slots(hostResp, Responses)
    BY <1>1, <1>7, <2>2 DEF SendResponse, SlotGains, Typed, HostTyped
  <2>5. /\ Slots(hostResp', Responses) /\ hostResp[k] = <<>> /\ hostResp'[k] = <<r>>
        /\ \A j \in Kinds : j # k => hostResp'[j] = hostResp[j]
    BY <2>4, SlotPuts
  <2> QED
    BY <1>1, <1>2, <1>3, <1>4, <1>5, <2>2, <2>3, <2>5 DEF SendResponse
<1> QED
  BY <1>6, <1>7

\* The TUI shows a request, or tells what the user says to one; a question is not refused.
LEMMA UserFacts ==
  ASSUME UserStep
  PROVE  /\ UserLeaves
         /\ \/ \E k \in Kinds : Shows(k)
            \/ \E k \in Kinds, word \in {"yes", "always", "no"} :
                 SendResponse(k, word) /\ (k = "question" => word # "no")
<1>1. UserLeaves
  BY DEF UserStep, UserLeaves, callVars, subVars, connVars, wireVars, stopVars
<1>2. \A k, word : SendResponse(k, word) => k \in Kinds
  BY DEF SendResponse
<1> QED
  BY <1>1, <1>2 DEF UserStep, SendPromptResponse, SendSupervisorResponse, SendHostToolResponse

LEMMA DiesFacts ==
  ASSUME Typed, SubprocessDies
  PROVE  /\ alive' = FALSE /\ server' = "read" /\ allowed' = InitiallyAllowed
         /\ Slots(subReq', Calls) /\ Slots(subResp', Responses)
         /\ fwd' \in [Kinds -> ForwarderRecords]
         /\ \A k \in Kinds : subReq'[k] = <<>> /\ subResp'[k] = <<>> /\ fwd'[k].at = "take"
         /\ verdict' \in [Calls -> {"open", "allowed", "denied", "lost"}]
         /\ \A c \in Calls : verdict'[c] = IF verdict[c] = "open" THEN "lost" ELSE verdict[c]
         /\ disturbed' \in BOOLEAN
         /\ ~disturbed' => ~disturbed /\ \A c \in Calls : verdict[c] # "open"
<1>1. Idle \in ForwarderRecords /\ Idle.at = "take"
  BY BoundsAssumption DEF Idle, ForwarderRecords, Ids, Words
<1>2. DOMAIN verdict = Calls /\ verdict \in [Calls -> {"open", "allowed", "denied", "lost"}]
  BY DEF Typed, CallsTyped
<1>3. /\ verdict' \in [Calls -> {"open", "allowed", "denied", "lost"}]
      /\ \A c \in Calls : verdict'[c] = IF verdict[c] = "open" THEN "lost" ELSE verdict[c]
  BY <1>2 DEF SubprocessDies
<1>4. /\ disturbed' \in BOOLEAN
      /\ ~disturbed' => ~disturbed /\ \A c \in Calls : verdict[c] # "open"
  BY <1>2 DEF SubprocessDies, Typed, HostTyped
<1>5. Slots(subReq', Calls) /\ Slots(subResp', Responses)
  BY EmptySlots DEF SubprocessDies
<1>6. \A k \in Kinds : subReq'[k] = <<>> /\ subResp'[k] = <<>> /\ fwd'[k] = Idle
  BY DEF SubprocessDies, Empty
<1>7. fwd' \in [Kinds -> ForwarderRecords]
  BY <1>1 DEF SubprocessDies
<1> QED
  BY <1>1, <1>3, <1>4, <1>5, <1>6, <1>7 DEF SubprocessDies

-----------------------------------------------------------------------------
(* Every step keeps the types.                                             *)

LEMMA CallsStay ==
  ASSUME calls' = calls
  PROVE  Current' = Current /\ Calls' = Calls /\ \A a \in Calls : KindOf(a)' = KindOf(a)
  BY DEF Current, Calls, KindOf

LEMMA CallsTypedStays ==
  ASSUME CallsTyped, UNCHANGED <<calls, verdict, source, said, server, allowed>>
  PROVE  CallsTyped'
  BY CallsStay DEF CallsTyped

LEMMA SubprocessTypedStays ==
  ASSUME SubprocessTyped, UNCHANGED <<calls, subReq, subResp, fwd>>
  PROVE  SubprocessTyped'
  BY CallsStay DEF SubprocessTyped

LEMMA ConnectionTypedStays ==
  ASSUME ConnectionTyped, UNCHANGED <<calls, conn, alive, dialer, stop>>,
         server' = server \/ alive,
         up' \in [Conns -> Seq(Calls)], down' \in [Conns -> Seq(Lines)]
  PROVE  ConnectionTyped'
  BY CallsStay DEF ConnectionTyped

LEMMA WiresTyped ==
  ASSUME Typed
  PROVE  up \in [Conns -> Seq(Calls)] /\ down \in [Conns -> Seq(Lines)]
  BY DEF Typed, ConnectionTyped

LEMMA HostTypedStays ==
  ASSUME HostTyped, UNCHANGED <<calls, hostReq, hostResp, prompt, stop>>,
         handler' \in [Conns -> HandlerRecords], panicked' \in BOOLEAN, disturbed' \in BOOLEAN
  PROVE  HostTyped'
  BY CallsStay DEF HostTyped

LEMMA InHandStays ==
  ASSUME InHand, UNCHANGED <<calls, fwd, handler, subReq, hostReq, prompt>>
  PROVE  InHand'
  BY CallsStay DEF InHand

LEMMA ReadCallKeepsTypes ==
  ASSUME Typed, ReadCall
  PROVE  Typed'
<1>1. /\ alive /\ server = "read" /\ Current < MaxCalls
      /\ UNCHANGED <<allowed, subReq, subResp, fwd, conn, alive, dialer, up, down, handler,
                     hostReq, hostResp, prompt, stop, panicked, disturbed>>
  BY ReadCallFacts
<1>2. PICK record \in CallRecords, v \in {"open", "allowed", "denied"} :
        /\ NewCall(record.kind, record.tool, v)
        /\ server' = IF v = "open" THEN "send" ELSE server
        /\ record.kind = "permission" => record.tool \in Tools
  BY ReadCallFacts
<1>3. /\ Current' = Current + 1 /\ Current' <= MaxCalls /\ Current + 1 \notin Calls
      /\ Calls' = Calls \cup {Current + 1}
      /\ calls' \in Seq(CallRecords) /\ calls'[Current + 1] = record
      /\ verdict' \in [Calls' -> {"open", "allowed", "denied", "lost"}]
      /\ source' \in [Calls' -> Ids]
      /\ said' \in [Calls' -> {"nothing", "yes", "always", "no"}]
      /\ verdict'[Current + 1] = v
      /\ \A a \in Calls : /\ calls'[a] = calls[a] /\ KindOf(a)' = KindOf(a)
                          /\ verdict'[a] = verdict[a]
  BY <1>1, <1>2, NewCallFacts DEF Typed
<1>4. CallsTyped'
  <2>1. \A c \in Calls : verdict[c] # "open"
    BY <1>1 DEF Typed, CallsTyped
  <2>2. \A c \in Calls' : verdict'[c] = "open" <=> c = Current' /\ server' # "read"
    BY <1>1, <1>2, <1>3, <2>1
  <2>3. server' \in {"read", "send", "wait"} /\ Current' > 0
    BY <1>1, <1>2, <1>3, CallNumbers DEF Typed
  <2>4. \A c \in Calls' : calls'[c].kind = "permission" => calls'[c].tool \in Tools
    BY <1>2, <1>3 DEF Typed, CallsTyped
  <2> QED
    BY <1>1, <1>3, <2>2, <2>3, <2>4 DEF Typed, CallsTyped
<1>5. /\ \A f : Slots(f, Calls) => Slots(f, Calls')
      /\ Calls \subseteq Calls'
  BY <1>3 DEF Slots, Slot
<1>6. SubprocessTyped'
  BY <1>1, <1>5 DEF Typed, SubprocessTyped
<1>7. up' \in [Conns -> Seq(Calls')]
  <2>1. \A s \in Seq(Calls) : s \in Seq(Calls')
    BY <1>5
  <2> QED
    BY <1>1, <2>1 DEF Typed, ConnectionTyped
<1>8. ConnectionTyped'
  BY <1>1, <1>7 DEF Typed, ConnectionTyped
<1>9. HostTyped'
  BY <1>1, <1>5 DEF Typed, HostTyped
<1>10. InHand'
  <2>1. /\ \A k \in Kinds : fwd'[k].at \in {"write", "read"} =>
             fwd'[k].id \in Calls' /\ KindOf(fwd[k].id)' = k /\ fwd'[k].word = "none"
        /\ \A c \in Conns : handler'[c].at \in {"send", "wait"} => handler'[c].id \in Calls'
    BY <1>1, <1>3 DEF Typed, InHand
  \* No slot holds the new call yet.
  <2>2. \A f : Slots(f, Calls) => \A k \in Kinds : f[k] # <<Current + 1>>
    <3>1. ASSUME NEW a \in Calls
          PROVE  <<a>> # <<Current + 1>>
      BY <1>3
    <3>2. <<Current + 1>> # <<>>
      OBVIOUS
    <3>3. \A s \in Slot(Calls) : s # <<Current + 1>>
      BY <3>1, <3>2 DEF Slot
    <3> QED
      BY <3>3 DEF Slots
  <2>3. \A k \in Kinds : prompt[k] # Current + 1
    <3>1. Current + 1 # 0
      BY CallNumbers DEF Typed
    <3> QED
      BY <1>3, <3>1 DEF Typed, HostTyped
  <2>4. Slots(subReq, Calls) /\ Slots(hostReq, Calls)
    BY DEF Typed, SubprocessTyped, HostTyped
  <2>5. (\A k \in Kinds, a \in Calls :
           (subReq[k] = <<a>> \/ hostReq[k] = <<a>> \/ prompt[k] = a) => KindOf(a) = k)'
    BY <1>1, <1>3, <2>2, <2>3, <2>4 DEF Typed, InHand
  <2> QED
    BY <1>1, <2>1, <2>5 DEF InHand
<1> QED
  BY <1>4, <1>6, <1>8, <1>9, <1>10 DEF Typed

\* The verdict on the current call, when the server goes on to read.
LEMMA SettledTyped ==
  ASSUME Typed, server # "read", server' = "read", NEW v \in {"allowed", "denied"},
         verdict' = [verdict EXCEPT ![Current] = v],
         calls' = calls, said' = said, source' \in [Calls -> Ids], allowed' \subseteq Tools
  PROVE  CallsTyped'
<1>1. /\ verdict' \in [Calls -> {"open", "allowed", "denied", "lost"}]
      /\ verdict'[Current] = v
      /\ \A a \in Calls : a # Current => verdict'[a] = verdict[a]
  BY ResultFacts DEF Typed
<1>2. \A c \in Calls : verdict'[c] # "open"
  BY <1>1 DEF Typed, CallsTyped
<1> QED
  BY <1>1, <1>2, CallsStay DEF Typed, CallsTyped

LEMMA ServerSendsKeepsTypes ==
  ASSUME Typed, ServerSends
  PROVE  Typed'
<1>1. /\ alive /\ server = "send" /\ Current \in Calls /\ KindOf(Current) \in Kinds
      /\ UNCHANGED <<calls, said, allowed, subResp, fwd, conn, alive, dialer, up, down, handler,
                     hostReq, hostResp, prompt, stop, panicked, disturbed, source>>
  BY ServerSendsFacts
<1>2. ConnectionTyped'
  BY <1>1, ConnectionTypedStays, WiresTyped DEF Typed
<1>3. HostTyped'
  BY <1>1, HostTypedStays DEF Typed, HostTyped
<1>4. CASE /\ server' = "wait" /\ verdict' = verdict
           /\ Slots(subReq', Calls)
           /\ subReq[KindOf(Current)] = <<>> /\ subReq'[KindOf(Current)] = <<Current>>
           /\ \A j \in Kinds : j # KindOf(Current) => subReq'[j] = subReq[j]
  <2>1. CallsTyped'
    BY <1>1, <1>4, CallsStay DEF Typed, CallsTyped
  <2>2. SubprocessTyped'
    BY <1>1, <1>4, CallsStay DEF Typed, SubprocessTyped
  <2>3. \A k \in Kinds, a \in Calls : subReq'[k] = <<a>> => KindOf(a) = k
    <3> SUFFICES ASSUME NEW k \in Kinds, NEW a \in Calls, subReq'[k] = <<a>>
                 PROVE  KindOf(a) = k
      OBVIOUS
    <3>1. CASE k = KindOf(Current)
      BY <1>4, <3>1
    <3>2. CASE k # KindOf(Current)
      BY <1>4, <3>2 DEF Typed, InHand
    <3> QED
      BY <3>1, <3>2
  <2>4. InHand'
    BY <1>1, <2>3, CallsStay DEF Typed, InHand
  <2> QED
    BY <1>2, <1>3, <2>1, <2>2, <2>4 DEF Typed
<1>5. CASE /\ server' = "read" /\ verdict' = [verdict EXCEPT ![Current] = "denied"]
           /\ subReq' = subReq
  <2>1. source' \in [Calls -> Ids] /\ allowed' \subseteq Tools
    BY <1>1 DEF Typed, CallsTyped
  <2>2. CallsTyped'
    BY <1>1, <1>5, <2>1, SettledTyped
  <2>3. SubprocessTyped' /\ InHand'
    BY <1>1, <1>5, SubprocessTypedStays, InHandStays DEF Typed
  <2> QED
    BY <1>2, <1>3, <2>2, <2>3 DEF Typed
<1> QED
  BY <1>4, <1>5, ServerSendsFacts

LEMMA ServerReceivesKeepsTypes ==
  ASSUME Typed, ServerReceives
  PROVE  Typed'
<1>1. /\ alive /\ server = "wait" /\ server' = "read"
      /\ Current \in Calls /\ KindOf(Current) \in Kinds
      /\ UNCHANGED <<calls, said, subReq, fwd, conn, alive, dialer, up, down, handler,
                     hostReq, hostResp, prompt, stop, panicked, disturbed>>
  BY ServerReceivesFacts
<1>2. PICK r \in Responses, v \in {"allowed", "denied"} :
        /\ Slots(subResp', Responses)
        /\ verdict' = [verdict EXCEPT ![Current] = v]
        /\ source' = [source EXCEPT ![Current] = IF r.word = "none" THEN 0 ELSE r.id]
        /\ allowed' = IF KindOf(Current) = "permission" /\ r.word = "always"
                      THEN allowed \cup {calls[Current].tool} ELSE allowed
  BY ServerReceivesFacts
<1>3. source' \in [Calls -> Ids]
  <2>1. (IF r.word = "none" THEN 0 ELSE r.id) \in Ids
    BY CallNumbers DEF Typed, Responses
  <2> QED
    BY <1>2, <2>1 DEF Typed, CallsTyped
<1>4. allowed' \subseteq Tools
  BY <1>1, <1>2 DEF Typed, CallsTyped, KindOf
<1>5. CallsTyped'
  BY <1>1, <1>2, <1>3, <1>4, SettledTyped
<1>6. SubprocessTyped'
  BY <1>1, <1>2, CallsStay DEF Typed, SubprocessTyped
<1>7. ConnectionTyped'
  BY <1>1, ConnectionTypedStays, WiresTyped DEF Typed
<1>8. HostTyped' /\ InHand'
  BY <1>1, HostTypedStays, InHandStays DEF Typed, HostTyped
<1> QED
  BY <1>5, <1>6, <1>7, <1>8 DEF Typed


LEMMA ServerTimesOutKeepsTypes ==
  ASSUME Typed, ServerTimesOut
  PROVE  Typed'
<1>1. /\ alive /\ server = "wait" /\ server' = "read" /\ disturbed' = TRUE
      /\ Current \in Calls /\ verdict' = [verdict EXCEPT ![Current] = "denied"]
      /\ UNCHANGED <<calls, source, said, allowed, subReq, subResp, fwd, conn, alive, dialer,
                     up, down, handler, hostReq, hostResp, prompt, stop, panicked>>
  BY ServerTimesOutFacts
<1>2. source' \in [Calls -> Ids] /\ allowed' \subseteq Tools
  BY <1>1 DEF Typed, CallsTyped
<1>3. CallsTyped'
  BY <1>1, <1>2, SettledTyped
<1>4. SubprocessTyped' /\ ConnectionTyped'
  BY <1>1, SubprocessTypedStays, ConnectionTypedStays, WiresTyped DEF Typed
<1>5. HostTyped' /\ InHand'
  BY <1>1, HostTypedStays, InHandStays DEF Typed, HostTyped
<1> QED
  BY <1>3, <1>4, <1>5 DEF Typed

\* Any step of a forwarder.
LEMMA ForwarderKeepsTypesIf ==
  ASSUME Typed, ForwarderLeaves,
         fwd' \in [Kinds -> ForwarderRecords], Slots(subReq', Calls), Slots(subResp', Responses),
         up' \in [Conns -> Seq(Calls)], down' \in [Conns -> Seq(Lines)], disturbed' \in BOOLEAN,
         \A j \in Kinds : fwd'[j].at \in {"write", "read"} =>
           fwd'[j].id \in Calls /\ KindOf(fwd'[j].id) = j /\ fwd'[j].word = "none",
         \A j \in Kinds, a \in Calls : subReq'[j] = <<a>> => KindOf(a) = j
  PROVE  Typed'
<1>1. /\ UNCHANGED <<calls, verdict, source, said, server, allowed>>
      /\ UNCHANGED <<conn, alive, dialer, handler, hostReq, hostResp, prompt, stop, panicked>>
  BY DEF ForwarderLeaves
<1>2. CallsTyped' /\ ConnectionTyped'
  BY <1>1, CallsTypedStays, ConnectionTypedStays DEF Typed
<1>3. HostTyped'
  BY <1>1, HostTypedStays DEF Typed, HostTyped
<1>4. SubprocessTyped'
  BY <1>1, CallsStay DEF SubprocessTyped
<1>5. InHand'
  BY <1>1, CallsStay DEF Typed, InHand
<1> QED
  BY <1>2, <1>3, <1>4, <1>5 DEF Typed

LEMMA ForwarderKeepsTypes ==
  ASSUME Typed, NEW k \in Kinds, ForwarderStep(k)
  PROVE  Typed'
<1>1. ForwarderLeaves
  BY ForwarderLeavesThem
<1>2. /\ fwd \in [Kinds -> ForwarderRecords] /\ Slots(subReq, Calls) /\ Slots(subResp, Responses)
      /\ up \in [Conns -> Seq(Calls)] /\ down \in [Conns -> Seq(Lines)] /\ disturbed \in BOOLEAN
      /\ \A j \in Kinds : fwd[j].at \in {"write", "read"} =>
           fwd[j].id \in Calls /\ KindOf(fwd[j].id) = j /\ fwd[j].word = "none"
      /\ \A j \in Kinds, a \in Calls : subReq[j] = <<a>> => KindOf(a) = j
  BY DEF Typed, SubprocessTyped, ConnectionTyped, HostTyped, InHand
<1>3. CASE ForwarderTakes(k)
  <2>1. UNCHANGED <<subResp, up, down, disturbed>>
    BY <1>3, ForwarderTakesFacts
  <2>2. PICK a \in Calls :
          /\ KindOf(a) = k /\ subReq'[k] = <<>>
          /\ Slots(subReq', Calls) /\ fwd' \in [Kinds -> ForwarderRecords]
          /\ \A j \in Kinds : j # k => subReq'[j] = subReq[j] /\ fwd'[j] = fwd[j]
          /\ fwd'[k].id = a /\ fwd'[k].word = "none"
    BY <1>3, ForwarderTakesFacts
  <2>3. ASSUME NEW j \in Kinds, NEW b \in Calls, subReq'[j] = <<b>>
        PROVE  KindOf(b) = j
    <3>1. <<b>> # <<>>
      OBVIOUS
    <3>2. j # k
      BY <2>2, <2>3, <3>1
    <3> QED
      BY <1>2, <2>2, <2>3, <3>2
  <2>4. \A j \in Kinds : fwd'[j].at \in {"write", "read"} =>
          fwd'[j].id \in Calls /\ KindOf(fwd'[j].id) = j /\ fwd'[j].word = "none"
    BY <1>2, <2>2
  <2> QED
    BY <1>1, <1>2, <2>1, <2>2, <2>3, <2>4, ForwarderKeepsTypesIf
<1>4. CASE ForwarderWrites(k)
  <2>1. /\ UNCHANGED <<subReq, subResp, down, disturbed>>
        /\ fwd[k].id \in Calls /\ KindOf(fwd[k].id) = k
        /\ fwd' \in [Kinds -> ForwarderRecords] /\ fwd'[k].id = fwd[k].id
        /\ fwd'[k].word = "none"
        /\ \A j \in Kinds : j # k => fwd'[j] = fwd[j]
        /\ up' \in [Conns -> Seq(Calls)]
    BY <1>2, <1>4, ForwarderWritesFacts
  <2>2. \A j \in Kinds : fwd'[j].at \in {"write", "read"} =>
          fwd'[j].id \in Calls /\ KindOf(fwd'[j].id) = j /\ fwd'[j].word = "none"
    BY <1>2, <2>1
  <2> QED
    BY <1>1, <1>2, <2>1, <2>2, ForwarderKeepsTypesIf
<1>5. CASE ForwarderReads(k) \/ ForwardersRace(k)
  <2>1. /\ UNCHANGED <<subReq, subResp, up, disturbed>>
        /\ down' \in [Conns -> Seq(Lines)]
        /\ fwd' \in [Kinds -> ForwarderRecords] /\ fwd'[k].at = "put"
        /\ \A j \in Kinds \ {k} : fwd'[j] = fwd[j] \/ fwd'[j].at = "put"
    BY <1>5, ReadsFacts
  <2>2. \A j \in Kinds : fwd'[j].at \in {"write", "read"} =>
          fwd'[j].id \in Calls /\ KindOf(fwd'[j].id) = j /\ fwd'[j].word = "none"
    BY <1>2, <2>1
  <2> QED
    BY <1>1, <1>2, <2>1, <2>2, ForwarderKeepsTypesIf
<1>6. CASE ForwarderGivesUp(k)
  <2>1. /\ UNCHANGED <<subReq, subResp, up, down>> /\ disturbed' \in BOOLEAN
        /\ fwd' \in [Kinds -> ForwarderRecords] /\ fwd'[k].at = "put"
        /\ \A j \in Kinds : j # k => fwd'[j] = fwd[j]
    BY <1>2, <1>6, ForwarderGivesUpFacts
  <2>2. \A j \in Kinds : fwd'[j].at \in {"write", "read"} =>
          fwd'[j].id \in Calls /\ KindOf(fwd'[j].id) = j /\ fwd'[j].word = "none"
    BY <1>2, <2>1
  <2> QED
    BY <1>1, <1>2, <2>1, <2>2, ForwarderKeepsTypesIf
<1>7. CASE ForwarderPuts(k)
  <2>1. /\ UNCHANGED <<subReq, up, down, disturbed>> /\ Slots(subResp', Responses)
        /\ fwd' \in [Kinds -> ForwarderRecords] /\ fwd'[k].at = "take"
        /\ \A j \in Kinds : j # k => fwd'[j] = fwd[j]
    BY <1>7, ForwarderPutsFacts
  <2>2. \A j \in Kinds : fwd'[j].at \in {"write", "read"} =>
          fwd'[j].id \in Calls /\ KindOf(fwd'[j].id) = j /\ fwd'[j].word = "none"
    BY <1>2, <2>1
  <2> QED
    BY <1>1, <1>2, <2>1, <2>2, ForwarderKeepsTypesIf
<1> QED
  BY <1>3, <1>4, <1>5, <1>6, <1>7 DEF ForwarderStep

\* Any step of a handler.
LEMMA HandlerKeepsTypesIf ==
  ASSUME Typed, HandlerLeaves,
         handler' \in [Conns -> HandlerRecords], Slots(hostReq', Calls), Slots(hostResp', Responses),
         up' \in [Conns -> Seq(Calls)], down' \in [Conns -> Seq(Lines)],
         panicked' \in BOOLEAN, disturbed' \in BOOLEAN,
         \A d \in Conns : handler'[d].at \in {"send", "wait"} => handler'[d].id \in Calls,
         \A j \in Kinds, a \in Calls : hostReq'[j] = <<a>> => KindOf(a) = j
  PROVE  Typed'
<1>1. /\ UNCHANGED <<calls, verdict, source, said, server, allowed>>
      /\ UNCHANGED <<conn, alive, dialer, subReq, subResp, fwd, prompt, stop>>
  BY DEF HandlerLeaves
<1>2. CallsTyped' /\ ConnectionTyped' /\ SubprocessTyped'
  BY <1>1, CallsTypedStays, ConnectionTypedStays, SubprocessTypedStays DEF Typed
<1>3. HostTyped'
  BY <1>1, CallsStay DEF Typed, HostTyped
<1>4. InHand'
  BY <1>1, CallsStay DEF Typed, InHand
<1> QED
  BY <1>2, <1>3, <1>4 DEF Typed

LEMMA HandlerKeepsTypes ==
  ASSUME Typed, NEW c \in Conns, HandlerStep(c) \/ HandlerSeesEnd(c)
  PROVE  Typed'
<1>1. HandlerLeaves
  BY HandlerLeavesThem
<1>2. /\ handler \in [Conns -> HandlerRecords] /\ Slots(hostReq, Calls) /\ Slots(hostResp, Responses)
      /\ up \in [Conns -> Seq(Calls)] /\ down \in [Conns -> Seq(Lines)]
      /\ panicked \in BOOLEAN /\ disturbed \in BOOLEAN
      /\ \A d \in Conns : handler[d].at \in {"send", "wait"} => handler[d].id \in Calls
      /\ \A j \in Kinds, a \in Calls : hostReq[j] = <<a>> => KindOf(a) = j
  BY DEF Typed, ConnectionTyped, HostTyped, InHand
<1>3. CASE HandlerReads(c)
  <2>1. /\ UNCHANGED <<down, hostReq, hostResp, panicked, disturbed>>
        /\ Head(up[c]) \in Calls /\ up' \in [Conns -> Seq(Calls)]
        /\ handler' \in [Conns -> HandlerRecords] /\ handler'[c].id = Head(up[c])
        /\ \A d \in Conns : d # c => handler'[d] = handler[d]
    BY <1>3, HandlerReadsFacts
  <2>2. \A d \in Conns : handler'[d].at \in {"send", "wait"} => handler'[d].id \in Calls
    BY <1>2, <2>1
  <2> QED
    BY <1>1, <1>2, <2>1, <2>2, HandlerKeepsTypesIf
<1>4. CASE HandlerSends(c)
  <2>1. /\ UNCHANGED <<up, hostResp, disturbed>> /\ panicked' \in BOOLEAN
        /\ handler[c].id \in Calls /\ KindOf(handler[c].id) \in Kinds /\ handler[c].id \in Ids
    BY <1>4, HandlerSendsFacts, CallNumbers DEF Typed
  <2>2. CASE /\ Slots(hostReq', Calls) /\ hostReq'[KindOf(handler[c].id)] = <<handler[c].id>>
             /\ \A j \in Kinds : j # KindOf(handler[c].id) => hostReq'[j] = hostReq[j]
             /\ handler' \in [Conns -> HandlerRecords]
             /\ handler'[c].at = "wait" /\ handler'[c].id = handler[c].id
             /\ \A d \in Conns : d # c => handler'[d] = handler[d]
             /\ UNCHANGED <<down, panicked>>
    <3>1. \A d \in Conns : handler'[d].at \in {"send", "wait"} => handler'[d].id \in Calls
      BY <1>2, <2>1, <2>2
    <3>2. ASSUME NEW j \in Kinds, NEW a \in Calls, hostReq'[j] = <<a>>
          PROVE  KindOf(a) = j
      <4>1. CASE j = KindOf(handler[c].id)
        BY <2>2, <3>2, <4>1
      <4>2. CASE j # KindOf(handler[c].id)
        BY <1>2, <2>2, <3>2, <4>2
      <4> QED
        BY <4>1, <4>2
    <3> QED
      BY <1>1, <1>2, <2>1, <2>2, <3>1, <3>2, HandlerKeepsTypesIf
  <2>3. CASE /\ Writes(c, KindOf(handler[c].id), handler[c].id, "none") /\ Returns(c)
             /\ UNCHANGED <<hostReq, panicked>>
    <3>1. /\ handler' \in [Conns -> HandlerRecords] /\ handler'[c].at \in {"read", "done"}
          /\ \A d \in Conns : d # c => handler'[d] = handler[d]
          /\ down' \in [Conns -> Seq(Lines)]
      BY <2>1, <2>3, AnswersFacts DEF Words
    <3>2. \A d \in Conns : handler'[d].at \in {"send", "wait"} => handler'[d].id \in Calls
      BY <1>2, <3>1
    <3> QED
      BY <1>1, <1>2, <2>1, <2>3, <3>1, <3>2, HandlerKeepsTypesIf
  <2>4. CASE UNCHANGED <<handler, hostReq, down>>
    BY <1>1, <1>2, <2>1, <2>4, HandlerKeepsTypesIf
  <2> QED
    BY <1>4, <2>2, <2>3, <2>4, HandlerSendsFacts
<1>5. CASE HandlerReceives(c)
  <2>1. /\ UNCHANGED <<up, hostReq, panicked, disturbed>> /\ KindOf(handler[c].id) \in Kinds
        /\ Returns(c)
    BY <1>5, HandlerReceivesFacts
  <2>2. PICK id \in Ids, word \in Words :
          Writes(c, KindOf(handler[c].id), id, word) /\ Slots(hostResp', Responses)
    <3>1. 0 \in Ids /\ "none" \in Words /\ \A r \in Responses : r.id \in Ids /\ r.word \in Words
      BY CallNumbers DEF Typed, Words, Responses
    <3> QED
      BY <1>2, <1>5, <3>1, HandlerReceivesFacts
  <2>3. /\ handler' \in [Conns -> HandlerRecords] /\ handler'[c].at \in {"read", "done"}
        /\ \A d \in Conns : d # c => handler'[d] = handler[d]
        /\ down' \in [Conns -> Seq(Lines)]
    BY <2>1, <2>2, AnswersFacts
  <2>4. \A d \in Conns : handler'[d].at \in {"send", "wait"} => handler'[d].id \in Calls
    BY <1>2, <2>3
  <2> QED
    BY <1>1, <1>2, <2>1, <2>2, <2>3, <2>4, HandlerKeepsTypesIf
<1>6. CASE HandlerTimesOut(c)
  <2>1. /\ UNCHANGED <<up, hostReq, hostResp, panicked>> /\ disturbed' \in BOOLEAN
        /\ handler[c].id \in Ids /\ KindOf(handler[c].id) \in Kinds /\ Returns(c)
        /\ Writes(c, KindOf(handler[c].id), handler[c].id, "none") /\ "none" \in Words
    BY <1>6, HandlerTimesOutFacts, CallNumbers DEF Typed, Words
  <2>2. /\ handler' \in [Conns -> HandlerRecords] /\ handler'[c].at \in {"read", "done"}
        /\ \A d \in Conns : d # c => handler'[d] = handler[d]
        /\ down' \in [Conns -> Seq(Lines)]
    BY <2>1, AnswersFacts
  <2>3. \A d \in Conns : handler'[d].at \in {"send", "wait"} => handler'[d].id \in Calls
    BY <1>2, <2>2
  <2> QED
    BY <1>1, <1>2, <2>1, <2>2, <2>3, HandlerKeepsTypesIf
<1>7. CASE HandlerEnds(c) \/ HandlerSeesEnd(c)
  <2>1. /\ UNCHANGED <<up, down, hostReq, hostResp, panicked, disturbed>>
        /\ handler' \in [Conns -> HandlerRecords] /\ handler'[c].at = "done"
        /\ \A d \in Conns : d # c => handler'[d] = handler[d]
    BY <1>7, HandlerEndsFacts
  <2>2. \A d \in Conns : handler'[d].at \in {"send", "wait"} => handler'[d].id \in Calls
    BY <1>2, <2>1
  <2> QED
    BY <1>1, <1>2, <2>1, <2>2, HandlerKeepsTypesIf
<1> QED
  BY <1>3, <1>4, <1>5, <1>6, <1>7 DEF HandlerStep

\* Any step of the TUI.
LEMMA UserKeepsTypesIf ==
  ASSUME Typed, UserLeaves,
         said' \in [Calls -> {"nothing", "yes", "always", "no"}],
         Slots(hostReq', Calls), Slots(hostResp', Responses), prompt' \in [Kinds -> {0} \cup Calls],
         \A j \in Kinds, a \in Calls : (hostReq'[j] = <<a>> \/ prompt'[j] = a) => KindOf(a) = j
  PROVE  Typed'
<1>1. /\ UNCHANGED <<calls, verdict, source, server, allowed>>
      /\ UNCHANGED <<conn, alive, dialer, subReq, subResp, fwd, up, down, handler, stop, panicked,
                     disturbed>>
  BY DEF UserLeaves
<1>2. CallsTyped'
  BY <1>1, CallsStay DEF Typed, CallsTyped
<1>3. ConnectionTyped' /\ SubprocessTyped'
  BY <1>1, WiresTyped, ConnectionTypedStays, SubprocessTypedStays DEF Typed
<1>4. HostTyped'
  BY <1>1, CallsStay DEF Typed, HostTyped
<1>5. InHand'
  BY <1>1, CallsStay DEF Typed, InHand
<1> QED
  BY <1>2, <1>3, <1>4, <1>5 DEF Typed

LEMMA UserKeepsTypes ==
  ASSUME Typed, UserStep
  PROVE  Typed'
<1>1. UserLeaves
  BY UserFacts
<1>2. /\ Slots(hostReq, Calls) /\ Slots(hostResp, Responses) /\ prompt \in [Kinds -> {0} \cup Calls]
      /\ said \in [Calls -> {"nothing", "yes", "always", "no"}]
      /\ \A j \in Kinds, a \in Calls : (hostReq[j] = <<a>> \/ prompt[j] = a) => KindOf(a) = j
  BY DEF Typed, CallsTyped, HostTyped, InHand
<1>3. ASSUME NEW k \in Kinds, Shows(k)
      PROVE  Typed'
  <2>1. UNCHANGED <<said, hostResp>>
    BY <1>3, ShowsFacts
  <2>2. PICK a \in Calls :
          /\ KindOf(a) = k /\ hostReq'[k] = <<>> /\ Slots(hostReq', Calls)
          /\ \A j \in Kinds : j # k => hostReq'[j] = hostReq[j] /\ prompt'[j] = prompt[j]
          /\ prompt' \in [Kinds -> {0} \cup Calls] /\ prompt'[k] = a
    BY <1>3, ShowsFacts
  <2>3. \A j \in Kinds, b \in Calls : (hostReq'[j] = <<b>> \/ prompt'[j] = b) => KindOf(b) = j
    BY <1>2, <2>2
  <2> QED
    BY <1>1, <1>2, <2>1, <2>2, <2>3, UserKeepsTypesIf
<1>4. ASSUME NEW k \in Kinds, NEW word \in {"yes", "always", "no"}, SendResponse(k, word)
      PROVE  Typed'
  <2>1. /\ hostReq' = hostReq /\ prompt'[k] = 0 /\ prompt' \in [Kinds -> {0} \cup Calls]
        /\ \A j \in Kinds : j # k => prompt'[j] = prompt[j]
        /\ said' \in [Calls -> {"nothing", "yes", "always", "no"}]
        /\ Slots(hostResp', Responses)
    BY <1>2, <1>4, SendResponseFacts
  <2>2. \A j \in Kinds, b \in Calls : (hostReq'[j] = <<b>> \/ prompt'[j] = b) => KindOf(b) = j
    BY <1>2, <2>1, CallNumbers DEF Typed
  <2> QED
    BY <1>1, <1>2, <2>1, <2>2, UserKeepsTypesIf
<1> QED
  BY <1>3, <1>4, UserFacts

\* The death of the subprocess, with what else changes at it.
LEMMA DeathKeepsTypes ==
  ASSUME Typed, SubprocessDies,
         UNCHANGED <<calls, source, said, conn, dialer, up, down, handler, hostReq, hostResp, prompt,
                     panicked>>,
         (stop' = stop /\ conn < MaxConns) \/ stop' = "killed"
  PROVE  Typed'
<1>1. /\ alive' = FALSE /\ server' = "read" /\ allowed' = InitiallyAllowed
      /\ Slots(subReq', Calls) /\ Slots(subResp', Responses)
      /\ fwd' \in [Kinds -> ForwarderRecords]
      /\ \A k \in Kinds : subReq'[k] = <<>> /\ subResp'[k] = <<>> /\ fwd'[k].at = "take"
      /\ verdict' \in [Calls -> {"open", "allowed", "denied", "lost"}]
      /\ \A c \in Calls : verdict'[c] = IF verdict[c] = "open" THEN "lost" ELSE verdict[c]
      /\ disturbed' \in BOOLEAN
  BY DiesFacts
<1>2. \A c \in Calls : verdict'[c] # "open"
  BY <1>1
<1>3. CallsTyped'
  BY <1>1, <1>2, CallsStay, ToolsAssumption DEF Typed, CallsTyped
<1>4. SubprocessTyped'
  BY <1>1, CallsStay DEF Typed, SubprocessTyped
<1>5. ConnectionTyped'
  BY <1>1, CallsStay DEF Typed, ConnectionTyped
<1>6. HostTyped'
  BY <1>1, CallsStay DEF Typed, HostTyped
<1>7. InHand'
  <2>1. \A k \in Kinds, a \in Calls : subReq'[k] # <<a>>
    BY <1>1
  <2>2. \A k \in Kinds : fwd'[k].at \notin {"write", "read"}
    BY <1>1
  <2> QED
    BY <2>1, <2>2, CallsStay DEF Typed, InHand
<1> QED
  BY <1>3, <1>4, <1>5, <1>6, <1>7 DEF Typed

LEMMA ConnectFacts ==
  ASSUME Typed, Connect
  PROVE  /\ UNCHANGED <<calls, verdict, source, said, server, allowed, subReq, subResp, fwd, up, down,
                        hostReq, hostResp, prompt, stop, panicked, disturbed>>
         /\ ~alive /\ stop = "no" /\ conn' = conn + 1 /\ alive' = TRUE /\ conn' \in Conns
         /\ server = "read"
         /\ dialer' = dialer \/ (dialer' \in DialerRecords /\ dialer'.at = "dial")
         /\ handler' \in [Conns -> HandlerRecords]
         /\ handler'[conn'].at \notin {"send", "wait"} \/ handler' = handler
         /\ \A d \in Conns : d # conn' => handler'[d] = handler[d]
<1>1. conn < MaxConns /\ conn \in Conns /\ server = "read"
  BY DEF Connect, Typed, ConnectionTyped
<1>2. conn + 1 \in Conns /\ 0 \in 0..MaxConns
  BY <1>1, BoundsAssumption DEF Conns
<1>3. handler \in [Conns -> HandlerRecords] /\ 0 \in Ids
  BY CallNumbers DEF Typed, HostTyped
<1>4. CASE Containerized
  <2>1. handler' = handler
    BY <1>4 DEF Connect
  <2>2. dialer' = dialer \/ dialer' = [at |-> "dial", conn |-> 0]
    BY <1>4 DEF Connect
  <2>3. dialer' = dialer \/ (dialer' \in DialerRecords /\ dialer'.at = "dial")
    BY <1>2, <2>2 DEF DialerRecords
  <2> QED
    BY <1>1, <1>2, <1>3, <2>1, <2>3 DEF Connect, callVars, subVars, wireVars, userVars, stopVars
<1>5. CASE ~Containerized
  <2>1. At(conn + 1, "read", 0) /\ dialer' = dialer
    BY <1>5 DEF Connect
  <2>2. /\ handler' \in [Conns -> HandlerRecords] /\ handler'[conn + 1].at = "read"
        /\ \A d \in Conns : d # conn + 1 => handler'[d] = handler[d]
    BY <1>2, <1>3, <2>1, AtSets
  <2> QED
    BY <1>1, <1>2, <2>1, <2>2 DEF Connect, callVars, subVars, wireVars, userVars, stopVars
<1> QED
  BY <1>4, <1>5

LEMMA DialerFacts ==
  ASSUME Typed, DialerStep
  PROVE  /\ UNCHANGED <<calls, verdict, source, said, server, allowed, subReq, subResp, fwd, up, down,
                        conn, alive, hostReq, hostResp, prompt, stop, panicked, disturbed>>
         /\ dialer' \in DialerRecords /\ (dialer'.at = "serve" => dialer'.conn \in Conns)
         /\ handler' \in [Conns -> HandlerRecords]
         /\ handler' = handler \/ (handler[conn].at = "none" /\ handler'[conn].at = "read")
         /\ \A d \in Conns : d # conn => handler'[d] = handler[d]
<1>1. UNCHANGED <<calls, verdict, source, said, server, allowed, subReq, subResp, fwd, up, down,
                  conn, alive, hostReq, hostResp, prompt, stop, panicked, disturbed>>
  BY DEF DialerStep, callVars, subVars, wireVars, userVars, stopVars
<1>2. /\ handler \in [Conns -> HandlerRecords] /\ 0 \in Ids /\ conn \in Conns
      /\ conn \in 0..MaxConns /\ 0 \in 0..MaxConns
  BY CallNumbers, BoundsAssumption DEF Typed, HostTyped, ConnectionTyped, Conns
<1>3. CASE Dials
  <2>1. /\ At(conn, "read", 0) /\ dialer' = [at |-> "serve", conn |-> conn]
        /\ handler[conn].at = "none"
    BY <1>3 DEF Dials
  <2>2. /\ handler' \in [Conns -> HandlerRecords] /\ handler'[conn].at = "read"
        /\ \A d \in Conns : d # conn => handler'[d] = handler[d]
    BY <1>2, <2>1, AtSets
  <2>3. dialer' \in DialerRecords /\ dialer'.conn \in Conns
    BY <1>2, <2>1 DEF DialerRecords
  <2> QED
    BY <1>1, <2>1, <2>2, <2>3
<1>4. CASE DialerGivesUp \/ DialerReturns
  <2>1. PICK at \in {"dial", "off"} : dialer' = [at |-> at, conn |-> 0]
    BY <1>4 DEF DialerGivesUp, DialerReturns
  <2>2. dialer' \in DialerRecords /\ dialer'.at # "serve"
    BY <1>2, <2>1 DEF DialerRecords
  <2>3. handler' = handler
    BY <1>4 DEF DialerGivesUp, DialerReturns
  <2> QED
    BY <1>1, <1>2, <2>2, <2>3
<1> QED
  BY <1>3, <1>4 DEF DialerStep

LEMMA LifeKeepsTypes ==
  ASSUME Typed, LifeStep
  PROVE  Typed'
<1>1. CASE Crash
  <2>1. /\ SubprocessDies
        /\ UNCHANGED <<calls, source, said, conn, dialer, up, down, handler, hostReq, hostResp, prompt,
                       panicked>>
        /\ stop' = stop /\ conn < MaxConns
    BY <1>1 DEF Crash, wireVars, hostVars, userVars, stopVars
  <2> QED
    BY <2>1, DeathKeepsTypes
<1>2. CASE Connect
  <2>1. /\ UNCHANGED <<calls, verdict, source, said, server, allowed, subReq, subResp, fwd, up, down,
                       hostReq, hostResp, prompt, stop, panicked, disturbed>>
        /\ stop = "no" /\ alive' = TRUE /\ conn' \in Conns
        /\ dialer' = dialer \/ (dialer' \in DialerRecords /\ dialer'.at = "dial")
        /\ handler' \in [Conns -> HandlerRecords]
        /\ handler'[conn'].at \notin {"send", "wait"} \/ handler' = handler
        /\ \A d \in Conns : d # conn' => handler'[d] = handler[d]
    BY <1>2, ConnectFacts
  <2>2. CallsTyped' /\ SubprocessTyped'
    BY <2>1, CallsTypedStays, SubprocessTypedStays DEF Typed
  <2>3. ConnectionTyped'
    BY <2>1, CallsStay DEF Typed, ConnectionTyped
  <2>4. HostTyped'
    BY <2>1, CallsStay DEF Typed, HostTyped
  <2>5. InHand'
    BY <2>1, CallsStay DEF Typed, InHand
  <2> QED
    BY <2>2, <2>3, <2>4, <2>5 DEF Typed
<1>3. CASE DialerStep
  <2>1. /\ UNCHANGED <<calls, verdict, source, said, server, allowed, subReq, subResp, fwd, up, down,
                       conn, alive, hostReq, hostResp, prompt, stop, panicked, disturbed>>
        /\ dialer' \in DialerRecords /\ (dialer'.at = "serve" => dialer'.conn \in Conns)
        /\ handler' \in [Conns -> HandlerRecords]
        /\ handler' = handler \/ (handler[conn].at = "none" /\ handler'[conn].at = "read")
        /\ \A d \in Conns : d # conn => handler'[d] = handler[d]
    BY <1>3, DialerFacts
  <2>2. CallsTyped' /\ SubprocessTyped'
    BY <2>1, CallsTypedStays, SubprocessTypedStays DEF Typed
  <2>3. ConnectionTyped'
    BY <2>1, CallsStay DEF Typed, ConnectionTyped
  <2>4. HostTyped'
    BY <2>1, CallsStay DEF Typed, HostTyped
  <2>5. InHand'
    BY <2>1, CallsStay DEF Typed, InHand
  <2> QED
    BY <2>2, <2>3, <2>4, <2>5 DEF Typed
<1>4. CASE StopKills
  <2>1. /\ UNCHANGED <<calls, source, said, conn, dialer, up, down, handler, hostReq, hostResp, prompt,
                       panicked>>
        /\ stop = "no" /\ stop' = "killed"
    BY <1>4 DEF StopKills, wireVars, hostVars, userVars
  <2>2. CASE alive
    BY <1>4, <2>1, <2>2, DeathKeepsTypes DEF StopKills
  <2>3. CASE ~alive
    <3>1. UNCHANGED <<alive, verdict, disturbed, server, allowed, subReq, subResp, fwd>>
      BY <1>4, <2>3 DEF StopKills, subVars
    <3>2. CallsTyped' /\ SubprocessTyped' /\ InHand'
      BY <2>1, <3>1, CallsTypedStays, SubprocessTypedStays, InHandStays DEF Typed
    <3>3. ConnectionTyped'
      BY <2>1, <2>3, <3>1, CallsStay DEF Typed, ConnectionTyped
    <3>4. HostTyped'
      BY <2>1, <3>1, CallsStay DEF Typed, HostTyped
    <3> QED
      BY <3>2, <3>3, <3>4 DEF Typed
  <2> QED
    BY <2>2, <2>3
<1>5. CASE StopCloses
  <2>1. /\ UNCHANGED <<calls, verdict, source, said, server, allowed, subReq, subResp, fwd, up, down,
                       conn, alive, dialer, handler, hostReq, hostResp, prompt, panicked, disturbed>>
        /\ stop # "no" /\ stop' \in {"closing", "done"}
    BY <1>5 DEF StopCloses, callVars, subVars, connVars, wireVars, hostVars, userVars
  <2>2. CallsTyped' /\ SubprocessTyped' /\ InHand'
    BY <2>1, CallsTypedStays, SubprocessTypedStays, InHandStays DEF Typed
  <2>3. ConnectionTyped'
    BY <2>1, CallsStay DEF Typed, ConnectionTyped
  <2>4. HostTyped'
    BY <2>1, CallsStay DEF Typed, HostTyped
  <2> QED
    BY <2>2, <2>3, <2>4 DEF Typed
<1> QED
  BY <1>1, <1>2, <1>3, <1>4, <1>5 DEF LifeStep

LEMMA InitTyped ==
  ASSUME Init
  PROVE  Typed
<1>1. /\ calls = <<>> /\ verdict = <<>> /\ source = <<>> /\ said = <<>> /\ server = "read"
      /\ allowed = InitiallyAllowed
      /\ subReq = Empty /\ subResp = Empty /\ hostReq = Empty /\ hostResp = Empty
      /\ fwd = [k \in Kinds |-> Idle]
      /\ conn = 1 /\ alive = TRUE /\ stop = "no" /\ panicked = FALSE /\ disturbed = FALSE
      /\ up = [c \in Conns |-> <<>>] /\ down = [c \in Conns |-> <<>>]
      /\ prompt = [k \in Kinds |-> 0]
  BY DEF Init, SubprocessInit, ConnectionInit, RunnerInit
<1>2. Current = 0 /\ Calls = {} /\ 0 \in Ids
  BY <1>1, BoundsAssumption DEF Current, Calls, Ids
<1>3. CallsTyped
  BY <1>1, <1>2, ToolsAssumption, BoundsAssumption DEF CallsTyped
<1>4. Idle \in ForwarderRecords /\ Idle.at = "take"
  BY <1>2 DEF Idle, ForwarderRecords, Words
<1>5. SubprocessTyped
  BY <1>1, <1>4, EmptySlots DEF SubprocessTyped
<1>6. dialer \in DialerRecords /\ dialer.at # "serve"
  <2>1. \A at \in {"dial", "off"} :
          [at |-> at, conn |-> 0] \in DialerRecords /\ [at |-> at, conn |-> 0].at # "serve"
    BY BoundsAssumption DEF DialerRecords
  <2> QED
    BY <2>1 DEF Init, ConnectionInit
<1>7. ConnectionTyped
  BY <1>1, <1>6, BoundsAssumption DEF ConnectionTyped, Conns
<1>8. /\ handler \in [Conns -> HandlerRecords]
      /\ \A c \in Conns : handler[c].at \notin {"send", "wait"}
  <2>1. ASSUME NEW c \in Conns
        PROVE  /\ handler[c] \in HandlerRecords /\ handler[c].at \notin {"send", "wait"}
    <3>1. PICK at \in {"read", "none"} : handler[c] = [at |-> at, id |-> 0]
      BY DEF Init, ConnectionInit
    <3> QED
      BY <1>2, <3>1 DEF HandlerRecords
  <2> QED
    BY <2>1 DEF Init, ConnectionInit
<1>9. HostTyped
  BY <1>1, <1>8, EmptySlots DEF HostTyped
<1>10. InHand
  BY <1>1, <1>2, <1>4, <1>8 DEF InHand
<1> QED
  BY <1>3, <1>5, <1>7, <1>9, <1>10 DEF Typed

LEMMA TypedStays ==
  ASSUME Typed, UNCHANGED vars
  PROVE  Typed'
<1>1. /\ UNCHANGED <<calls, verdict, source, said, server, allowed, subReq, subResp, fwd, conn, alive,
                     dialer, up, down>>
      /\ UNCHANGED <<handler, hostReq, hostResp, prompt, stop, panicked, disturbed>>
  BY DEF vars, callVars, subVars, connVars, wireVars, hostVars, userVars, stopVars
<1>2. CallsTyped' /\ SubprocessTyped' /\ ConnectionTyped' /\ InHand'
  BY <1>1, WiresTyped, CallsTypedStays, SubprocessTypedStays, ConnectionTypedStays, InHandStays
  DEF Typed
<1>3. HostTyped'
  BY <1>1, HostTypedStays DEF Typed, HostTyped
<1> QED
  BY <1>2, <1>3 DEF Typed

LEMMA NextKeepsTypes ==
  ASSUME Typed, [Next]_vars
  PROVE  Typed'
BY TypedStays, ReadCallKeepsTypes, ServerSendsKeepsTypes, ServerReceivesKeepsTypes,
   ServerTimesOutKeepsTypes, ForwarderKeepsTypes, UserKeepsTypes, HandlerKeepsTypes, LifeKeepsTypes
DEF Next, ServerStep

LEMMA TypedImpliesTypeOK ==
  ASSUME Typed
  PROVE  TypeOK
<1>1. /\ CallsTyped /\ SubprocessTyped /\ ConnectionTyped /\ HostTyped
  BY DEF Typed
<1>2. server # "read" => Current > 0 /\ verdict[Current] = "open"
  BY <1>1, CallNumbers DEF CallsTyped
<1>3. \A S, f : Slots(f, S) => f \in [Kinds -> Seq(S)] /\ \A k \in Kinds : Len(f[k]) \in 0..ChannelBuffer
  <2> SUFFICES ASSUME NEW S, NEW f, Slots(f, S)
               PROVE  f \in [Kinds -> Seq(S)] /\ \A k \in Kinds : Len(f[k]) \in 0..ChannelBuffer
    OBVIOUS
  <2>1. f \in [Kinds -> Slot(S)]
    BY DEF Slots
  <2>2. \A k \in Kinds : f[k] \in Seq(S) /\ Len(f[k]) \in 0..ChannelBuffer
    BY <2>1, SlotsAreSequences
  <2> QED
    BY <2>1, <2>2
<1>4. /\ Slots(subReq, Calls) /\ Slots(hostReq, Calls)
      /\ Slots(subResp, Responses) /\ Slots(hostResp, Responses)
  BY <1>1 DEF SubprocessTyped, HostTyped
<1>5. /\ subReq \in [Kinds -> Seq(1..Current)] /\ hostReq \in [Kinds -> Seq(1..Current)]
      /\ subResp \in [Kinds -> Seq([id : Ids, word : Words])]
      /\ hostResp \in [Kinds -> Seq([id : Ids, word : Words])]
  BY <1>3, <1>4 DEF Calls, Responses
<1>6. \A k \in Kinds :
       {Len(subReq[k]), Len(subResp[k]), Len(hostReq[k]), Len(hostResp[k])} \subseteq 0..ChannelBuffer
  BY <1>3, <1>4
<1>7. prompt \in [Kinds -> 0..Current]
  <2>1. {0} \cup Calls = 0..Current
    BY <1>1, CallNumbers DEF Calls
  <2> QED
    BY <1>1, <2>1 DEF HostTyped
<1>8. /\ calls \in Seq([kind : Kinds, tool : Tools \cup {"none"}]) /\ Current <= MaxCalls
      /\ verdict \in [1..Current -> {"open", "allowed", "denied", "lost"}]
      /\ source \in [1..Current -> Ids]
      /\ said \in [1..Current -> {"nothing", "yes", "always", "no"}]
      /\ server \in {"read", "send", "wait"}
      /\ allowed \subseteq Tools
  BY <1>1 DEF CallsTyped, CallRecords, Calls
<1>9. /\ fwd \in [Kinds -> [at : {"take", "write", "read", "put"}, id : Ids, word : Words]]
      /\ conn \in Conns /\ alive \in BOOLEAN
      /\ dialer \in [at : {"dial", "serve", "off"}, conn : 0..MaxConns]
      /\ dialer.at = "serve" => dialer.conn \in Conns
      /\ up \in [Conns -> Seq(1..Current)] /\ down \in [Conns -> Seq(Lines)]
      /\ handler \in [Conns -> [at : {"none", "read", "send", "wait", "done"}, id : Ids]]
  BY <1>1 DEF SubprocessTyped, ConnectionTyped, HostTyped, ForwarderRecords, DialerRecords,
     HandlerRecords, Calls
<1>10. stop \in {"no", "killed", "closing", "done"} /\ panicked \in BOOLEAN /\ disturbed \in BOOLEAN
  BY <1>1 DEF HostTyped
<1> QED
  BY <1>2, <1>5, <1>6, <1>7, <1>8, <1>9, <1>10 DEF TypeOK

-----------------------------------------------------------------------------
(* How the places change, one at a time.                                   *)

LEMMA PlacesStay ==
  ASSUME calls' = calls
  PROVE  /\ server' = server => AtServer' = AtServer
         /\ subReq' = subReq => InSubReq' = InSubReq
         /\ fwd' = fwd => ToBeWritten' = ToBeWritten /\ ToBePut' = ToBePut
         /\ up' = up => Up' = Up /\ (UpOnce => UpOnce')
         /\ handler' = handler => AtHandler' = AtHandler /\ (HandlersApart => HandlersApart')
         /\ hostReq' = hostReq => InHostReq' = InHostReq
         /\ prompt' = prompt => Shown' = Shown
         /\ said' = said => Said' = Said
         /\ hostResp' = hostResp => InHostResp' = InHostResp
         /\ down' = down => Down' = Down /\ (DownOnce => DownOnce')
         /\ subResp' = subResp => InSubResp' = InSubResp
         /\ source' = source => Used' = Used
<1>1. Current' = Current /\ Calls' = Calls /\ \A a \in Calls : KindOf(a)' = KindOf(a)
  BY CallsStay
<1>2. /\ server' = server => AtServer' = AtServer
      /\ up' = up => Up' = Up /\ (UpOnce => UpOnce')
      /\ handler' = handler => AtHandler' = AtHandler /\ (HandlersApart => HandlersApart')
      /\ said' = said => Said' = Said
      /\ source' = source => Used' = Used
  BY <1>1 DEF AtServer, Up, UpOnce, AtHandler, HandlersApart, Said, Used
<1>3. down' = down => Down' = Down /\ (DownOnce => DownOnce')
  BY <1>1 DEF Down, DownOnce, Tells
<1>4. /\ subReq' = subReq => InSubReq' = InSubReq
      /\ hostReq' = hostReq => InHostReq' = InHostReq
      /\ prompt' = prompt => Shown' = Shown
  BY <1>1 DEF InSubReq, InHostReq, Shown
<1>5. fwd' = fwd => ToBeWritten' = ToBeWritten /\ ToBePut' = ToBePut
  BY <1>1 DEF ToBeWritten, ToBePut, Tells
<1>6. /\ hostResp' = hostResp => InHostResp' = InHostResp
      /\ subResp' = subResp => InSubResp' = InSubResp
  BY <1>1 DEF InHostResp, InSubResp
<1> QED
  BY <1>2, <1>3, <1>4, <1>5, <1>6

\* A request goes up the wire, or comes off it.
LEMMA UpGrows ==
  ASSUME Typed, UpOnce, calls' = calls, NEW c \in Conns, NEW a \in Calls, a \notin Up,
         Grows(up'[c], up[c], a), \A d \in Conns : d # c => up'[d] = up[d]
  PROVE  UpOnce' /\ Up' \subseteq Up \cup {a}
<1>1. up[c] \in Seq(Calls)
  BY DEF Typed, ConnectionTyped
<1>2. /\ up'[c] \in Seq(Calls) /\ up'[c][Len(up'[c])] = a
      /\ \A i \in DOMAIN up[c] : i \in DOMAIN up'[c] /\ up'[c][i] = up[c][i]
      /\ \A i \in DOMAIN up'[c] : i = Len(up'[c]) \/ i \in DOMAIN up[c]
  BY <1>1, AppendFacts
<1>3. \A d \in Conns : \A i \in DOMAIN up'[d] :
        \/ d = c /\ i = Len(up'[c]) /\ up'[d][i] = a
        \/ i \in DOMAIN up[d] /\ up'[d][i] = up[d][i]
  BY <1>2
<1>4. \A d \in Conns : \A i \in DOMAIN up[d] : up[d][i] # a
  BY DEF Up
<1>5. ASSUME NEW d \in Conns, NEW e \in Conns, NEW i \in DOMAIN up'[d], NEW j \in DOMAIN up'[e],
             up'[d][i] = up'[e][j]
      PROVE  d = e /\ i = j
  <2>1. CASE i \in DOMAIN up[d] /\ up'[d][i] = up[d][i]
    <3>1. CASE j \in DOMAIN up[e] /\ up'[e][j] = up[e][j]
      <4>1. up[d][i] = up[e][j]
        BY <1>5, <2>1, <3>1
      <4> QED
        BY <2>1, <3>1, <4>1 DEF UpOnce
    <3>2. CASE e = c /\ j = Len(up'[c]) /\ up'[e][j] = a
      BY <1>4, <1>5, <2>1, <3>2
    <3> QED
      BY <1>3, <3>1, <3>2
  <2>2. CASE d = c /\ i = Len(up'[c]) /\ up'[d][i] = a
    BY <1>3, <1>4, <1>5, <2>2
  <2> QED
    BY <1>3, <2>1, <2>2
<1>6. Up' \subseteq Up \cup {a}
  BY <1>3, CallsStay DEF Up
<1> QED
  BY <1>5, <1>6 DEF UpOnce

LEMMA UpShrinks ==
  ASSUME Typed, UpOnce, calls' = calls, NEW c \in Conns, up[c] # <<>>,
         Shrinks(up'[c], up[c]), \A d \in Conns : d # c => up'[d] = up[d]
  PROVE  UpOnce' /\ Head(up[c]) \in Up /\ Up' \subseteq Up \ {Head(up[c])}
<1>1. up[c] \in Seq(Calls)
  BY DEF Typed, ConnectionTyped
<1>2. /\ 1 \in DOMAIN up[c] /\ up[c][1] = Head(up[c]) /\ Head(up[c]) \in Calls
      /\ \A i \in DOMAIN up'[c] : i + 1 \in DOMAIN up[c] /\ up'[c][i] = up[c][i + 1] /\ i + 1 # 1
      /\ \A i \in DOMAIN up'[c] : i \in Nat
  BY <1>1, TailFacts
<1>3. Head(up[c]) \in Up
  BY <1>2 DEF Up
<1>4. ASSUME NEW d \in Conns, NEW i \in DOMAIN up'[d]
      PROVE  /\ \E j \in DOMAIN up[d] : up[d][j] = up'[d][i]
             /\ up'[d][i] # Head(up[c])
  <2>1. CASE d = c
    BY <1>2, <2>1 DEF UpOnce
  <2>2. CASE d # c
    BY <1>2, <2>2 DEF UpOnce
  <2> QED
    BY <2>1, <2>2
<1>5. Up' \subseteq Up \ {Head(up[c])}
  BY <1>4, CallsStay DEF Up
<1>6. ASSUME NEW d \in Conns, NEW e \in Conns, NEW i \in DOMAIN up'[d], NEW j \in DOMAIN up'[e],
             up'[d][i] = up'[e][j]
      PROVE  d = e /\ i = j
  <2>1. CASE d = c /\ e = c
    <3>1. i + 1 = j + 1
      BY <1>2, <1>6, <2>1 DEF UpOnce
    <3> QED
      BY <1>2, <2>1, <3>1
  <2>2. CASE d = c /\ e # c
    BY <1>2, <1>6, <2>2 DEF UpOnce
  <2>3. CASE d # c /\ e = c
    BY <1>2, <1>6, <2>3 DEF UpOnce
  <2>4. CASE d # c /\ e # c
    BY <1>6, <2>4 DEF UpOnce
  <2> QED
    BY <2>1, <2>2, <2>3, <2>4
<1> QED
  BY <1>3, <1>5, <1>6 DEF UpOnce

\* A line goes down the wire, or comes off it.
LEMMA DownGrows ==
  ASSUME Typed, DownOnce, calls' = calls, NEW c \in Conns, NEW line \in Lines,
         line.word # "none" => line.id \in Calls /\ line.id \notin Down,
         Grows(down'[c], down[c], line), \A d \in Conns : d # c => down'[d] = down[d]
  PROVE  /\ DownOnce' /\ Down' \subseteq Down \cup {a \in Calls : Tells(line, a)}
         /\ \A d \in Conns : \A i \in DOMAIN down'[d] :
              down'[d][i] = line \/ \E j \in DOMAIN down[d] : down'[d][i] = down[d][j]
<1>1. down[c] \in Seq(Lines)
  BY DEF Typed, ConnectionTyped
<1>2. /\ down'[c] \in Seq(Lines) /\ down'[c][Len(down'[c])] = line
      /\ \A i \in DOMAIN down[c] : i \in DOMAIN down'[c] /\ down'[c][i] = down[c][i]
      /\ \A i \in DOMAIN down'[c] : i = Len(down'[c]) \/ i \in DOMAIN down[c]
  BY <1>1, AppendFacts
<1>3. \A d \in Conns : \A i \in DOMAIN down'[d] :
        \/ d = c /\ i = Len(down'[c]) /\ down'[d][i] = line
        \/ i \in DOMAIN down[d] /\ down'[d][i] = down[d][i]
  BY <1>2
<1>4. line.word # "none" => \A d \in Conns : \A i \in DOMAIN down[d] :
        down[d][i].word # "none" => down[d][i].id # line.id
  BY DEF Down, Tells
<1>5. ASSUME NEW d \in Conns, NEW e \in Conns, NEW i \in DOMAIN down'[d], NEW j \in DOMAIN down'[e],
             down'[d][i].word # "none", down'[e][j].word # "none", down'[d][i].id = down'[e][j].id
      PROVE  d = e /\ i = j
  <2>1. CASE i \in DOMAIN down[d] /\ down'[d][i] = down[d][i]
    <3>1. CASE j \in DOMAIN down[e] /\ down'[e][j] = down[e][j]
      BY <1>5, <2>1, <3>1 DEF DownOnce
    <3>2. CASE e = c /\ j = Len(down'[c]) /\ down'[e][j] = line
      BY <1>4, <1>5, <2>1, <3>2
    <3> QED
      BY <1>3, <3>1, <3>2
  <2>2. CASE d = c /\ i = Len(down'[c]) /\ down'[d][i] = line
    <3>1. CASE j \in DOMAIN down[e] /\ down'[e][j] = down[e][j]
      BY <1>4, <1>5, <2>2, <3>1
    <3>2. CASE e = c /\ j = Len(down'[c]) /\ down'[e][j] = line
      BY <2>2, <3>2
    <3> QED
      BY <1>3, <3>1, <3>2
  <2> QED
    BY <1>3, <2>1, <2>2
<1>6. Down' \subseteq Down \cup {a \in Calls : Tells(line, a)}
  BY <1>3, CallsStay DEF Down, Tells
<1> QED
  BY <1>3, <1>5, <1>6 DEF DownOnce

LEMMA DownShrinks ==
  ASSUME Typed, DownOnce, calls' = calls, NEW c \in Conns, down[c] # <<>>,
         Shrinks(down'[c], down[c]), \A d \in Conns : d # c => down'[d] = down[d]
  PROVE  /\ DownOnce' /\ Down' \subseteq Down
         /\ \A a \in Calls : Tells(Head(down[c]), a) => a \in Down /\ a \notin Down'
         /\ \E i \in DOMAIN down[c] : down[c][i] = Head(down[c])
         /\ \A d \in Conns : \A i \in DOMAIN down'[d] :
              \E j \in DOMAIN down[d] : down'[d][i] = down[d][j]
<1>1. down[c] \in Seq(Lines)
  BY DEF Typed, ConnectionTyped
<1>2. /\ 1 \in DOMAIN down[c] /\ down[c][1] = Head(down[c])
      /\ \A i \in DOMAIN down'[c] :
           i + 1 \in DOMAIN down[c] /\ down'[c][i] = down[c][i + 1] /\ i + 1 # 1
      /\ \A i \in DOMAIN down'[c] : i \in Nat
  BY <1>1, TailFacts
<1>3. \A d \in Conns : \A i \in DOMAIN down'[d] :
        \E j \in DOMAIN down[d] : down'[d][i] = down[d][j] /\ (d = c => j = i + 1 /\ j # 1) /\ (d # c => j = i)
  BY <1>2
<1>4. Down' \subseteq Down
  BY <1>3, CallsStay DEF Down, Tells
<1>5. ASSUME NEW a \in Calls, Tells(Head(down[c]), a)
      PROVE  a \in Down /\ a \notin Down'
  <2>1. a \in Down
    BY <1>2, <1>5 DEF Down
  <2>2. ASSUME NEW d \in Conns, NEW i \in DOMAIN down'[d], Tells(down'[d][i], a)
        PROVE  FALSE
    <3>1. PICK j \in DOMAIN down[d] : down'[d][i] = down[d][j] /\ (d = c => j # 1)
      BY <1>3
    <3>2. d = c /\ j = 1
      BY <1>2, <1>5, <2>2, <3>1 DEF Tells, DownOnce
    <3> QED
      BY <3>1, <3>2
  <2> QED
    BY <2>1, <2>2, CallsStay DEF Down
<1>6. ASSUME NEW d \in Conns, NEW e \in Conns, NEW i \in DOMAIN down'[d], NEW j \in DOMAIN down'[e],
             down'[d][i].word # "none", down'[e][j].word # "none", down'[d][i].id = down'[e][j].id
      PROVE  d = e /\ i = j
  <2>1. PICK m \in DOMAIN down[d] :
          down'[d][i] = down[d][m] /\ (d = c => m = i + 1 /\ m # 1) /\ (d # c => m = i)
    BY <1>3
  <2>2. PICK n \in DOMAIN down[e] :
          down'[e][j] = down[e][n] /\ (e = c => n = j + 1 /\ n # 1) /\ (e # c => n = j)
    BY <1>3
  <2>3. d = e /\ m = n
    BY <1>6, <2>1, <2>2 DEF DownOnce
  <2> QED
    BY <1>2, <2>1, <2>2, <2>3
<1> QED
  BY <1>2, <1>3, <1>4, <1>5, <1>6 DEF DownOnce

-----------------------------------------------------------------------------
(* No request is in two places.                                            *)

\* A step that moves no request, though it may drop some.
LEMMA AskingShrinks ==
  ASSUME Asking, AtServer' \subseteq AtServer, InSubReq' \subseteq InSubReq,
         ToBeWritten' \subseteq ToBeWritten, Up' \subseteq Up, AtHandler' \subseteq AtHandler,
         InHostReq' \subseteq InHostReq, Shown' \subseteq Shown, Said' \subseteq Said,
         UpOnce', HandlersApart'
  PROVE  Asking'
<1>1. RequestsApart'
  BY DEF Asking, RequestsApart
<1> QED
  BY <1>1 DEF Asking

LEMMA AskingStays ==
  ASSUME Asking, UNCHANGED <<calls, subReq, up, hostReq, prompt, said>>,
         server' # "send" \/ server' = server,
         ToBeWritten' \subseteq ToBeWritten, AtHandler' \subseteq AtHandler, HandlersApart'
  PROVE  Asking'
<1>1. /\ InSubReq' = InSubReq /\ Up' = Up /\ UpOnce' /\ InHostReq' = InHostReq /\ Shown' = Shown
      /\ Said' = Said
  BY PlacesStay DEF Asking
<1>2. AtServer' \subseteq AtServer
  BY CallsStay DEF AtServer
<1> QED
  BY <1>1, <1>2, AskingShrinks

LEMMA ServerSendsKeepsAsking ==
  ASSUME Typed, Asking, ServerSends
  PROVE  Asking'
<1>1. /\ server = "send" /\ server' # "send" /\ Current \in Calls
      /\ UNCHANGED <<calls, said, fwd, up, handler, hostReq, prompt>>
  BY ServerSendsFacts
<1>2. /\ ToBeWritten' = ToBeWritten /\ Up' = Up /\ UpOnce' /\ AtHandler' = AtHandler
      /\ HandlersApart' /\ InHostReq' = InHostReq /\ Shown' = Shown /\ Said' = Said
  BY <1>1, PlacesStay DEF Asking
<1>3. Current \in AtServer /\ AtServer' = {}
  BY <1>1, CallsStay DEF AtServer
<1>4. InSubReq' \subseteq InSubReq \cup {Current}
  <2>1. ASSUME NEW a \in Calls, subReq'[KindOf(a)] = <<a>>, a # Current
        PROVE  subReq[KindOf(a)] = <<a>>
    BY <2>1, ServerSendsFacts, CallNumbers DEF Typed
  <2> QED
    BY <1>1, <2>1, CallsStay DEF InSubReq
<1>5. RequestsApart'
  BY <1>2, <1>3, <1>4 DEF Asking, RequestsApart
<1> QED
  BY <1>2, <1>5 DEF Asking

LEMMA ForwarderTakesKeepsAsking ==
  ASSUME Typed, Asking, NEW k \in Kinds, ForwarderTakes(k), ForwarderLeaves
  PROVE  Asking'
<1>1. UNCHANGED <<calls, server, said, up, handler, hostReq, prompt>>
  BY ForwarderTakesFacts DEF ForwarderLeaves
<1>2. /\ AtServer' = AtServer /\ Up' = Up /\ UpOnce' /\ AtHandler' = AtHandler
      /\ HandlersApart' /\ InHostReq' = InHostReq /\ Shown' = Shown /\ Said' = Said
  BY <1>1, PlacesStay DEF Asking
<1>3. PICK a \in Calls :
        /\ KindOf(a) = k /\ subReq[k] = <<a>> /\ subReq'[k] = <<>>
        /\ \A j \in Kinds : j # k => subReq'[j] = subReq[j] /\ fwd'[j] = fwd[j]
        /\ fwd'[k].at = "write" /\ fwd'[k].id = a
  BY ForwarderTakesFacts
<1>4. a \in InSubReq
  BY <1>3 DEF InSubReq
<1>5. InSubReq' \subseteq InSubReq \ {a}
  <2>1. ASSUME NEW b \in Calls, subReq'[KindOf(b)] = <<b>>
        PROVE  b # a /\ subReq[KindOf(b)] = <<b>>
    <3>1. PICK j \in Kinds : j = KindOf(b)
      BY CallNumbers DEF Typed
    <3>2. subReq'[j] # <<>>
      <4>1. subReq'[j] = <<b>>
        BY <2>1, <3>1
      <4>2. <<b>> # <<>>
        OBVIOUS
      <4> QED
        BY <4>1, <4>2
    <3>3. j # k /\ subReq'[j] = subReq[j]
      BY <1>3, <3>2
    <3> QED
      BY <1>3, <2>1, <3>1, <3>3
  <2> QED
    BY <1>1, <2>1, CallsStay DEF InSubReq
<1>6. ToBeWritten' \subseteq ToBeWritten \cup {a}
  <2>1. \A b \in Calls : KindOf(b) \in Kinds
    BY CallNumbers DEF Typed
  <2> QED
    BY <1>1, <1>3, <2>1, CallsStay DEF ToBeWritten
<1>7. RequestsApart'
  BY <1>2, <1>4, <1>5, <1>6 DEF Asking, RequestsApart
<1> QED
  BY <1>2, <1>7 DEF Asking

LEMMA ForwarderWritesKeepsAsking ==
  ASSUME Typed, Asking, NEW k \in Kinds, ForwarderWrites(k), ForwarderLeaves
  PROVE  Asking'
<1>1. UNCHANGED <<calls, server, said, subReq, handler, hostReq, prompt>>
  BY ForwarderWritesFacts DEF ForwarderLeaves
<1>2. /\ AtServer' = AtServer /\ InSubReq' = InSubReq /\ AtHandler' = AtHandler
      /\ HandlersApart' /\ InHostReq' = InHostReq /\ Shown' = Shown /\ Said' = Said
  BY <1>1, PlacesStay DEF Asking
<1>3. PICK a \in Calls : a = fwd[k].id /\ KindOf(a) = k
  BY ForwarderWritesFacts
<1>4. /\ fwd[k].at = "write" /\ fwd'[k].at # "write"
      /\ \A j \in Kinds : j # k => fwd'[j] = fwd[j]
  BY ForwarderWritesFacts
<1>5. a \in ToBeWritten
  BY <1>3, <1>4 DEF ToBeWritten
<1>6. ToBeWritten' \subseteq ToBeWritten \ {a}
  <2>1. \A b \in Calls : KindOf(b) \in Kinds
    BY CallNumbers DEF Typed
  <2> QED
    BY <1>1, <1>3, <1>4, <2>1, CallsStay DEF ToBeWritten
<1>7. UpOnce' /\ Up' \subseteq Up \cup {a}
  <2>1. CASE up' = up
    BY <1>1, <2>1, PlacesStay DEF Asking
  <2>2. CASE /\ Grows(up'[conn], up[conn], fwd[k].id)
             /\ \A c \in Conns : c # conn => up'[c] = up[c]
    <3>1. a \notin Up
      BY <1>5 DEF Asking, RequestsApart
    <3>2. conn \in Conns
      BY DEF Typed, ConnectionTyped
    <3> QED
      BY <1>1, <1>3, <2>2, <3>1, <3>2, UpGrows DEF Asking
  <2> QED
    BY <2>1, <2>2, ForwarderWritesFacts
<1>8. RequestsApart'
  BY <1>2, <1>5, <1>6, <1>7 DEF Asking, RequestsApart
<1> QED
  BY <1>2, <1>7, <1>8 DEF Asking

\* The other steps of a forwarder have no request in hand before or after.
LEMMA ForwarderKeepsAsking ==
  ASSUME Typed, Asking, NEW k \in Kinds, ForwarderStep(k)
  PROVE  Asking'
<1>1. ForwarderLeaves
  BY ForwarderLeavesThem
<1>2. CASE ForwarderTakes(k)
  BY <1>1, <1>2, ForwarderTakesKeepsAsking
<1>3. CASE ForwarderWrites(k)
  BY <1>1, <1>3, ForwarderWritesKeepsAsking
<1>4. CASE ForwarderReads(k) \/ ForwardersRace(k) \/ ForwarderGivesUp(k) \/ ForwarderPuts(k)
  <2>1. /\ UNCHANGED <<subReq, up>>
        /\ \A j \in Kinds : fwd'[j] = fwd[j] \/ fwd'[j].at # "write"
    BY <1>4, ReadsFacts, ForwarderGivesUpFacts, ForwarderPutsFacts
  <2>2. UNCHANGED <<calls, server, said, handler, hostReq, prompt>>
    BY <1>1 DEF ForwarderLeaves
  <2>3. ToBeWritten' \subseteq ToBeWritten
    <3>1. \A b \in Calls : KindOf(b) \in Kinds
      BY CallNumbers DEF Typed
    <3> QED
      BY <2>1, <2>2, <3>1, CallsStay DEF ToBeWritten
  <2>4. AtHandler' = AtHandler /\ HandlersApart'
    BY <2>2, PlacesStay DEF Asking
  <2> QED
    BY <2>1, <2>2, <2>3, <2>4, AskingStays
<1> QED
  BY <1>2, <1>3, <1>4 DEF ForwarderStep

LEMMA HandlerReadsKeepsAsking ==
  ASSUME Typed, Asking, NEW c \in Conns, HandlerReads(c), HandlerLeaves
  PROVE  Asking'
<1>1. UNCHANGED <<calls, server, said, subReq, fwd, hostReq, prompt>>
  BY HandlerReadsFacts DEF HandlerLeaves
<1>2. /\ AtServer' = AtServer /\ InSubReq' = InSubReq /\ ToBeWritten' = ToBeWritten
      /\ InHostReq' = InHostReq /\ Shown' = Shown /\ Said' = Said
  BY <1>1, PlacesStay
<1>3. PICK a \in Calls : a = Head(up[c])
  BY HandlerReadsFacts
<1>4. UpOnce' /\ a \in Up /\ Up' \subseteq Up \ {a}
  BY <1>1, <1>3, HandlerReadsFacts, UpShrinks DEF Asking
<1>5. /\ handler'[c].at = "send" /\ handler'[c].id = a
      /\ \A d \in Conns : d # c => handler'[d] = handler[d]
  BY <1>3, HandlerReadsFacts
<1>6. AtHandler' \subseteq AtHandler \cup {a}
  BY <1>1, <1>5, CallsStay DEF AtHandler
<1>7. a \notin AtHandler
  BY <1>4 DEF Asking, RequestsApart
<1>8. HandlersApart'
  BY <1>5, <1>7 DEF Asking, HandlersApart, AtHandler
<1>9. RequestsApart'
  BY <1>2, <1>4, <1>6 DEF Asking, RequestsApart
<1> QED
  BY <1>4, <1>8, <1>9 DEF Asking

LEMMA HandlerSendsKeepsAsking ==
  ASSUME Typed, Asking, NEW c \in Conns, HandlerSends(c), HandlerLeaves
  PROVE  Asking'
<1>1. UNCHANGED <<calls, server, said, subReq, fwd, up, prompt>>
  BY HandlerSendsFacts DEF HandlerLeaves
<1>2. /\ AtServer' = AtServer /\ InSubReq' = InSubReq /\ ToBeWritten' = ToBeWritten
      /\ Up' = Up /\ UpOnce' /\ Shown' = Shown /\ Said' = Said
  BY <1>1, PlacesStay DEF Asking
<1>3. PICK a \in Calls : a = handler[c].id /\ handler[c].at = "send"
  BY HandlerSendsFacts
<1>4. a \in AtHandler
  BY <1>3 DEF AtHandler
<1>5. CASE UNCHANGED <<handler, hostReq>>
  BY <1>1, <1>2, <1>5, PlacesStay, AskingShrinks DEF Asking
<1>6. CASE /\ handler'[c].at # "send" /\ \A d \in Conns : d # c => handler'[d] = handler[d]
           /\ \/ hostReq' = hostReq
              \/ /\ hostReq'[KindOf(a)] = <<a>>
                 /\ \A j \in Kinds : j # KindOf(a) => hostReq'[j] = hostReq[j]
  <2>1. HandlersApart'
    BY <1>6 DEF Asking, HandlersApart
  <2>2. AtHandler' \subseteq AtHandler \ {a}
    BY <1>1, <1>3, <1>6, CallsStay DEF AtHandler, Asking, HandlersApart
  <2>3. InHostReq' \subseteq InHostReq \cup {a}
    <3>1. ASSUME NEW b \in Calls, hostReq'[KindOf(b)] = <<b>>, b # a
          PROVE  hostReq[KindOf(b)] = <<b>>
      BY <1>6, <3>1, CallNumbers DEF Typed
    <3> QED
      BY <1>1, <3>1, CallsStay DEF InHostReq
  <2>4. RequestsApart'
    BY <1>2, <1>4, <2>2, <2>3 DEF Asking, RequestsApart
  <2> QED
    BY <1>2, <2>1, <2>4 DEF Asking
<1>7. /\ handler[c].id \in Ids /\ KindOf(handler[c].id) \in Kinds /\ "none" \in Words
  BY HandlerSendsFacts, CallNumbers DEF Typed, Words
<1>8. Writes(c, KindOf(handler[c].id), handler[c].id, "none") /\ Returns(c) =>
        handler'[c].at # "send" /\ \A d \in Conns : d # c => handler'[d] = handler[d]
  BY <1>7, AnswersFacts
<1> QED
  BY <1>3, <1>5, <1>6, <1>8, HandlerSendsFacts

LEMMA HandlerKeepsAsking ==
  ASSUME Typed, Asking, NEW c \in Conns, HandlerStep(c) \/ HandlerSeesEnd(c)
  PROVE  Asking'
<1>1. HandlerLeaves
  BY HandlerLeavesThem
<1>2. CASE HandlerReads(c)
  BY <1>1, <1>2, HandlerReadsKeepsAsking
<1>3. CASE HandlerSends(c)
  BY <1>1, <1>3, HandlerSendsKeepsAsking
<1>4. CASE HandlerReceives(c) \/ HandlerTimesOut(c) \/ HandlerEnds(c) \/ HandlerSeesEnd(c)
  <2>1. UNCHANGED <<up, hostReq>>
    BY <1>4, HandlerReceivesFacts, HandlerTimesOutFacts, HandlerEndsFacts
  <2>2. handler'[c].at # "send" /\ \A d \in Conns : d # c => handler'[d] = handler[d]
    BY <1>4, HandlerReceivesFacts, HandlerTimesOutFacts, HandlerEndsFacts, ReturnsFacts
  <2>3. UNCHANGED <<calls, server, said, subReq, fwd, prompt>>
    BY <1>1 DEF HandlerLeaves
  <2>4. ToBeWritten' = ToBeWritten
    BY <2>3, PlacesStay
  <2>5. AtHandler' \subseteq AtHandler /\ HandlersApart'
    BY <2>2, <2>3, CallsStay DEF AtHandler, HandlersApart, Asking
  <2> QED
    BY <2>1, <2>3, <2>4, <2>5, AskingStays
<1> QED
  BY <1>2, <1>3, <1>4 DEF HandlerStep

LEMMA UserKeepsAsking ==
  ASSUME Typed, Asking, UserStep
  PROVE  Asking'
<1>1. UNCHANGED <<calls, server, subReq, fwd, up, handler>>
  BY UserFacts DEF UserLeaves
<1>2. /\ AtServer' = AtServer /\ InSubReq' = InSubReq /\ ToBeWritten' = ToBeWritten
      /\ Up' = Up /\ UpOnce' /\ AtHandler' = AtHandler /\ HandlersApart'
  BY <1>1, PlacesStay DEF Asking
<1>3. \A b \in Calls : KindOf(b) \in Kinds
  BY CallNumbers DEF Typed
<1>4. ASSUME NEW k \in Kinds, Shows(k)
      PROVE  Asking'
  <2>1. PICK a \in Calls :
          /\ KindOf(a) = k /\ hostReq[k] = <<a>> /\ hostReq'[k] = <<>>
          /\ \A j \in Kinds : j # k => hostReq'[j] = hostReq[j] /\ prompt'[j] = prompt[j]
          /\ prompt'[k] = a
    BY <1>4, ShowsFacts
  <2>2. Said' = Said
    BY <1>1, <1>4, ShowsFacts, PlacesStay
  <2>3. a \in InHostReq
    BY <2>1 DEF InHostReq
  <2>4. InHostReq' \subseteq InHostReq \ {a}
    <3>1. ASSUME NEW b \in Calls, hostReq'[KindOf(b)] = <<b>>
          PROVE  b # a /\ hostReq[KindOf(b)] = <<b>>
      BY <1>3, <2>1, <3>1
    <3> QED
      BY <1>1, <3>1, CallsStay DEF InHostReq
  <2>5. Shown' \subseteq Shown \cup {a}
    BY <1>1, <1>3, <2>1, CallsStay DEF Shown
  <2>6. RequestsApart'
    BY <1>2, <2>2, <2>3, <2>4, <2>5 DEF Asking, RequestsApart
  <2> QED
    BY <1>2, <2>6 DEF Asking
<1>5. ASSUME NEW k \in Kinds, NEW word \in {"yes", "always", "no"}, SendResponse(k, word)
      PROVE  Asking'
  <2>1. PICK a \in Calls :
          /\ KindOf(a) = k /\ prompt[k] = a /\ prompt'[k] = 0
          /\ \A j \in Kinds : j # k => prompt'[j] = prompt[j]
          /\ \A b \in Calls : b # a => said'[b] = said[b]
    BY <1>5, SendResponseFacts
  <2>2. InHostReq' = InHostReq
    BY <1>1, <1>5, SendResponseFacts, PlacesStay
  <2>3. a \in Shown
    BY <2>1 DEF Shown
  <2>4. Shown' \subseteq Shown \ {a}
    BY <1>1, <1>3, <2>1, CallsStay, CallNumbers DEF Shown, Typed
  <2>5. Said' \subseteq Said \cup {a}
    BY <1>1, <2>1, CallsStay DEF Said
  <2>6. RequestsApart'
    BY <1>2, <2>2, <2>3, <2>4, <2>5 DEF Asking, RequestsApart
  <2> QED
    BY <1>2, <2>6 DEF Asking
<1> QED
  BY <1>4, <1>5, UserFacts

\* A step of the connections, or a death: the subprocess loses what it holds.
LEMMA LifeFacts ==
  ASSUME Typed, LifeStep
  PROVE  /\ UNCHANGED <<calls, source, said, up, down, hostReq, hostResp, prompt, panicked>>
         /\ \A d \in Conns : handler'[d] = handler[d] \/ handler'[d].at \notin {"send", "wait"}
         /\ \/ UNCHANGED <<verdict, server, allowed, subReq, subResp, fwd, disturbed>>
            \/ SubprocessDies /\ alive
<1>1. CASE Crash
  BY <1>1 DEF Crash, wireVars, hostVars, userVars, stopVars
<1>2. CASE Connect
  BY <1>2, ConnectFacts
<1>3. CASE DialerStep
  BY <1>3, DialerFacts
<1>4. CASE StopKills
  BY <1>4 DEF StopKills, subVars, wireVars, hostVars, userVars
<1>5. CASE StopCloses
  BY <1>5 DEF StopCloses, callVars, subVars, connVars, wireVars, hostVars, userVars
<1> QED
  BY <1>1, <1>2, <1>3, <1>4, <1>5 DEF LifeStep

LEMMA LifeKeepsAsking ==
  ASSUME Typed, Asking, LifeStep
  PROVE  Asking'
<1>1. /\ UNCHANGED <<calls, said, up, hostReq, prompt>>
      /\ \A d \in Conns : handler'[d] = handler[d] \/ handler'[d].at # "send"
  BY LifeFacts
<1>2. AtHandler' \subseteq AtHandler /\ HandlersApart'
  BY <1>1, CallsStay DEF AtHandler, HandlersApart, Asking
<1>3. CASE UNCHANGED <<server, subReq, fwd>>
  BY <1>1, <1>2, <1>3, PlacesStay, AskingStays
<1>4. CASE SubprocessDies
  <2>1. /\ server' = "read"
        /\ \A k \in Kinds : subReq'[k] = <<>> /\ fwd'[k].at = "take"
    BY <1>4, DiesFacts
  <2>2. \A a \in Calls : KindOf(a) \in Kinds
    BY CallNumbers DEF Typed
  <2>3. AtServer' = {} /\ ToBeWritten' = {}
    BY <1>1, <2>1, <2>2, CallsStay DEF AtServer, ToBeWritten
  <2>4. InSubReq' = {}
    <3>1. \A a \in Calls : subReq'[KindOf(a)] # <<a>>
      BY <2>1, <2>2
    <3> QED
      BY <1>1, <3>1, CallsStay DEF InSubReq
  <2> QED
    BY <1>1, <1>2, <2>3, <2>4, PlacesStay, AskingShrinks DEF Asking
<1> QED
  BY <1>3, <1>4, LifeFacts

\* A new call is nowhere else yet.
LEMMA ReadCallKeepsAsking ==
  ASSUME Typed, Asking, ReadCall
  PROVE  Asking'
<1>1. /\ server = "read"
      /\ UNCHANGED <<subReq, fwd, up, handler, hostReq, prompt>>
  BY ReadCallFacts
<1>2. /\ Current' = Current + 1 /\ Current + 1 \notin Calls /\ Calls' = Calls \cup {Current + 1}
      /\ said'[Current + 1] = "nothing"
      /\ \A a \in Calls : KindOf(a)' = KindOf(a) /\ said'[a] = said[a]
  BY ReadCallFacts, NewCallFacts DEF Typed
<1>3. PICK n : n = Current + 1
  OBVIOUS
<1>4. /\ n \notin Calls /\ Calls' = Calls \cup {n} /\ said'[n] = "nothing"
      /\ \A a \in Calls : KindOf(a)' = KindOf(a) /\ KindOf(a) \in Kinds /\ said'[a] = said[a]
  BY <1>2, <1>3, CallNumbers DEF Typed
<1>5. /\ \A k \in Kinds : subReq[k] # <<n>> /\ hostReq[k] # <<n>> /\ prompt[k] # n
      /\ \A k \in Kinds : fwd[k].at = "write" => fwd[k].id # n
      /\ \A c \in Conns : handler[c].at = "send" => handler[c].id # n
      /\ \A c \in Conns : \A i \in DOMAIN up[c] : up[c][i] # n
  <2>1. \A f : Slots(f, Calls) => \A k \in Kinds : f[k] # <<n>>
    BY <1>4 DEF Slots, Slot
  <2>2. \A k \in Kinds : subReq[k] # <<n>> /\ hostReq[k] # <<n>>
    BY <2>1 DEF Typed, SubprocessTyped, HostTyped
  <2>3. n # 0
    BY <1>3, CallNumbers DEF Typed
  <2>4. \A k \in Kinds : prompt[k] # n
    BY <1>4, <2>3 DEF Typed, HostTyped
  <2>5. /\ \A k \in Kinds : fwd[k].at = "write" => fwd[k].id # n
        /\ \A c \in Conns : handler[c].at = "send" => handler[c].id # n
    BY <1>4 DEF Typed, InHand
  <2>6. \A c \in Conns : \A i \in DOMAIN up[c] : up[c][i] # n
    BY <1>4 DEF Typed, ConnectionTyped
  <2> QED
    BY <2>2, <2>4, <2>5, <2>6
<1>6. AtServer' \subseteq {n}
  BY <1>2, <1>3 DEF AtServer
<1>7. KindOf(n)' \in Kinds
  <2>1. n \in Calls'
    BY <1>4
  <2>2. Typed'
    BY ReadCallKeepsTypes
  <2>3. CallsTyped'
    BY <2>2 DEF Typed
  <2>4. \A c \in Calls' : KindOf(c)' \in Kinds
    <3>1. calls' \in Seq(CallRecords) /\ Calls' = 1..Len(calls')
      BY <2>3 DEF CallsTyped, Calls, Current
    <3>2. \A c \in Calls' : calls'[c] \in CallRecords
      BY <3>1
    <3> QED
      BY <3>2 DEF KindOf, CallRecords
  <2> QED
    BY <2>1, <2>4
<1>8. /\ InSubReq' \subseteq InSubReq /\ ToBeWritten' \subseteq ToBeWritten
      /\ InHostReq' \subseteq InHostReq /\ Shown' \subseteq Shown
  BY <1>1, <1>4, <1>5, <1>7 DEF InSubReq, ToBeWritten, InHostReq, Shown
<1>9. Up' \subseteq Up /\ AtHandler' \subseteq AtHandler /\ Said' \subseteq Said
  BY <1>1, <1>4, <1>5 DEF Up, AtHandler, Said
<1>10. /\ InSubReq \subseteq Calls /\ ToBeWritten \subseteq Calls /\ InHostReq \subseteq Calls
       /\ Shown \subseteq Calls /\ Up \subseteq Calls /\ AtHandler \subseteq Calls
       /\ Said \subseteq Calls
  BY DEF InSubReq, ToBeWritten, InHostReq, Shown, Up, AtHandler, Said
<1>11. RequestsApart'
  BY <1>4, <1>6, <1>8, <1>9, <1>10 DEF Asking, RequestsApart
<1>12. UpOnce' /\ HandlersApart'
  BY <1>1 DEF Asking, UpOnce, HandlersApart
<1> QED
  BY <1>11, <1>12 DEF Asking

LEMMA ServerKeepsAsking ==
  ASSUME Typed, Asking, ServerReceives \/ ServerTimesOut
  PROVE  Asking'
<1>1. /\ server' = "read" /\ UNCHANGED <<calls, subReq, fwd, up, handler, hostReq, prompt, said>>
  BY ServerReceivesFacts, ServerTimesOutFacts
<1> QED
  BY <1>1, PlacesStay, AskingStays DEF Asking

LEMMA NextKeepsAsking ==
  ASSUME Typed, Asking, [Next]_vars
  PROVE  Asking'
<1>1. CASE UNCHANGED vars
  <2>1. /\ UNCHANGED <<calls, server, subReq, fwd, up, handler, hostReq, prompt, said>>
    BY <1>1 DEF vars, callVars, subVars, connVars, wireVars, hostVars, userVars
  <2> QED
    BY <2>1, PlacesStay, AskingStays DEF Asking
<1> QED
  BY <1>1, ReadCallKeepsAsking, ServerSendsKeepsAsking, ServerKeepsAsking, ForwarderKeepsAsking,
     UserKeepsAsking, HandlerKeepsAsking, LifeKeepsAsking
  DEF Next, ServerStep

-----------------------------------------------------------------------------
(* No answer is in two places, and each is what the user has said.         *)

SaidStays == \A b \in Calls : said[b] # "nothing" => said'[b] = said[b]

LEMMA SaidWords ==
  ASSUME Typed
  PROVE  /\ \A b \in Calls : said[b] # "none"
         /\ \A r \in Responses \cup Lines \cup ForwarderRecords : r.word \in Words
         /\ "nothing" \notin Words
<1>1. \A b \in Calls : said[b] \in {"nothing", "yes", "always", "no"}
  BY DEF Typed, CallsTyped
<1>2. /\ \A r \in Responses : r.word \in Words
      /\ \A r \in Lines : r.word \in Words
      /\ \A r \in ForwarderRecords : r.word \in Words
  BY DEF Responses, Lines, ForwarderRecords
<1> QED
  BY <1>1, <1>2 DEF Words

LEMMA FaithfulSame ==
  ASSUME Typed, calls' = calls, SaidStays, NEW k \in Kinds,
         NEW r \in Responses \cup Lines \cup ForwarderRecords, Faithful(k, r)
  PROVE  Faithful(k, r)'
<1>1. r.word \in Words /\ "nothing" \notin Words
  BY SaidWords
<1> QED
  BY <1>1, CallsStay DEF Faithful, SaidStays

LEMMA FaithfulPartsStay ==
  ASSUME Typed, AnswersFaithful, calls' = calls, SaidStays
  PROVE  /\ hostResp' = hostResp => HostResponsesFaithful'
         /\ down' = down => LinesFaithful'
         /\ fwd' = fwd => ForwardersFaithful'
         /\ subResp' = subResp => ResponsesFaithful'
         /\ source' = source => SourcesSaid'
         /\ said' = said => QuestionsUnrefused'
<1>1. \A k \in Kinds, r \in Responses \cup Lines \cup ForwarderRecords : Faithful(k, r) => Faithful(k, r)'
  BY FaithfulSame
<1>2. (hostResp' = hostResp => HostResponsesFaithful') /\ (subResp' = subResp => ResponsesFaithful')
  BY <1>1 DEF AnswersFaithful, HostResponsesFaithful, ResponsesFaithful
<1>3. ASSUME down' = down
      PROVE  LinesFaithful'
  <2> SUFFICES ASSUME NEW c \in Conns, NEW i \in DOMAIN down[c]
               PROVE  Faithful(down[c][i].kind, down[c][i])'
    BY <1>3 DEF LinesFaithful
  <2>1. PICK line \in Lines : line = down[c][i]
    BY DEF Typed, ConnectionTyped
  <2>2. Faithful(line.kind, line) /\ line.kind \in Kinds
    BY <2>1 DEF AnswersFaithful, LinesFaithful, Lines
  <2>3. Faithful(line.kind, line)'
    BY <1>1, <2>2
  <2> QED
    BY <1>3, <2>1, <2>3
<1>4. ASSUME fwd' = fwd
      PROVE  ForwardersFaithful'
  <2> SUFFICES ASSUME NEW k \in Kinds, fwd[k].at = "put"
               PROVE  Faithful(k, fwd[k])'
    BY <1>4 DEF ForwardersFaithful
  <2>1. PICK r \in ForwarderRecords : r = fwd[k]
    BY DEF Typed, SubprocessTyped
  <2>2. Faithful(k, r)'
    BY <1>1, <2>1 DEF AnswersFaithful, ForwardersFaithful
  <2> QED
    BY <1>4, <2>1, <2>2
<1>5. source' = source => SourcesSaid'
  BY CallsStay DEF AnswersFaithful, SourcesSaid, Said, SaidStays
<1>6. said' = said => QuestionsUnrefused'
  BY CallsStay DEF AnswersFaithful, QuestionsUnrefused
<1> QED
  BY <1>2, <1>3, <1>4, <1>5, <1>6

\* Every answer on its way, and every one used, is one that the user gave.
LEMMA AnswersAreSaid ==
  ASSUME Typed, Answering
  PROVE  InHostResp \cup Down \cup ToBePut \cup InSubResp \cup Used \subseteq Said
<1>1. AnswersFaithful /\ (\A b \in Calls : said[b] # "none")
      /\ "nothing" \notin Words /\ \A r \in Responses \cup Lines \cup ForwarderRecords : r.word \in Words
  BY SaidWords DEF Answering
<1>2. \A k \in Kinds, r \in Responses \cup Lines \cup ForwarderRecords, a \in Calls :
        Faithful(k, r) /\ Tells(r, a) => a \in Said
  BY <1>1 DEF Faithful, Tells, Said
<1>3. \A a \in Calls : KindOf(a) \in Kinds
  BY CallNumbers DEF Typed
<1>4. InHostResp \cup InSubResp \subseteq Said
  BY <1>1, <1>2, <1>3 DEF InHostResp, InSubResp, AnswersFaithful, HostResponsesFaithful,
     ResponsesFaithful
<1>5. Down \subseteq Said
  <2> SUFFICES ASSUME NEW a \in Calls, NEW c \in Conns, NEW i \in DOMAIN down[c], Tells(down[c][i], a)
               PROVE  a \in Said
    BY DEF Down
  <2>1. PICK line \in Lines : line = down[c][i]
    BY DEF Typed, ConnectionTyped
  <2>2. Faithful(line.kind, line) /\ line.kind \in Kinds
    BY <1>1, <2>1 DEF AnswersFaithful, LinesFaithful, Lines
  <2> QED
    BY <1>2, <2>1, <2>2
<1>6. ToBePut \subseteq Said
  <2> SUFFICES ASSUME NEW a \in Calls, fwd[KindOf(a)].at = "put", Tells(fwd[KindOf(a)], a)
               PROVE  a \in Said
    BY DEF ToBePut
  <2>1. PICK r \in ForwarderRecords : r = fwd[KindOf(a)]
    BY <1>3 DEF Typed, SubprocessTyped
  <2>2. Faithful(KindOf(a), r)
    BY <1>1, <1>3, <2>1 DEF AnswersFaithful, ForwardersFaithful
  <2> QED
    BY <1>2, <1>3, <2>1, <2>2
<1>7. Used \subseteq Said
  BY <1>1, CallNumbers DEF Used, AnswersFaithful, SourcesSaid, Typed
<1> QED
  BY <1>4, <1>5, <1>6, <1>7

\* A step that leaves the channels of the answers alone, and lets no forwarder have one.
LEMMA AnsweringStays ==
  ASSUME Typed, Answering, UNCHANGED <<calls, said, source, hostResp, down, subResp>>,
         \A j \in Kinds : fwd'[j] = fwd[j] \/ fwd'[j].at # "put" \/ fwd'[j].word = "none"
  PROVE  Answering'
<1>1. /\ InHostResp' = InHostResp /\ Down' = Down /\ DownOnce' /\ InSubResp' = InSubResp
      /\ Used' = Used
  BY PlacesStay DEF Answering
<1>2. ToBePut' \subseteq ToBePut
  BY CallNumbers, CallsStay DEF Typed, ToBePut, Tells
<1>3. AnswersApart'
  BY <1>1, <1>2 DEF Answering, AnswersApart
<1>4. SaidStays
  BY DEF SaidStays
<1>5. ForwardersFaithful'
  <2>1. \A j \in Kinds : fwd[j].at = "put" => Faithful(j, fwd[j])
    BY DEF Answering, AnswersFaithful, ForwardersFaithful
  <2> QED
    BY <2>1, CallsStay DEF ForwardersFaithful, Faithful
<1>6. AnswersFaithful'
  BY <1>4, <1>5, FaithfulPartsStay DEF Answering, AnswersFaithful
<1> QED
  BY <1>1, <1>3, <1>6 DEF Answering

LEMMA ServerReceivesKeepsAnswering ==
  ASSUME Typed, Answering, ServerReceives
  PROVE  Answering'
<1>1. /\ UNCHANGED <<calls, said, fwd, down, hostResp>>
      /\ Current \in Calls /\ KindOf(Current) \in Kinds
  BY ServerReceivesFacts
<1>2. /\ InHostResp' = InHostResp /\ Down' = Down /\ DownOnce' /\ ToBePut' = ToBePut
  BY <1>1, PlacesStay DEF Answering
<1>3. PICK k \in Kinds : k = KindOf(Current)
  BY <1>1
<1>4. PICK r \in Responses :
        /\ subResp[k] = <<r>> /\ subResp'[k] = <<>>
        /\ \A j \in Kinds : j # k => subResp'[j] = subResp[j]
        /\ source' = [source EXCEPT ![Current] = IF r.word = "none" THEN 0 ELSE r.id]
  BY <1>3, ServerReceivesFacts
<1>5. Faithful(k, r)
  BY <1>4 DEF Answering, AnswersFaithful, ResponsesFaithful
<1>6. \A j \in Kinds, s \in Responses : subResp'[j] = <<s>> => j # k /\ subResp[j] = <<s>>
  <2> SUFFICES ASSUME NEW j \in Kinds, NEW s \in Responses, subResp'[j] = <<s>>
               PROVE  j # k /\ subResp[j] = <<s>>
    OBVIOUS
  <2>1. <<s>> # <<>>
    OBVIOUS
  <2> QED
    BY <1>4, <2>1
<1>7. InSubResp' \subseteq {a \in InSubResp : KindOf(a) # k}
  BY <1>1, <1>6, CallNumbers, CallsStay DEF Typed, InSubResp, Tells
<1>8. /\ \A c \in Calls : c # Current => source'[c] = source[c]
      /\ source'[Current] = IF r.word = "none" THEN 0 ELSE r.id
  BY <1>1, <1>4 DEF Typed, CallsTyped
<1>9. CASE r.word = "none"
  <2>1. Used' \subseteq Used
    BY <1>1, <1>8, <1>9, CallNumbers, CallsStay DEF Used, Typed
  <2>2. AnswersApart'
    BY <1>2, <1>7, <2>1 DEF Answering, AnswersApart
  <2>3. SourcesSaid'
    BY <1>1, <1>8, <1>9, CallsStay DEF Answering, AnswersFaithful, SourcesSaid, Said
  <2> QED
    BY <1>1, <1>2, <1>6, <2>2, <2>3, FaithfulPartsStay, CallsStay
    DEF Answering, AnswersFaithful, ResponsesFaithful, SaidStays, Faithful
<1>10. CASE r.word # "none"
  <2>1. r.id \in Calls /\ KindOf(r.id) = k /\ said[r.id] = r.word /\ r.word # "nothing"
    BY <1>5, <1>10, SaidWords DEF Faithful
  <2>2. r.id \in InSubResp
    BY <1>4, <1>10, <2>1 DEF InSubResp, Tells
  <2>3. Used' \subseteq Used \cup {r.id}
    BY <1>1, <1>8, <1>10, CallsStay DEF Used
  <2>4. InSubResp' \subseteq InSubResp \ {r.id}
    BY <1>7, <2>1
  <2>5. AnswersApart'
    BY <1>2, <2>2, <2>3, <2>4 DEF Answering, AnswersApart
  <2>6. SourcesSaid'
    BY <1>1, <1>8, <1>10, <2>1, CallsStay DEF Answering, AnswersFaithful, SourcesSaid, Said
  <2> QED
    BY <1>1, <1>2, <1>6, <2>5, <2>6, FaithfulPartsStay, CallsStay
    DEF Answering, AnswersFaithful, ResponsesFaithful, SaidStays, Faithful
<1> QED
  BY <1>9, <1>10

LEMMA ForwarderReadsKeepsAnswering ==
  ASSUME Typed, Answering, NEW k \in Kinds, ForwarderReads(k) \/ ForwardersRace(k), ForwarderLeaves
  PROVE  Answering'
<1>1. /\ UNCHANGED <<calls, said, source, subResp, hostResp>>
      /\ conn \in Conns /\ Head(down[conn]) \in Lines /\ down[conn] # <<>>
      /\ Shrinks(down'[conn], down[conn]) /\ \A c \in Conns : c # conn => down'[c] = down[c]
  BY ReadsFacts DEF ForwarderLeaves
<1>2. PICK line \in Lines : line = Head(down[conn])
  BY <1>1
<1>3. /\ DownOnce' /\ Down' \subseteq Down
      /\ \A a \in Calls : Tells(line, a) => a \in Down /\ a \notin Down'
      /\ \E i \in DOMAIN down[conn] : down[conn][i] = line
      /\ \A d \in Conns : \A i \in DOMAIN down'[d] : \E j \in DOMAIN down[d] : down'[d][i] = down[d][j]
  BY <1>1, <1>2, DownShrinks DEF Answering
<1>4. Faithful(line.kind, line) /\ \A b \in Calls : KindOf(b) \in Kinds
  BY <1>1, <1>3, CallNumbers DEF Answering, AnswersFaithful, LinesFaithful, Typed
<1>5. \A j \in Kinds : \/ fwd'[j] = fwd[j] \/ fwd'[j].word = "none"
                       \/ j = k /\ line.kind = k /\ fwd'[k].id = line.id /\ fwd'[k].word = line.word
  <2>1. \A j \in Kinds : fwd[j].at = "read" => fwd[j].word = "none"
    BY DEF Typed, InHand
  <2> QED
    BY <1>2, <2>1, ReadsFacts
<1>6. /\ InHostResp' = InHostResp /\ InSubResp' = InSubResp /\ Used' = Used
  BY <1>1, PlacesStay
<1>7. ToBePut' \subseteq ToBePut \cup {a \in Calls : Tells(line, a)}
  BY <1>1, <1>4, <1>5, CallsStay DEF ToBePut, Tells
<1>8. AnswersApart'
  BY <1>3, <1>6, <1>7 DEF Answering, AnswersApart
<1>9. ForwardersFaithful'
  <2>1. \A j \in Kinds : fwd[j].at = "put" => Faithful(j, fwd[j])
    BY DEF Answering, AnswersFaithful, ForwardersFaithful
  <2>2. \A j \in Kinds : fwd'[j] # fwd[j] /\ fwd'[j].word # "none" =>
          /\ fwd'[j].id \in Calls /\ KindOf(fwd'[j].id) = j /\ said[fwd'[j].id] = fwd'[j].word
    BY <1>4, <1>5 DEF Faithful
  <2> QED
    BY <1>1, <2>1, <2>2, CallsStay DEF ForwardersFaithful, Faithful, KindOf
<1>10. LinesFaithful'
  <2> SUFFICES ASSUME NEW d \in Conns, NEW i \in DOMAIN down'[d]
               PROVE  (Faithful(down[d][i].kind, down[d][i]))'
    BY DEF LinesFaithful
  <2>1. PICK j \in DOMAIN down[d] : down'[d][i] = down[d][j]
    BY <1>3
  <2>2. Faithful(down[d][j].kind, down[d][j])
    BY DEF Answering, AnswersFaithful, LinesFaithful
  <2> QED
    BY <1>1, <2>1, <2>2, CallsStay DEF Faithful, KindOf
<1>11. AnswersFaithful'
  BY <1>1, <1>9, <1>10, FaithfulPartsStay DEF Answering, AnswersFaithful, SaidStays
<1> QED
  BY <1>3, <1>8, <1>11 DEF Answering

LEMMA ForwarderPutsKeepsAnswering ==
  ASSUME Typed, Answering, NEW k \in Kinds, ForwarderPuts(k), ForwarderLeaves
  PROVE  Answering'
<1>1. /\ UNCHANGED <<calls, said, source, down, hostResp>>
      /\ fwd[k].at = "put" /\ fwd'[k].at = "take" /\ \A j \in Kinds : j # k => fwd'[j] = fwd[j]
      /\ \A j \in Kinds : j # k => subResp'[j] = subResp[j]
  BY ForwarderPutsFacts DEF ForwarderLeaves
<1>2. PICK r \in Responses : subResp'[k] = <<r>> /\ r.id = fwd[k].id /\ r.word = fwd[k].word
  BY ForwarderPutsFacts
<1>3. Faithful(k, r)
  BY <1>1, <1>2 DEF Answering, AnswersFaithful, ForwardersFaithful, Faithful
<1>4. /\ InHostResp' = InHostResp /\ Down' = Down /\ DownOnce' /\ Used' = Used
  BY <1>1, PlacesStay DEF Answering
<1>5. \A b \in Calls : KindOf(b) \in Kinds
  BY CallNumbers DEF Typed
<1>6. \A a \in Calls : Tells(r, a) => KindOf(a) = k /\ a \in ToBePut
  BY <1>1, <1>2, <1>3 DEF Tells, Faithful, ToBePut
<1>7. ToBePut' \subseteq {a \in ToBePut : KindOf(a) # k}
  BY <1>1, <1>5, CallsStay DEF ToBePut, Tells
<1>8. \A j \in Kinds, s \in Responses : subResp'[j] = <<s>> => subResp[j] = <<s>> \/ (j = k /\ s = r)
  <2> SUFFICES ASSUME NEW j \in Kinds, NEW s \in Responses, subResp'[j] = <<s>>
               PROVE  subResp[j] = <<s>> \/ (j = k /\ s = r)
    OBVIOUS
  <2>1. <<s>> = <<r>> => s = r
    OBVIOUS
  <2> QED
    BY <1>1, <1>2, <2>1
<1>9. InSubResp' \subseteq InSubResp \cup {a \in Calls : Tells(r, a)}
  BY <1>1, <1>5, <1>8, CallsStay DEF InSubResp, Tells
<1>10. AnswersApart'
  BY <1>4, <1>6, <1>7, <1>9 DEF Answering, AnswersApart
<1>11. SaidStays
  BY <1>1 DEF SaidStays
<1>12. ResponsesFaithful'
  <2>1. \A j \in Kinds, s \in Responses : subResp'[j] = <<s>> => Faithful(j, s)
    BY <1>3, <1>8 DEF Answering, AnswersFaithful, ResponsesFaithful
  <2> QED
    BY <1>1, <1>11, <2>1, FaithfulSame DEF ResponsesFaithful
<1>13. ForwardersFaithful'
  <2>1. \A j \in Kinds : fwd[j].at = "put" => Faithful(j, fwd[j])
    BY DEF Answering, AnswersFaithful, ForwardersFaithful
  <2> QED
    BY <1>1, <2>1, CallsStay DEF ForwardersFaithful, Faithful, KindOf
<1>14. AnswersFaithful'
  BY <1>1, <1>11, <1>12, <1>13, FaithfulPartsStay DEF Answering, AnswersFaithful
<1> QED
  BY <1>4, <1>10, <1>14 DEF Answering

LEMMA ForwarderKeepsAnswering ==
  ASSUME Typed, Answering, NEW k \in Kinds, ForwarderStep(k)
  PROVE  Answering'
<1>1. ForwarderLeaves
  BY ForwarderLeavesThem
<1>2. CASE ForwarderReads(k) \/ ForwardersRace(k)
  BY <1>1, <1>2, ForwarderReadsKeepsAnswering
<1>3. CASE ForwarderPuts(k)
  BY <1>1, <1>3, ForwarderPutsKeepsAnswering
<1>4. CASE ForwarderTakes(k) \/ ForwarderWrites(k) \/ ForwarderGivesUp(k)
  <2>1. UNCHANGED <<down, subResp>> /\ UNCHANGED <<calls, said, source, hostResp>>
    BY <1>1, <1>4, ForwarderTakesFacts, ForwarderWritesFacts, ForwarderGivesUpFacts
    DEF ForwarderLeaves
  <2>2. \A j \in Kinds : fwd'[j] = fwd[j] \/ fwd'[j].at # "put" \/ fwd'[j].word = "none"
    BY <1>4, ForwarderTakesFacts, ForwarderWritesFacts, ForwarderGivesUpFacts
  <2> QED
    BY <2>1, <2>2, AnsweringStays
<1> QED
  BY <1>2, <1>3, <1>4 DEF ForwarderStep

\* A line is written that is made up, or that tells what a response of the Runner did.
LEMMA LineKeepsAnswering ==
  ASSUME Typed, Answering, UNCHANGED <<calls, said, source, subResp, fwd>>,
         NEW c \in Conns, NEW line \in Lines, Faithful(line.kind, line),
         Grows(down'[c], down[c], line), \A d \in Conns : d # c => down'[d] = down[d],
         \A a \in Calls : Tells(line, a) => a \in InHostResp /\ a \notin InHostResp',
         InHostResp' \subseteq InHostResp, HostResponsesFaithful'
  PROVE  Answering'
<1>1. line.word # "none" => line.id \in Calls /\ line.id \notin Down
  BY DEF Faithful, Tells, Answering, AnswersApart
<1>2. /\ DownOnce' /\ Down' \subseteq Down \cup {a \in Calls : Tells(line, a)}
      /\ \A d \in Conns : \A i \in DOMAIN down'[d] :
           down'[d][i] = line \/ \E j \in DOMAIN down[d] : down'[d][i] = down[d][j]
  BY <1>1, DownGrows DEF Answering
<1>3. ToBePut' = ToBePut /\ InSubResp' = InSubResp /\ Used' = Used
  BY PlacesStay
<1>4. AnswersApart'
  BY <1>2, <1>3 DEF Answering, AnswersApart
<1>5. LinesFaithful'
  <2> SUFFICES ASSUME NEW d \in Conns, NEW i \in DOMAIN down'[d]
               PROVE  (Faithful(down[d][i].kind, down[d][i]))'
    BY DEF LinesFaithful
  <2>1. CASE down'[d][i] = line
    BY <2>1, CallsStay DEF Faithful, KindOf
  <2>2. ASSUME NEW j \in DOMAIN down[d], down'[d][i] = down[d][j]
        PROVE  (Faithful(down[d][i].kind, down[d][i]))'
    <3>1. Faithful(down[d][j].kind, down[d][j])
      BY DEF Answering, AnswersFaithful, LinesFaithful
    <3> QED
      BY <2>2, <3>1, CallsStay DEF Faithful, KindOf
  <2> QED
    BY <1>2, <2>1, <2>2
<1>6. AnswersFaithful'
  BY <1>5, FaithfulPartsStay DEF Answering, AnswersFaithful, SaidStays
<1> QED
  BY <1>2, <1>4, <1>6 DEF Answering

LEMMA MadeUpLineKeepsAnswering ==
  ASSUME Typed, Answering, UNCHANGED <<calls, said, source, subResp, fwd, hostResp>>,
         NEW c \in Conns, NEW k \in Kinds, NEW id \in Ids, Writes(c, k, id, "none")
  PROVE  Answering'
<1>1. down \in [Conns -> Seq(Lines)] /\ "none" \in Words
  BY WiresTyped DEF Words
<1>2. PICK line \in Lines : /\ line.word = "none" /\ Grows(down'[c], down[c], line)
                            /\ \A d \in Conns : d # c => down'[d] = down[d]
  BY <1>1, WritesAppends
<1>3. Faithful(line.kind, line) /\ \A a \in Calls : ~Tells(line, a)
  BY <1>2 DEF Faithful, Tells
<1>4. InHostResp' = InHostResp /\ HostResponsesFaithful'
  BY PlacesStay, FaithfulPartsStay DEF SaidStays, Answering
<1> QED
  BY <1>2, <1>3, <1>4, LineKeepsAnswering

LEMMA HandlerReceivesKeepsAnswering ==
  ASSUME Typed, Answering, NEW c \in Conns, HandlerReceives(c), HandlerLeaves
  PROVE  Answering'
<1>1. /\ UNCHANGED <<calls, said, source, subResp, fwd>> /\ KindOf(handler[c].id) \in Kinds
  BY HandlerReceivesFacts DEF HandlerLeaves
<1>2. PICK k \in Kinds : k = KindOf(handler[c].id)
  BY <1>1
<1>3. CASE Writes(c, k, 0, "none") /\ hostResp' = hostResp
  BY <1>1, <1>3, MadeUpLineKeepsAnswering, CallNumbers DEF Typed
<1>4. ASSUME NEW r \in Responses,
             hostResp[k] = <<r>>, Writes(c, k, r.id, r.word), hostResp'[k] = <<>>,
             \A j \in Kinds : j # k => hostResp'[j] = hostResp[j]
      PROVE  Answering'
  <2>1. Faithful(k, r) /\ r.id \in Ids /\ r.word \in Words
    BY <1>4 DEF Answering, AnswersFaithful, HostResponsesFaithful, Responses
  <2>2. down \in [Conns -> Seq(Lines)]
    BY WiresTyped
  <2>3. PICK line \in Lines :
          /\ line.kind = k /\ line.id = r.id /\ line.word = r.word
          /\ Grows(down'[c], down[c], line) /\ \A d \in Conns : d # c => down'[d] = down[d]
    <3>1. PICK id \in Ids, word \in Words : id = r.id /\ word = r.word
      BY <2>1
    <3>2. Writes(c, k, id, word)
      BY <1>4, <3>1
    <3> QED
      BY <2>2, <3>1, <3>2, WritesAppends
  <2>4. Faithful(line.kind, line)
    BY <2>1, <2>3 DEF Faithful
  <2>5. \A j \in Kinds, s \in Responses : hostResp'[j] = <<s>> => j # k /\ hostResp[j] = <<s>>
    <3> SUFFICES ASSUME NEW j \in Kinds, NEW s \in Responses, hostResp'[j] = <<s>>
                 PROVE  j # k /\ hostResp[j] = <<s>>
      OBVIOUS
    <3>1. <<s>> # <<>>
      OBVIOUS
    <3> QED
      BY <1>4, <3>1
  <2>6. InHostResp' \subseteq {a \in InHostResp : KindOf(a) # k}
    BY <1>1, <2>5, CallNumbers, CallsStay DEF Typed, InHostResp, Tells
  <2>7. \A a \in Calls : Tells(line, a) => a \in InHostResp /\ a \notin InHostResp'
    <3> SUFFICES ASSUME NEW a \in Calls, Tells(line, a)
                 PROVE  a \in InHostResp /\ a \notin InHostResp'
      OBVIOUS
    <3>1. KindOf(a) = k
      BY <2>3, <2>4 DEF Faithful, Tells
    <3>2. Tells(r, a)
      BY <2>3 DEF Tells
    <3>3. a \in InHostResp
      BY <1>4, <3>1, <3>2 DEF InHostResp
    <3> QED
      BY <2>6, <3>1, <3>3
  <2>8. SaidStays
    BY <1>1 DEF SaidStays
  <2>9. HostResponsesFaithful'
    <3>1. \A j \in Kinds, s \in Responses : hostResp'[j] = <<s>> => Faithful(j, s)
      BY <2>5 DEF Answering, AnswersFaithful, HostResponsesFaithful
    <3> QED
      BY <1>1, <2>8, <3>1, FaithfulSame DEF HostResponsesFaithful
  <2> QED
    BY <1>1, <2>3, <2>4, <2>6, <2>7, <2>9, LineKeepsAnswering
<1> QED
  BY <1>2, <1>3, <1>4, HandlerReceivesFacts

LEMMA HandlerKeepsAnswering ==
  ASSUME Typed, Answering, NEW c \in Conns, HandlerStep(c) \/ HandlerSeesEnd(c)
  PROVE  Answering'
<1>1. HandlerLeaves /\ UNCHANGED <<calls, said, source, subResp, fwd>>
  BY HandlerLeavesThem DEF HandlerLeaves
<1>2. CASE HandlerReads(c) \/ HandlerEnds(c) \/ HandlerSeesEnd(c)
  <2>1. UNCHANGED <<down, hostResp>>
    BY <1>2, HandlerReadsFacts, HandlerEndsFacts
  <2> QED
    BY <1>1, <2>1, AnsweringStays
<1>3. CASE HandlerSends(c)
  <2>1. /\ hostResp' = hostResp /\ handler[c].id \in Ids /\ KindOf(handler[c].id) \in Kinds
    BY <1>3, HandlerSendsFacts, CallNumbers DEF Typed
  <2>2. CASE down' = down
    BY <1>1, <2>1, <2>2, AnsweringStays
  <2>3. CASE Writes(c, KindOf(handler[c].id), handler[c].id, "none")
    BY <1>1, <2>1, <2>3, MadeUpLineKeepsAnswering
  <2> QED
    BY <1>3, <2>2, <2>3, HandlerSendsFacts
<1>4. CASE HandlerReceives(c)
  BY <1>1, <1>4, HandlerReceivesKeepsAnswering
<1>5. CASE HandlerTimesOut(c)
  BY <1>1, <1>5, HandlerTimesOutFacts, MadeUpLineKeepsAnswering, CallNumbers DEF Typed
<1> QED
  BY <1>2, <1>3, <1>4, <1>5 DEF HandlerStep

LEMMA UserKeepsAnswering ==
  ASSUME Typed, Asking, Answering, UserStep
  PROVE  Answering'
<1>1. UNCHANGED <<calls, source, subResp, fwd, down>>
  BY UserFacts DEF UserLeaves
<1>2. CASE \E k \in Kinds : Shows(k)
  <2>1. UNCHANGED <<said, hostResp>>
    BY <1>2, ShowsFacts
  <2> QED
    BY <1>1, <2>1, AnsweringStays
<1>3. ASSUME NEW k \in Kinds, NEW word \in {"yes", "always", "no"}, SendResponse(k, word),
             k = "question" => word # "no"
      PROVE  Answering'
  <2>1. PICK a \in Calls :
          /\ KindOf(a) = k /\ prompt[k] = a
          /\ said'[a] = word /\ \A b \in Calls : b # a => said'[b] = said[b]
          /\ \/ hostResp' = hostResp
             \/ /\ \A j \in Kinds : j # k => hostResp'[j] = hostResp[j]
                /\ \E r \in Responses : hostResp'[k] = <<r>> /\ r.id = a /\ r.word = word
    BY <1>3, SendResponseFacts
  <2>2. a \in Shown
    BY <2>1 DEF Shown
  <2>3. a \notin Said
    BY <2>2 DEF Asking, RequestsApart
  <2>4. SaidStays
    BY <2>1, <2>3 DEF SaidStays, Said
  <2>5. /\ Down' = Down /\ DownOnce' /\ ToBePut' = ToBePut /\ InSubResp' = InSubResp /\ Used' = Used
    BY <1>1, PlacesStay DEF Answering
  <2>6. Down \cup ToBePut \cup InSubResp \cup Used \subseteq Said
    BY AnswersAreSaid
  <2>7. \A j \in Kinds, s \in Responses :
          hostResp'[j] = <<s>> => hostResp[j] = <<s>> \/ (j = k /\ s.id = a /\ s.word = word)
    <3> SUFFICES ASSUME NEW j \in Kinds, NEW s \in Responses, hostResp'[j] = <<s>>
                 PROVE  hostResp[j] = <<s>> \/ (j = k /\ s.id = a /\ s.word = word)
      OBVIOUS
    <3>1. CASE hostResp' = hostResp
      BY <3>1
    <3>2. ASSUME NEW r \in Responses, hostResp'[k] = <<r>>, r.id = a, r.word = word,
                 \A i \in Kinds : i # k => hostResp'[i] = hostResp[i]
          PROVE  hostResp[j] = <<s>> \/ (j = k /\ s.id = a /\ s.word = word)
      <4>1. <<s>> = <<r>> => s = r
        OBVIOUS
      <4> QED
        BY <3>2, <4>1
    <3> QED
      BY <2>1, <3>1, <3>2
  <2>8. InHostResp' \subseteq InHostResp \cup {a}
    BY <1>1, <2>7, CallNumbers, CallsStay DEF Typed, InHostResp, Tells
  <2>9. AnswersApart'
    BY <2>3, <2>5, <2>6, <2>8 DEF Answering, AnswersApart
  <2>10. HostResponsesFaithful'
    <3> SUFFICES ASSUME NEW j \in Kinds, NEW s \in Responses, hostResp'[j] = <<s>>
                 PROVE  Faithful(j, s)'
      BY DEF HostResponsesFaithful
    <3>1. CASE hostResp[j] = <<s>>
      BY <1>1, <2>4, <3>1, FaithfulSame DEF Answering, AnswersFaithful, HostResponsesFaithful
    <3>2. CASE j = k /\ s.id = a /\ s.word = word
      BY <1>1, <2>1, <3>2, CallsStay DEF Faithful
    <3> QED
      BY <2>7, <3>1, <3>2
  <2>11. QuestionsUnrefused'
    BY <1>1, <1>3, <2>1, CallsStay DEF Answering, AnswersFaithful, QuestionsUnrefused
  <2>12. AnswersFaithful'
    BY <1>1, <2>4, <2>10, <2>11, FaithfulPartsStay DEF Answering, AnswersFaithful
  <2> QED
    BY <2>5, <2>9, <2>12 DEF Answering
<1> QED
  BY <1>2, <1>3, UserFacts

LEMMA LifeKeepsAnswering ==
  ASSUME Typed, Answering, LifeStep
  PROVE  Answering'
<1>1. UNCHANGED <<calls, source, said, down, hostResp>>
  BY LifeFacts
<1>2. CASE UNCHANGED <<subResp, fwd>>
  BY <1>1, <1>2, AnsweringStays
<1>3. CASE SubprocessDies
  <2>1. \A k \in Kinds : subResp'[k] = <<>> /\ fwd'[k].at = "take"
    BY <1>3, DiesFacts
  <2>2. /\ InHostResp' = InHostResp /\ Down' = Down /\ DownOnce' /\ Used' = Used
    BY <1>1, PlacesStay DEF Answering
  <2>3. \A a \in Calls : KindOf(a) \in Kinds
    BY CallNumbers DEF Typed
  <2>4. ToBePut' = {}
    BY <1>1, <2>1, <2>3, CallsStay DEF ToBePut
  <2>5. \A k \in Kinds, r \in Responses : subResp'[k] # <<r>>
    BY <2>1
  <2>6. InSubResp' = {}
    BY <1>1, <2>3, <2>5, CallsStay DEF InSubResp
  <2>7. AnswersApart'
    BY <2>2, <2>4, <2>6 DEF Answering, AnswersApart
  <2>8. ForwardersFaithful' /\ ResponsesFaithful'
    BY <2>1, <2>5 DEF ForwardersFaithful, ResponsesFaithful
  <2>9. AnswersFaithful'
    BY <1>1, <2>8, FaithfulPartsStay DEF Answering, AnswersFaithful, SaidStays
  <2> QED
    BY <2>2, <2>7, <2>9 DEF Answering
<1> QED
  BY <1>2, <1>3, LifeFacts

\* No answer is for a call not made yet.
LEMMA ReadCallKeepsAnswering ==
  ASSUME Typed, Answering, ReadCall
  PROVE  Answering'
<1>1. UNCHANGED <<subResp, fwd, down, hostResp>>
  BY ReadCallFacts
<1>2. PICK n : n = Current + 1
  OBVIOUS
<1>3. /\ n \notin Calls /\ Calls' = Calls \cup {n} /\ said'[n] = "nothing" /\ source'[n] = 0
      /\ \A a \in Calls : /\ KindOf(a)' = KindOf(a) /\ said'[a] = said[a]
                          /\ source'[a] = source[a]
  BY <1>2, ReadCallFacts, NewCallFacts DEF Typed
<1>4. n # 0
  BY <1>2, CallNumbers DEF Typed
<1>5. \A k \in Kinds, r \in Responses \cup Lines \cup ForwarderRecords :
        Faithful(k, r) => Faithful(k, r)' /\ ~Tells(r, n)
  BY <1>3 DEF Faithful, Tells
<1>6. /\ HostResponsesFaithful' /\ ResponsesFaithful'
  BY <1>1, <1>5 DEF Answering, AnswersFaithful, HostResponsesFaithful, ResponsesFaithful
<1>7. /\ \A c \in Conns : \A i \in DOMAIN down[c] : ~Tells(down[c][i], n)
      /\ LinesFaithful'
  <2>1. ASSUME NEW c \in Conns, NEW i \in DOMAIN down[c]
        PROVE  ~Tells(down[c][i], n) /\ Faithful(down[c][i].kind, down[c][i])'
    <3>1. PICK line \in Lines : line = down[c][i]
      BY DEF Typed, ConnectionTyped
    <3>2. Faithful(line.kind, line) /\ line.kind \in Kinds
      BY <3>1 DEF Answering, AnswersFaithful, LinesFaithful, Lines
    <3>3. Faithful(line.kind, line)' /\ ~Tells(line, n)
      BY <1>5, <3>2
    <3> QED
      BY <1>1, <3>1, <3>3
  <2> QED
    BY <1>1, <2>1 DEF LinesFaithful
<1>8. /\ \A k \in Kinds : fwd[k].at = "put" => ~Tells(fwd[k], n)
      /\ ForwardersFaithful'
  <2>1. ASSUME NEW k \in Kinds, fwd[k].at = "put"
        PROVE  ~Tells(fwd[k], n) /\ Faithful(k, fwd[k])'
    <3>1. PICK r \in ForwarderRecords : r = fwd[k]
      BY DEF Typed, SubprocessTyped
    <3>2. Faithful(k, r)
      BY <2>1, <3>1 DEF Answering, AnswersFaithful, ForwardersFaithful
    <3>3. Faithful(k, r)' /\ ~Tells(r, n)
      BY <1>5, <3>2
    <3> QED
      BY <1>1, <3>1, <3>3
  <2> QED
    BY <1>1, <2>1 DEF ForwardersFaithful
<1>9. KindOf(n)' \in Kinds
  <2>1. CallsTyped' /\ n \in Calls'
    BY <1>3, ReadCallKeepsTypes DEF Typed
  <2>2. calls' \in Seq(CallRecords) /\ Calls' = 1..Len(calls')
    BY <2>1 DEF CallsTyped, Calls, Current
  <2>3. calls'[n] \in CallRecords
    BY <2>1, <2>2
  <2> QED
    BY <2>3 DEF KindOf, CallRecords
<1>10. InHostResp' \subseteq InHostResp /\ InSubResp' \subseteq InSubResp
  <2>1. \A k \in Kinds, r \in Responses :
          hostResp[k] = <<r>> \/ subResp[k] = <<r>> => ~Tells(r, n)
    BY <1>5 DEF Answering, AnswersFaithful, HostResponsesFaithful, ResponsesFaithful
  <2> QED
    BY <1>1, <1>3, <1>9, <2>1 DEF InHostResp, InSubResp, Tells
<1>11. Down' \subseteq Down
  BY <1>1, <1>3, <1>7 DEF Down, Tells
<1>12. ToBePut' \subseteq ToBePut
  BY <1>1, <1>3, <1>8, <1>9 DEF ToBePut, Tells
<1>13. SourcesSaid' /\ Used' \subseteq Used
  <2>1. \A c \in Calls : source[c] # 0 => source[c] \in Calls /\ said[source[c]] # "nothing"
    BY DEF Answering, AnswersFaithful, SourcesSaid, Said
  <2>2. SourcesSaid'
    BY <1>3, <2>1 DEF SourcesSaid, Said
  <2>3. \A a \in Calls' : a # 0
    BY <1>3, <1>4, CallNumbers DEF Typed
  <2>4. Used' \subseteq Used
    BY <1>3, <2>1, <2>3 DEF Used
  <2> QED
    BY <2>2, <2>4
<1>14. QuestionsUnrefused'
  BY <1>3 DEF Answering, AnswersFaithful, QuestionsUnrefused
<1>15. DownOnce'
  BY <1>1 DEF Answering, DownOnce
<1>16. AnswersApart'
  BY <1>10, <1>11, <1>12, <1>13 DEF Answering, AnswersApart
<1> QED
  BY <1>6, <1>7, <1>8, <1>13, <1>14, <1>15, <1>16 DEF Answering, AnswersFaithful

LEMMA NextKeepsAnswering ==
  ASSUME Typed, Asking, Answering, [Next]_vars
  PROVE  Answering'
<1>1. CASE UNCHANGED vars
  <2>1. UNCHANGED <<calls, said, source, hostResp, down, subResp, fwd>>
    BY <1>1 DEF vars, callVars, subVars, wireVars, hostVars, userVars
  <2> QED
    BY <2>1, AnsweringStays
<1>2. CASE ServerSends \/ ServerTimesOut
  <2>1. UNCHANGED <<calls, said, source, hostResp, down, subResp, fwd>>
    BY <1>2, ServerSendsFacts, ServerTimesOutFacts
  <2> QED
    BY <2>1, AnsweringStays
<1> QED
  BY <1>1, <1>2, ReadCallKeepsAnswering, ServerReceivesKeepsAnswering, ForwarderKeepsAnswering,
     UserKeepsAnswering, HandlerKeepsAnswering, LifeKeepsAnswering
  DEF Next, ServerStep

-----------------------------------------------------------------------------
(* Every step is one of the exchange, or leaves it alone.                  *)

LEMMA InitExchange ==
  ASSUME Init
  PROVE  XInv
<1>1. Typed
  BY InitTyped
<1>2. /\ calls = <<>> /\ server = "read" /\ Current = 0 /\ Calls = {}
      /\ down = [c \in Conns |-> <<>>] /\ up = [c \in Conns |-> <<>>]
      /\ hostResp = Empty /\ subResp = Empty /\ fwd = [k \in Kinds |-> Idle]
  BY DEF Init, SubprocessInit, ConnectionInit, RunnerInit, Current, Calls
<1>3. RequestsApart
  BY <1>2 DEF RequestsApart, AtServer, InSubReq, ToBeWritten, Up, AtHandler, InHostReq, Shown, Said
<1>4. UpOnce /\ DownOnce
  BY <1>2 DEF UpOnce, DownOnce
<1>5. HandlersApart
  <2>1. \A c \in Conns : handler[c].at # "send"
    BY DEF Init, ConnectionInit
  <2> QED
    BY <2>1 DEF HandlersApart
<1>6. AnswersApart
  BY <1>2 DEF AnswersApart, InHostResp, Down, ToBePut, InSubResp, Used
<1>7. AnswersFaithful
  <2>1. HostResponsesFaithful /\ ResponsesFaithful
    BY <1>2 DEF HostResponsesFaithful, ResponsesFaithful, Empty
  <2>2. LinesFaithful /\ SourcesSaid /\ QuestionsUnrefused
    BY <1>2 DEF LinesFaithful, SourcesSaid, QuestionsUnrefused
  <2>3. ForwardersFaithful
    BY <1>2 DEF ForwardersFaithful, Idle
  <2> QED
    BY <2>1, <2>2, <2>3 DEF AnswersFaithful
<1> QED
  BY <1>1, <1>3, <1>4, <1>5, <1>6, <1>7 DEF XInv, Asking, Answering

LEMMA NextKeepsExchange ==
  ASSUME XInv, [Next]_vars
  PROVE  XInv'
BY NextKeepsTypes, NextKeepsAsking, NextKeepsAnswering DEF XInv

\* The types, and requests and answers each in one place, hold in every reachable state.
THEOREM Invariance == Spec => []XInv
<1>1. Init => XInv
  BY InitExchange
<1>2. XInv /\ [Next]_vars => XInv'
  BY NextKeepsExchange
<1> QED
  BY <1>1, <1>2, PTL DEF Spec

\* Each variable keeps its type; the channel pairs never hold more than one value, and while the
\* server loop has a call in hand, it is the last one read and is open.
THEOREM TypeCorrectness == Spec => []TypeOK
<1>1. XInv => TypeOK
  BY TypedImpliesTypeOK DEF XInv
<1> QED
  BY <1>1, Invariance, PTL

LEMMA SpentFacts ==
  ASSUME Typed
  PROVE  /\ DOMAIN calls = Calls /\ DOMAIN verdict = Calls
         /\ \A a : a \in Spent <=> a # 0 /\ \E c \in Calls : verdict[c] = "allowed" /\ source[c] = a
<1>1. DOMAIN calls = Calls /\ DOMAIN verdict = Calls
  BY DEF Typed, CallsTyped, Calls, Current
<1>2. \A a : a \in Spent <=> a # 0 /\ \E c \in Calls : verdict[c] = "allowed" /\ source[c] = a
  BY <1>1 DEF Spent
<1> QED
  BY <1>1, <1>2

LEMMA SpentIsUsed ==
  ASSUME XInv
  PROVE  Spent \subseteq Used
<1>1. \A c \in Calls : source[c] # 0 => source[c] \in Calls
  BY DEF XInv, Answering, AnswersFaithful, SourcesSaid, Said
<1> QED
  BY <1>1, SpentFacts DEF XInv, Used

\* What a step does to the requests whose answer has let a call proceed.
LEMMA SpentMoves ==
  ASSUME Typed, Typed', calls' = calls
  PROVE  /\ (\A c \in Calls : (verdict'[c] = "allowed" <=> verdict[c] = "allowed") /\ source'[c] = source[c])
              => Spent' = Spent
         /\ \A n \in Calls :
              /\ verdict[n] # "allowed"
              /\ \A c \in Calls : c # n => verdict'[c] = verdict[c] /\ source'[c] = source[c]
              => /\ verdict'[n] # "allowed" \/ source'[n] = 0 => Spent' = Spent
                 /\ verdict'[n] = "allowed" /\ source'[n] # 0 => Spent' = Spent \cup {source'[n]}
<1>1. Calls' = Calls
  BY CallsStay
<1>2. \A a : a \in Spent <=> a # 0 /\ \E c \in Calls : verdict[c] = "allowed" /\ source[c] = a
  BY SpentFacts
<1>3. \A a : a \in Spent' <=> a # 0 /\ \E c \in Calls : verdict'[c] = "allowed" /\ source'[c] = a
  <2>1. DOMAIN calls' = Calls
    BY <1>1 DEF Typed, CallsTyped, Calls, Current
  <2> QED
    BY <2>1 DEF Spent
<1> QED
  BY <1>1, <1>2, <1>3

LEMMA ReadCallAsks ==
  ASSUME XInv, ReadCall
  PROVE  Exchange!Next
<1>1. Typed /\ Typed'
  BY ReadCallKeepsTypes DEF XInv
<1>2. PICK record \in CallRecords, v \in {"open", "allowed", "denied"} :
        /\ NewCall(record.kind, record.tool, v)
        /\ v = "allowed" => record.kind = "permission" /\ record.tool \in allowed
  BY <1>1, ReadCallFacts
<1>3. allowed' = allowed /\ Current < MaxCalls
  BY <1>1, ReadCallFacts
<1>4. PICK n : n = Current + 1
  OBVIOUS
<1>5. /\ n \notin Calls /\ Calls' = Calls \cup {n} /\ source'[n] = 0
      /\ \A a \in Calls : verdict'[a] = verdict[a] /\ source'[a] = source[a]
  BY <1>1, <1>2, <1>3, <1>4, NewCallFacts DEF Typed
<1>6. Spent' = Spent
  <2>1. \A a : a \in Spent <=> a # 0 /\ \E c \in Calls : verdict[c] = "allowed" /\ source[c] = a
    BY <1>1, SpentFacts
  <2>2. \A a : a \in Spent' <=> a # 0 /\ \E c \in Calls' : verdict'[c] = "allowed" /\ source'[c] = a
    <3>1. DOMAIN calls' = Calls'
      BY <1>1 DEF Typed, CallsTyped, Calls, Current
    <3> QED
      BY <3>1 DEF Spent
  <2>3. \A a : a \in Spent' <=> a \in Spent
    BY <1>5, <2>1, <2>2
  <2> QED
    BY <2>3
<1>7. Exchange!Ask(record.kind, record.tool, v)
  BY <1>2, <1>3, <1>6 DEF NewCall, Exchange!Ask
<1>8. record.kind \in Kinds /\ record.tool \in Tools \cup {"none"}
  BY DEF CallRecords
<1> QED
  BY <1>7, <1>8 DEF Exchange!Next

\* The server gives up, or answers without a word of the user for it to proceed.
LEMMA GivingUpDenies ==
  ASSUME XInv, Typed', server # "read", verdict' = [verdict EXCEPT ![Current] = "denied"],
         UNCHANGED <<calls, said, allowed>>, \A c \in Calls : c # Current => source'[c] = source[c]
  PROVE  Exchange!Next
<1>1. Typed /\ Current \in Calls /\ verdict[Current] = "open" /\ DOMAIN calls = Calls
  BY CallNumbers, SpentFacts DEF XInv, Typed, CallsTyped
<1>2. /\ verdict'[Current] = "denied"
      /\ \A c \in Calls : c # Current => verdict'[c] = verdict[c]
  BY <1>1, ResultFacts DEF Typed
<1>3. Spent' = Spent
  BY <1>1, <1>2, SpentMoves
<1>4. Exchange!Deny(Current)
  BY <1>1, <1>3 DEF Exchange!Deny, Exchange!Settle
<1> QED
  BY <1>1, <1>4 DEF Exchange!Next

LEMMA ServerReceivesSettles ==
  ASSUME XInv, ServerReceives
  PROVE  Exchange!Next
<1>1. Typed /\ Typed' /\ server = "wait"
  BY ServerReceivesKeepsTypes, ServerReceivesFacts DEF XInv
<1>2. /\ UNCHANGED <<calls, said>> /\ Current \in Calls /\ KindOf(Current) \in Kinds
      /\ verdict[Current] = "open" /\ DOMAIN calls = Calls
  BY <1>1, ServerReceivesFacts, SpentFacts DEF Typed, CallsTyped
<1>3. PICK k \in Kinds : k = KindOf(Current) /\ k = calls[Current].kind
  BY <1>2 DEF KindOf
<1>4. PICK r \in Responses, v \in {"allowed", "denied"} :
        /\ subResp[k] = <<r>>
        /\ verdict' = [verdict EXCEPT ![Current] = v]
        /\ v = "allowed" <=> r.word \in {"yes", "always"} \/ k = "question"
        /\ source' = [source EXCEPT ![Current] = IF r.word = "none" THEN 0 ELSE r.id]
        /\ allowed' = IF k = "permission" /\ r.word = "always"
                      THEN allowed \cup {calls[Current].tool} ELSE allowed
  BY <1>1, <1>3, ServerReceivesFacts
<1>5. /\ verdict'[Current] = v
      /\ \A c \in Calls : c # Current => verdict'[c] = verdict[c]
  BY <1>1, <1>4, ResultFacts DEF Typed
<1>6. /\ source'[Current] = IF r.word = "none" THEN 0 ELSE r.id
      /\ \A c \in Calls : c # Current => source'[c] = source[c]
  BY <1>1, <1>2, <1>4 DEF Typed, CallsTyped
<1>7. Faithful(k, r) /\ r.word \in Words /\ QuestionsUnrefused
  BY <1>1, <1>4, SaidWords DEF XInv, Answering, AnswersFaithful, ResponsesFaithful
<1>8. CASE r.word \in {"yes", "always"}
  <2>1. /\ r.id \in Calls /\ calls[r.id].kind = k /\ said[r.id] = r.word /\ r.id # 0
    BY <1>1, <1>7, <1>8, CallNumbers DEF Faithful, KindOf, Typed
  <2>2. r.id \in InSubResp
    BY <1>3, <1>4, <1>7, <1>8, <2>1 DEF InSubResp, Tells, KindOf
  <2>3. r.id \notin Spent
    BY <2>2, SpentIsUsed DEF XInv, Answering, AnswersApart
  <2>4. v = "allowed" /\ source'[Current] = r.id
    BY <1>4, <1>6, <1>8
  <2>5. Spent' = Spent \cup {r.id}
    BY <1>1, <1>2, <1>5, <1>6, <2>1, <2>4, SpentMoves
  <2>6. Exchange!Settle(Current, "allowed")
    BY <1>2, <1>4, <2>4 DEF Exchange!Settle
  <2>7. allowed' = IF said[r.id] = "always" /\ calls[Current].kind = "permission"
                   THEN allowed \cup {calls[Current].tool} ELSE allowed
    BY <1>3, <1>4, <2>1
  <2>8. Exchange!Spend(Current, r.id)
    BY <1>3, <1>8, <2>1, <2>3, <2>5, <2>6, <2>7 DEF Exchange!Spend
  <2> QED
    BY <1>2, <2>1, <2>8 DEF Exchange!Next
<1>9. CASE r.word = "none" /\ k = "question"
  <2>1. v = "allowed" /\ source'[Current] = 0 /\ allowed' = allowed
    BY <1>4, <1>6, <1>9
  <2>2. Spent' = Spent
    BY <1>1, <1>2, <1>5, <1>6, <2>1, SpentMoves
  <2>3. Exchange!PassBack(Current)
    BY <1>2, <1>3, <1>4, <1>9, <2>1, <2>2 DEF Exchange!PassBack, Exchange!Settle
  <2> QED
    BY <1>2, <2>3 DEF Exchange!Next
<1>10. CASE r.word \in {"none", "no"} /\ k # "question"
  <2>1. v = "denied" /\ allowed' = allowed
    BY <1>4, <1>10
  <2> QED
    BY <1>1, <1>2, <1>4, <1>6, <2>1, GivingUpDenies
<1>11. ~(r.word = "no" /\ k = "question")
  BY <1>7 DEF Faithful, QuestionsUnrefused
<1> QED
  BY <1>7, <1>8, <1>9, <1>10, <1>11 DEF Words

\* A step that settles nothing, and in which nobody speaks.
LEMMA ExchangeStays ==
  ASSUME UNCHANGED <<calls, said, verdict, source, allowed>>
  PROVE  UNCHANGED Exchange!vars
<1>1. Spent' = Spent
  BY DEF Spent
<1> QED
  BY <1>1 DEF Exchange!vars

LEMMA UserSpeaks ==
  ASSUME XInv, UserStep
  PROVE  [Exchange!Next]_Exchange!vars
<1>1. Typed /\ UNCHANGED <<calls, verdict, source, allowed>> /\ DOMAIN calls = Calls
  BY UserFacts, SpentFacts DEF UserLeaves, XInv
<1>2. CASE \E k \in Kinds : Shows(k)
  BY <1>1, <1>2, ShowsFacts, ExchangeStays
<1>3. ASSUME NEW k \in Kinds, NEW word \in {"yes", "always", "no"}, SendResponse(k, word)
      PROVE  Exchange!Next
  <2>1. PICK a \in Calls : KindOf(a) = k /\ prompt[k] = a /\ said' = [said EXCEPT ![a] = word]
    BY <1>1, <1>3, SendResponseFacts
  <2>2. a \in Shown
    BY <2>1 DEF Shown
  <2>3. said[a] = "nothing"
    BY <2>2 DEF XInv, Asking, RequestsApart, Said
  <2>4. Spent' = Spent
    BY <1>1 DEF Spent
  <2>5. Exchange!Speak(a, word)
    BY <1>1, <2>1, <2>3, <2>4 DEF Exchange!Speak
  <2> QED
    BY <1>1, <2>5 DEF Exchange!Next
<1> QED
  BY <1>2, <1>3, UserFacts

LEMMA LifeForgets ==
  ASSUME XInv, LifeStep
  PROVE  [Exchange!Next]_Exchange!vars
<1>1. Typed /\ Typed' /\ UNCHANGED <<calls, said, source>>
  BY LifeFacts, LifeKeepsTypes DEF XInv
<1>2. CASE UNCHANGED <<verdict, allowed>>
  BY <1>1, <1>2, ExchangeStays
<1>3. CASE SubprocessDies
  <2>1. \A c \in Calls : verdict'[c] = IF verdict[c] = "open" THEN "lost" ELSE verdict[c]
    BY <1>1, <1>3, DiesFacts
  <2>2. Spent' = Spent
    BY <1>1, <2>1, SpentMoves
  <2>3. Exchange!Forget
    BY <1>1, <1>3, <2>2 DEF SubprocessDies, Exchange!Forget
  <2> QED
    BY <2>3 DEF Exchange!Next
<1> QED
  BY <1>1, <1>2, <1>3, LifeFacts

LEMMA NextRefines ==
  ASSUME XInv, [Next]_vars
  PROVE  [Exchange!Next]_Exchange!vars
<1>1. Typed
  BY DEF XInv
<1>2. CASE ReadCall
  BY <1>2, ReadCallAsks
<1>3. CASE ServerSends
  <2>1. /\ server # "read" /\ UNCHANGED <<calls, said, allowed, source>>
        /\ verdict' = verdict \/ verdict' = [verdict EXCEPT ![Current] = "denied"]
    BY <1>1, <1>3, ServerSendsFacts
  <2> QED
    BY <1>1, <1>3, <2>1, ServerSendsKeepsTypes, GivingUpDenies, ExchangeStays
<1>4. CASE ServerReceives
  BY <1>4, ServerReceivesSettles
<1>5. CASE ServerTimesOut
  <2>1. /\ server # "read" /\ UNCHANGED <<calls, said, allowed, source>>
        /\ verdict' = [verdict EXCEPT ![Current] = "denied"]
    BY <1>1, <1>5, ServerTimesOutFacts
  <2> QED
    BY <1>1, <1>5, <2>1, ServerTimesOutKeepsTypes, GivingUpDenies
<1>6. ASSUME NEW k \in Kinds, ForwarderStep(k)
      PROVE  [Exchange!Next]_Exchange!vars
  BY <1>6, ForwarderLeavesThem, ExchangeStays DEF ForwarderLeaves
<1>7. CASE UserStep
  BY <1>7, UserSpeaks
<1>8. ASSUME NEW c \in Conns, HandlerStep(c) \/ HandlerSeesEnd(c)
      PROVE  [Exchange!Next]_Exchange!vars
  BY <1>8, HandlerLeavesThem, ExchangeStays DEF HandlerLeaves
<1>9. CASE LifeStep
  BY <1>9, LifeForgets
<1>10. CASE UNCHANGED vars
  <2>1. UNCHANGED <<calls, said, verdict, source, allowed>>
    BY <1>10 DEF vars, callVars, subVars, userVars
  <2> QED
    BY <2>1, ExchangeStays
<1> QED
  BY <1>2, <1>3, <1>4, <1>5, <1>6, <1>7, <1>8, <1>9, <1>10 DEF Next, ServerStep

\* Over timeouts, late answers, handlers that wait for one channel and lost connections, a yes of
\* the user lets at most one call proceed, of the kind it was given for, and none proceeds without.
THEOREM ExchangeIsImplemented == Spec => ImplementsExchange
<1>1. Init => Exchange!Init
  BY SMT DEF Init, SubprocessInit, ConnectionInit, RunnerInit, Exchange!Init, Spent
<1>2. XInv /\ [Next]_vars => [Exchange!Next]_Exchange!vars
  BY NextRefines
<1> QED
  BY <1>1, <1>2, Invariance, PTL DEF Spec, ImplementsExchange, Exchange!Spec

-----------------------------------------------------------------------------
(* Answers in order: the handlers first.                                   *)

LEMMA HandlersInTimeStay ==
  ASSUME Typed, HandlersInTime, conn' = conn, alive' = alive \/ ~alive',
         \A c \in Conns : handler'[c] = handler[c] \/
           (handler[c].at # "none" /\ (c = conn /\ alive => handler'[c].at # "done"))
  PROVE  HandlersInTime'
<1>1. conn \in Conns
  BY DEF Typed, ConnectionTyped
<1> QED
  BY <1>1 DEF HandlersInTime

LEMMA NextKeepsHandlersInTime ==
  ASSUME Typed, HandlersInTime, [Next]_vars
  PROVE  HandlersInTime'
<1>1. conn \in Conns /\ conn \in Nat /\ (alive => ~ServerClosed)
  BY BoundsAssumption DEF Typed, ConnectionTyped, ServerClosed, Conns
<1>2. CASE UNCHANGED vars \/ ReadCall \/ ServerStep \/ UserStep
  <2>1. UNCHANGED <<conn, alive, handler>>
    BY <1>2, ReadCallFacts, ServerSendsFacts, ServerReceivesFacts, ServerTimesOutFacts, UserFacts
    DEF vars, connVars, hostVars, ServerStep, UserLeaves
  <2> QED
    BY <2>1, HandlersInTimeStay
<1>3. ASSUME NEW k \in Kinds, ForwarderStep(k)
      PROVE  HandlersInTime'
  BY <1>3, ForwarderLeavesThem, HandlersInTimeStay DEF ForwarderLeaves
<1>4. ASSUME NEW c \in Conns, HandlerStep(c) \/ HandlerSeesEnd(c)
      PROVE  HandlersInTime'
  <2>1. UNCHANGED <<conn, alive>>
    BY <1>4, HandlerLeavesThem DEF HandlerLeaves
  <2>2. \A d \in Conns : d # c => handler'[d] = handler[d]
    <3>1. handler[c].id \in Ids /\ "none" \in Words
      BY DEF Typed, HostTyped, HandlerRecords, Words
    <3> QED
      BY <1>4, <3>1, HandlerReadsFacts, HandlerSendsFacts, HandlerReceivesFacts, HandlerTimesOutFacts,
         HandlerEndsFacts, ReturnsFacts DEF HandlerStep
  <2>3. handler'[c] = handler[c] \/
          (handler[c].at # "none" /\ (c = conn /\ alive => handler'[c].at # "done"))
    <3>1. CASE HandlerReads(c)
      BY <3>1, HandlerReadsFacts
    <3>2. CASE HandlerSends(c)
      BY <1>1, <3>2, HandlerSendsFacts, ReturnsFacts
    <3>3. CASE HandlerReceives(c) \/ HandlerTimesOut(c)
      BY <1>1, <3>3, HandlerReceivesFacts, HandlerTimesOutFacts, ReturnsFacts
    <3>4. CASE HandlerEnds(c)
      BY <1>1, <3>4, HandlerEndsFacts DEF HandlerEnds
    <3>5. CASE HandlerSeesEnd(c)
      BY <1>1, <3>5, HandlerEndsFacts DEF HandlerSeesEnd
    <3> QED
      BY <1>4, <3>1, <3>2, <3>3, <3>4, <3>5 DEF HandlerStep
  <2> QED
    BY <2>1, <2>2, <2>3, HandlersInTimeStay
<1>5. CASE Crash \/ StopKills \/ StopCloses
  <2>1. /\ UNCHANGED <<conn, handler>> /\ (alive' = alive \/ ~alive')
    BY <1>5, DiesFacts DEF Crash, StopKills, StopCloses, connVars, hostVars
  <2> QED
    BY <2>1, HandlersInTimeStay
<1>6. CASE Connect
  <2>1. /\ conn' = conn + 1 /\ conn' \in Conns /\ conn' > conn
        /\ \A d \in Conns : d # conn' => handler'[d] = handler[d]
    BY <1>1, <1>6, ConnectFacts
  <2>2. handler'[conn'].at # "done"
    <3>1. CASE Containerized
      <4>1. handler' = handler
        BY <1>6, <3>1 DEF Connect
      <4> QED
        BY <2>1, <4>1 DEF HandlersInTime
    <3>2. CASE ~Containerized
      <4>1. At(conn + 1, "read", 0) /\ 0 \in Ids /\ handler \in [Conns -> HandlerRecords]
        BY <1>6, <3>2, CallNumbers DEF Connect, Typed, HostTyped
      <4> QED
        BY <2>1, <4>1, AtSets
    <3> QED
      BY <3>1, <3>2
  <2>3. \A d \in Conns : d > conn' => handler'[d].at = "none"
    <3>1. \A d \in Conns : d > conn' => d > conn /\ d # conn'
      BY <1>1, <2>1 DEF Conns
    <3> QED
      BY <2>1, <3>1 DEF HandlersInTime
  <2> QED
    BY <2>2, <2>3 DEF HandlersInTime
<1>7. CASE DialerStep
  <2>1. /\ UNCHANGED <<conn, alive>>
        /\ handler' = handler \/ (handler[conn].at = "none" /\ handler'[conn].at = "read")
        /\ \A d \in Conns : d # conn => handler'[d] = handler[d]
    BY <1>7, DialerFacts
  <2>2. ~(conn > conn)
    BY <1>1
  <2> QED
    BY <1>1, <2>1, <2>2 DEF HandlersInTime
<1> QED
  BY <1>2, <1>3, <1>4, <1>5, <1>6, <1>7 DEF Next, LifeStep

\* Which place it is, from what a step finds in it.
LEMMA WhichPlace ==
  ASSUME NEW n, NEW k \in Kinds, n # 0, NoneBut(k), OnItsWay(n, k)
  PROVE  /\ \A j \in Kinds : subReq[j] # <<>> => j = k /\ Requested(n, k)
         /\ \A j \in Kinds : fwd[j].at = "write" => j = k /\ Taken(n, k)
         /\ \A j \in Kinds : fwd[j].at = "read" => j = k
         /\ fwd[k].at = "read" /\ down[conn] # <<>> => Replied(n, k)
         /\ \A j \in Kinds : fwd[j].at = "put" => j = k /\ Fetched(n, k)
         /\ subResp[k] # <<>> => Returned(n, k)
         /\ \A c \in Conns : up[c] # <<>> => c = conn /\ Written(n, k)
         /\ \A c \in Conns : handler[c].at = "send" => c = conn /\ Received(n, k)
         /\ \A c \in Conns : handler[c].at = "wait" => c = conn /\ handler[c].id = n
         /\ handler[conn].at = "wait" /\ hostResp[k] # <<>> => Answered(n, k)
         /\ \A j \in Kinds : hostReq[j] # <<>> => j = k /\ Posted(n, k)
         /\ \A j \in Kinds : prompt[j] # 0 => j = k /\ Prompted(n, k)
<1>1. /\ \A j \in Kinds : j # k => NoneOf(j)
      /\ \A c \in Conns : c # conn => NoneOn(c)
  BY DEF NoneBut
<1>2. /\ subReq[k] # <<>> => Requested(n, k)
      /\ fwd[k].at = "write" => Taken(n, k)
      /\ fwd[k].at = "read" /\ down[conn] # <<>> => Replied(n, k)
      /\ fwd[k].at = "put" => Fetched(n, k)
      /\ subResp[k] # <<>> => Returned(n, k)
  BY DEF OnItsWay, Requested, Taken, Written, Received, Posted, Prompted, Answered, Replied, Fetched,
     Returned, Sub, Wire
<1>3. /\ up[conn] # <<>> => Written(n, k)
      /\ handler[conn].at = "send" => Received(n, k)
      /\ handler[conn].at = "wait" => handler[conn].id = n
      /\ handler[conn].at = "wait" /\ hostResp[k] # <<>> => Answered(n, k)
  BY DEF OnItsWay, Requested, Taken, Written, Received, Posted, Prompted, Answered, Replied, Fetched,
     Returned, Wire, Handling, Unhandled, Host
<1>4. /\ hostReq[k] # <<>> => Posted(n, k)
      /\ prompt[k] # 0 => Prompted(n, k)
  BY DEF OnItsWay, Requested, Taken, Written, Received, Posted, Prompted, Answered, Replied, Fetched,
     Returned, Host
<1> QED
  BY <1>1, <1>2, <1>3, <1>4 DEF NoneOf, NoneOn

\* The call at hand, and its kind.
LEMMA CallAtHand ==
  ASSUME Typed, Tidy, server = "wait"
  PROVE  /\ Current \in Calls /\ Current # 0 /\ KindOf(Current) \in Kinds /\ conn \in Conns
         /\ alive /\ stop = "no" /\ verdict[Current] = "open"
         /\ NoneBut(KindOf(Current)) /\ OnItsWay(Current, KindOf(Current)) /\ OwnAnswers
  BY CallNumbers DEF Typed, Tidy, CallsTyped, ConnectionTyped

\* The call at hand goes on to its next place.
LEMMA GoesOn ==
  ASSUME Typed, Tidy, server' = "wait", calls' = calls,
         UNCHANGED <<verdict, source>>, \A c \in Calls : c # Current => said'[c] = said[c],
         verdict[Current] = "open",
         NEW n, NEW k, n = Current, k = KindOf(n), NoneBut(k)', OnItsWay(n, k)'
  PROVE  Tidy'
<1>1. Current' = n /\ KindOf(Current)' = k /\ Calls' = Calls
  BY CallsStay, CallNumbers DEF Typed, KindOf
<1>2. OwnAnswers'
  BY <1>1 DEF Tidy, OwnAnswers
<1> QED
  BY <1>1, <1>2 DEF Tidy

LEMMA OthersStay ==
  ASSUME NEW k, NoneBut(k), conn' = conn,
         \A j \in Kinds : j # k => /\ subReq'[j] = subReq[j] /\ subResp'[j] = subResp[j]
                                   /\ fwd'[j] = fwd[j] /\ hostReq'[j] = hostReq[j]
                                   /\ hostResp'[j] = hostResp[j] /\ prompt'[j] = prompt[j],
         \A c \in Conns : c # conn => up'[c] = up[c] /\ down'[c] = down[c] /\ handler'[c] = handler[c]
  PROVE  NoneBut(k)'
BY DEF NoneBut, NoneOf, NoneOn

\* With nothing under way, only the server, the connections and Stop take steps.
LEMMA NothingMoves ==
  ASSUME NothingUnderWay
  PROVE  /\ \A k \in Kinds : ~ForwarderStep(k)
         /\ \A c \in Conns : ~HandlerReads(c) /\ ~HandlerSends(c) /\ ~HandlerReceives(c)
                             /\ ~HandlerTimesOut(c)
         /\ ~UserStep
<1>1. /\ \A k \in Kinds : NoneOf(k)
      /\ \A c \in Conns : NoneOn(c)
  BY DEF NothingUnderWay
<1>2. ASSUME NEW k \in Kinds, ForwarderStep(k)
      PROVE  FALSE
  BY <1>1, <1>2 DEF NoneOf, ForwarderStep, ForwarderTakes, ForwarderWrites, ForwarderReads,
     ForwardersRace, ForwarderGivesUp, ForwarderPuts
<1>3. ASSUME NEW c \in Conns
      PROVE  ~HandlerReads(c) /\ ~HandlerSends(c) /\ ~HandlerReceives(c) /\ ~HandlerTimesOut(c)
  BY <1>1 DEF NoneOn, HandlerReads, HandlerSends, HandlerReceives, HandlerTimesOut
<1>4. ASSUME UserStep
      PROVE  FALSE
  <2>1. ASSUME NEW k \in Kinds, Shows(k)
        PROVE  FALSE
    BY <1>1, <2>1 DEF NoneOf, Shows
  <2>2. ASSUME NEW k \in Kinds, NEW word \in {"yes", "always", "no"}, SendResponse(k, word)
        PROVE  FALSE
    BY <1>1, <2>2 DEF NoneOf, SendResponse
  <2> QED
    BY <1>4, <2>1, <2>2, UserFacts
<1> QED
  BY <1>2, <1>3, <1>4

LEMMA ReadCallStaysTidy ==
  ASSUME Typed, Tidy, ReadCall
  PROVE  Tidy'
<1>1. /\ server = "read"
      /\ UNCHANGED <<subReq, subResp, fwd, up, down, handler, hostReq, hostResp, prompt>>
  BY ReadCallFacts
<1>2. PICK n : n = Current + 1
  OBVIOUS
<1>3. /\ Current' = n /\ Calls' = Calls \cup {n} /\ said'[n] = "nothing" /\ source'[n] = 0
      /\ \A a \in Calls : verdict'[a] = verdict[a] /\ source'[a] = source[a] /\ said'[a] = said[a]
      /\ server' \in {"read", "send"}
  BY <1>1, <1>2, ReadCallFacts, NewCallFacts DEF Typed
<1>4. NothingUnderWay'
  BY <1>1 DEF Tidy, NothingUnderWay, NoneOf, NoneOn
<1>5. OwnAnswers'
  BY <1>3 DEF Tidy, OwnAnswers
<1> QED
  BY <1>3, <1>4, <1>5 DEF Tidy, Unsaid

LEMMA ServerSendsStaysTidy ==
  ASSUME Typed, Tidy, ServerSends
  PROVE  Tidy'
<1>1. /\ server = "send" /\ Current \in Calls /\ KindOf(Current) \in Kinds
      /\ UNCHANGED <<calls, said, subResp, fwd, conn, up, down, handler, hostReq, hostResp, prompt, source>>
  BY ServerSendsFacts
<1>2. PICK n \in Calls, k \in Kinds : n = Current /\ k = KindOf(n)
  BY <1>1
<1>3. NoneOf(k) /\ NothingUnderWay /\ Unsaid(n) /\ verdict[Current] = "open" /\ NoneOn(conn)
  BY <1>1, <1>2 DEF Tidy, NothingUnderWay, Typed, CallsTyped, ConnectionTyped
<1>4. ~Full(subReq[k])
  BY <1>3 DEF NoneOf, Full, ChannelBuffer
<1>5. /\ server' = "wait" /\ verdict' = verdict /\ subReq'[k] = <<n>>
      /\ \A j \in Kinds : j # k => subReq'[j] = subReq[j]
  BY <1>2, <1>4, ServerSendsFacts
<1>6. NoneBut(k)'
  <2>1. NoneBut(k)
    BY <1>3 DEF NothingUnderWay, NoneBut
  <2> QED
    BY <1>1, <1>5, <2>1, OthersStay
<1>7. Requested(n, k)'
  BY <1>1, <1>3, <1>5 DEF NoneOf, NoneOn, Requested, Unsaid, Sub, Wire, Unhandled, Host
<1> QED
  BY <1>1, <1>2, <1>3, <1>5, <1>6, <1>7, GoesOn DEF OnItsWay

LEMMA ServerReceivesStaysTidy ==
  ASSUME Typed, Tidy, ServerReceives
  PROVE  Tidy'
<1>1. /\ server = "wait" /\ server' = "read"
      /\ UNCHANGED <<calls, said, subReq, fwd, conn, up, down, handler, hostReq, hostResp, prompt>>
  BY ServerReceivesFacts
<1>2. /\ Current \in Calls /\ Current # 0 /\ KindOf(Current) \in Kinds /\ conn \in Conns
      /\ NoneBut(KindOf(Current)) /\ OnItsWay(Current, KindOf(Current)) /\ OwnAnswers
  BY <1>1, CallAtHand
<1>3. PICK n \in Calls, k \in Kinds : n = Current /\ k = KindOf(n)
  BY <1>2
<1>4. PICK r \in Responses, v \in {"allowed", "denied"} :
        /\ subResp[k] = <<r>> /\ subResp'[k] = <<>>
        /\ \A j \in Kinds : j # k => subResp'[j] = subResp[j]
        /\ verdict' = [verdict EXCEPT ![n] = v]
        /\ source' = [source EXCEPT ![n] = IF r.word = "none" THEN 0 ELSE r.id]
  BY <1>3, ServerReceivesFacts
<1>5. Returned(n, k) /\ NoneBut(k)
  <2>1. subResp[k] # <<>>
    BY <1>4
  <2> QED
    BY <1>2, <1>3, <2>1, WhichPlace
<1>6. r.id = n /\ r.word = Word(n)
  <2>1. <<r>> = <<Response(n, Word(n))>>
    BY <1>4, <1>5 DEF Returned, Sub
  <2>2. r = Response(n, Word(n))
    BY <2>1
  <2> QED
    BY <2>2 DEF Response
<1>7. NothingUnderWay'
  <2>1. \A j \in Kinds : NoneOf(j)'
    BY <1>1, <1>4, <1>5 DEF NoneBut, NoneOf, Returned, Sub, Host
  <2>2. \A c \in Conns : NoneOn(c)'
    BY <1>1, <1>5 DEF NoneBut, NoneOn, Returned, Wire, Unhandled
  <2> QED
    BY <2>1, <2>2 DEF NothingUnderWay
<1>8. OwnAnswers'
  <2>1. \A c \in Calls : c # n => verdict'[c] = verdict[c] /\ source'[c] = source[c]
    BY <1>4 DEF Typed, CallsTyped
  <2>2. source'[n] = IF r.word = "none" THEN 0 ELSE r.id
    BY <1>4 DEF Typed, CallsTyped
  <2>3. source'[n] \in {0, n} /\ (said[n] # "nothing" => source'[n] = n)
    BY <1>6, <2>2, SaidWords DEF Word, Unsaid
  <2> QED
    BY <1>1, <1>2, <2>1, <2>3, CallsStay DEF OwnAnswers
<1> QED
  BY <1>1, <1>7, <1>8 DEF Tidy

LEMMA ForwarderStaysTidy ==
  ASSUME Typed, HandlersInTime, Tidy, NEW m \in Kinds, ForwarderStep(m), ~disturbed'
  PROVE  Tidy'
<1>1. /\ UNCHANGED <<calls, verdict, source, said, server, conn, handler, hostReq, hostResp, prompt>>
      /\ alive
  BY ForwarderLeavesThem DEF ForwarderLeaves
<1>2. server = "wait"
  BY NothingMoves DEF Tidy
<1>3. /\ Current \in Calls /\ Current # 0 /\ KindOf(Current) \in Kinds /\ conn \in Conns
      /\ NoneBut(KindOf(Current)) /\ OnItsWay(Current, KindOf(Current)) /\ verdict[Current] = "open"
  BY <1>2, CallAtHand
<1>4. PICK n \in Calls, k \in Kinds : n = Current /\ k = KindOf(n)
  BY <1>3
<1>5. ASSUME m = k,
             \A j \in Kinds : j # k => /\ subReq'[j] = subReq[j] /\ subResp'[j] = subResp[j]
                                       /\ fwd'[j] = fwd[j],
             \A c \in Conns : c # conn => up'[c] = up[c] /\ down'[c] = down[c],
             OnItsWay(n, k)'
      PROVE  Tidy'
  <2>1. NoneBut(k)'
    BY <1>1, <1>3, <1>4, <1>5, OthersStay
  <2> QED
    BY <1>1, <1>2, <1>3, <1>4, <1>5, <2>1, GoesOn
<1>6. CASE ForwarderTakes(m)
  <2>1. /\ UNCHANGED <<subResp, up, down>> /\ subReq[m] # <<>> /\ subReq'[m] = <<>>
        /\ \A j \in Kinds : j # m => subReq'[j] = subReq[j] /\ fwd'[j] = fwd[j]
        /\ fwd'[m].at = "write" /\ subReq[m] = <<fwd'[m].id>>
    BY <1>6, ForwarderTakesFacts DEF ForwarderTakes
  <2>2. m = k /\ Requested(n, k)
    BY <1>3, <1>4, <2>1, WhichPlace
  <2>3. fwd'[k].id = n
    <3>1. <<fwd'[k].id>> = <<n>>
      BY <2>1, <2>2 DEF Requested, Sub
    <3> QED
      BY <3>1
  <2>4. Taken(n, k)'
    BY <1>1, <2>1, <2>2, <2>3 DEF Requested, Taken, InHandOf, Unsaid, Sub, Wire, Unhandled, Host
  <2> QED
    BY <1>5, <2>1, <2>2, <2>4 DEF OnItsWay
<1>7. CASE ForwarderWrites(m)
  <2>1. /\ UNCHANGED <<subReq, subResp, down>> /\ fwd[m].at = "write"
        /\ fwd'[m].id = fwd[m].id /\ \A j \in Kinds : j # m => fwd'[j] = fwd[j]
    BY <1>7, ForwarderWritesFacts
  <2>2. m = k /\ Taken(n, k)
    BY <1>3, <1>4, <2>1, WhichPlace
  <2>3. handler[conn].at # "done"
    BY <1>1 DEF HandlersInTime
  <2>4. /\ fwd'[k].at = "read" /\ Grows(up'[conn], up[conn], fwd[k].id)
        /\ \A c \in Conns : c # conn => up'[c] = up[c]
    BY <1>7, <2>2, <2>3, ForwarderWritesFacts
  <2>5. up'[conn] = <<n>>
    <3>1. up[conn] = <<>> /\ fwd[k].id = n
      BY <2>2 DEF Taken, Wire, InHandOf
    <3> QED
      BY <2>4, <3>1 DEF Grows
  <2>6. Written(n, k)'
    BY <1>1, <2>1, <2>2, <2>4, <2>5 DEF Taken, Written, InHandOf, Unsaid, Sub, Wire, Unhandled, Host
  <2> QED
    BY <1>5, <2>1, <2>2, <2>4, <2>6 DEF OnItsWay
<1>8. CASE ForwarderReads(m) \/ ForwardersRace(m)
  <2>1. /\ UNCHANGED <<subReq, subResp, up>> /\ fwd[m].at = "read" /\ down[conn] # <<>>
        /\ Shrinks(down'[conn], down[conn]) /\ \A c \in Conns : c # conn => down'[c] = down[c]
        /\ fwd'[m].at = "put"
        /\ \A j \in Kinds \ {m} : fwd'[j] = fwd[j] \/ fwd[j].at = "read"
    BY <1>8, ReadsFacts
  <2>2. m = k /\ Replied(n, k) /\ \A j \in Kinds \ {k} : fwd[j].at # "read"
    BY <1>3, <1>4, <2>1, WhichPlace
  <2>3. PICK line : line = Line(n, k) /\ down[conn] = <<line>>
    BY <2>2 DEF Replied, Wire
  <2>4. Head(down[conn]) = line /\ down'[conn] = <<>>
    BY <2>1, <2>3 DEF Shrinks
  <2>5. line.kind = k /\ line.id = n /\ line.word = Word(n)
    BY <2>3 DEF Line
  <2>6. fwd'[k].id = n /\ fwd'[k].word = Word(n)
    BY <1>8, <2>2, <2>4, <2>5, ReadsFacts
  <2>7. Fetched(n, k)'
    BY <1>1, <2>1, <2>2, <2>4, <2>6
    DEF Replied, Fetched, InHandOf, Word, Unsaid, Sub, Wire, Unhandled, Host
  <2> QED
    BY <1>5, <2>1, <2>2, <2>7 DEF OnItsWay
<1>9. ~ForwarderGivesUp(m)
  <2>1. handler[conn].at # "done"
    BY <1>1 DEF HandlersInTime
  <2> QED
    BY <2>1, ForwarderGivesUpFacts
<1>10. CASE ForwarderPuts(m)
  <2>1. /\ UNCHANGED <<subReq, up, down>> /\ fwd[m].at = "put" /\ fwd'[m].at = "take"
        /\ \A j \in Kinds : j # m => fwd'[j] = fwd[j] /\ subResp'[j] = subResp[j]
        /\ subResp'[m] = <<Response(fwd[m].id, fwd[m].word)>>
    BY <1>10, ForwarderPutsFacts
  <2>2. m = k /\ Fetched(n, k)
    BY <1>3, <1>4, <2>1, WhichPlace
  <2>3. subResp'[k] = <<Response(n, Word(n))>> /\ Word(n)' = Word(n)
    BY <1>1, <2>1, <2>2 DEF Fetched, InHandOf, Word, Unsaid
  <2>4. Response(n, Word(n))' = Response(n, Word(n))
    BY <2>3 DEF Response
  <2>5. Returned(n, k)'
    BY <1>1, <2>1, <2>2, <2>3, <2>4 DEF Fetched, Returned, Sub, Wire, Unhandled, Host
  <2> QED
    BY <1>5, <2>1, <2>2, <2>5 DEF OnItsWay
<1> QED
  BY <1>6, <1>7, <1>8, <1>9, <1>10 DEF ForwarderStep

\* A place stays, as long as nothing of it changes.
LEMMA PlaceStays ==
  ASSUME NEW n, NEW k \in Kinds, OnItsWay(n, k), said'[n] = said[n], conn' = conn,
         UNCHANGED <<subReq, subResp, fwd, up, down, hostReq, hostResp, prompt>>,
         \/ handler'[conn] = handler[conn]
         \/ Unhandled /\ Unhandled'
  PROVE  OnItsWay(n, k)'
<1>1. Word(n)' = Word(n) /\ Unsaid(n)' = Unsaid(n)
  BY DEF Word, Unsaid
<1>2. Line(n, k)' = Line(n, k) /\ Response(n, Word(n))' = Response(n, Word(n))
  BY <1>1 DEF Line, Response
<1>3. /\ \A r, at, s : Sub(k, r, at, s) => Sub(k, r, at, s)'
      /\ \A u, d : Wire(u, d) => Wire(u, d)'
      /\ \A r, p, s : Host(k, r, p, s) => Host(k, r, p, s)'
      /\ InHandOf(k, n) => InHandOf(k, n)'
  BY DEF Sub, Wire, Host, InHandOf
<1> QED
  BY <1>1, <1>2
  DEF OnItsWay, Requested, Taken, Written, Received, Posted, Prompted, Answered, Replied, Fetched,
      Returned, Sub, Wire, Host, InHandOf, Handling, Unhandled

\* The handlers take the call at hand up to the user, and the answer down.
LEMMA HandlerStaysTidy ==
  ASSUME Typed, HandlersInTime, Tidy, NEW c \in Conns, HandlerStep(c) \/ HandlerSeesEnd(c),
         ~disturbed'
  PROVE  Tidy'
<1>1. /\ UNCHANGED <<calls, verdict, source, said, server, conn, alive, subReq, subResp, fwd, prompt>>
  BY HandlerLeavesThem DEF HandlerLeaves
<1>2. ~HandlerTimesOut(c)
  BY HandlerTimesOutFacts
<1>3. CASE server # "wait"
  <2>1. NothingUnderWay
    BY <1>3 DEF Tidy
  <2>2. HandlerEnds(c) \/ HandlerSeesEnd(c)
    BY <1>2, <2>1, NothingMoves DEF HandlerStep
  <2>3. /\ UNCHANGED <<up, down, hostReq, hostResp>> /\ handler'[c].at = "done"
        /\ \A d \in Conns : d # c => handler'[d] = handler[d]
    BY <2>2, HandlerEndsFacts
  <2>4. NothingUnderWay'
    BY <1>1, <2>1, <2>3 DEF NothingUnderWay, NoneOf, NoneOn
  <2> QED
    BY <1>1, <1>3, <2>4, CallsStay DEF Tidy, OwnAnswers, Unsaid
<1>4. CASE server = "wait"
  <2>1. /\ Current \in Calls /\ Current # 0 /\ KindOf(Current) \in Kinds /\ conn \in Conns
        /\ NoneBut(KindOf(Current)) /\ OnItsWay(Current, KindOf(Current)) /\ verdict[Current] = "open"
        /\ alive /\ stop = "no"
    BY <1>4, CallAtHand
  <2>2. ~ServerClosed /\ ~ChannelsClosed
    BY <2>1 DEF ServerClosed, ChannelsClosed
  <2>3. PICK n \in Calls, k \in Kinds : n = Current /\ k = KindOf(n)
    BY <2>1
  <2>4. ASSUME c = conn,
               \A d \in Conns : d # c => /\ up'[d] = up[d] /\ down'[d] = down[d]
                                         /\ handler'[d] = handler[d],
               \A j \in Kinds : j # k => hostReq'[j] = hostReq[j] /\ hostResp'[j] = hostResp[j],
               OnItsWay(n, k)'
        PROVE  Tidy'
    <3>1. NoneBut(k)'
      BY <1>1, <2>1, <2>3, <2>4, OthersStay
    <3> QED
      BY <1>1, <1>4, <2>1, <2>3, <2>4, <3>1, GoesOn
  <2>5. CASE HandlerReads(c)
    <3>1. /\ UNCHANGED <<down, hostReq, hostResp>> /\ up[c] # <<>>
          /\ Shrinks(up'[c], up[c]) /\ \A d \in Conns : d # c => up'[d] = up[d]
          /\ handler'[c].at = "send" /\ handler'[c].id = Head(up[c])
          /\ \A d \in Conns : d # c => handler'[d] = handler[d]
      BY <2>5, HandlerReadsFacts
    <3>2. c = conn /\ Written(n, k)
      BY <2>1, <2>3, <3>1, WhichPlace
    <3>3. up[c] = <<n>>
      BY <3>2 DEF Written, Wire
    <3>4. up'[c] = <<>> /\ handler'[c].id = n
      BY <3>1, <3>3 DEF Shrinks
    <3>5. Received(n, k)'
      BY <1>1, <3>1, <3>2, <3>4
      DEF Written, Received, InHandOf, Unsaid, Sub, Wire, Handling, Host
    <3> QED
      BY <2>4, <3>1, <3>2, <3>5 DEF OnItsWay
  <2>6. CASE HandlerSends(c)
    <3>1. handler[c].at = "send"
      BY <2>6, HandlerSendsFacts
    <3>2. c = conn /\ Received(n, k)
      BY <2>1, <2>3, <3>1, WhichPlace
    <3>3. handler[c].id = n /\ hostReq[k] = <<>>
      BY <3>2 DEF Received, Handling, Host
    <3>4. ~Full(hostReq[k])
      BY <3>3 DEF Full, ChannelBuffer
    <3>5. /\ UNCHANGED <<up, down, hostResp>> /\ hostReq'[k] = <<n>>
          /\ \A j \in Kinds : j # k => hostReq'[j] = hostReq[j]
          /\ handler'[c].at = "wait" /\ handler'[c].id = n
          /\ \A d \in Conns : d # c => handler'[d] = handler[d]
      BY <2>2, <2>3, <2>6, <3>3, <3>4, HandlerSendsFacts
    <3>6. Posted(n, k)'
      BY <1>1, <3>2, <3>5
      DEF Received, Posted, InHandOf, Unsaid, Sub, Wire, Handling, Host
    <3> QED
      BY <2>4, <3>2, <3>5, <3>6 DEF OnItsWay
  <2>7. CASE HandlerReceives(c)
    <3>1. /\ UNCHANGED <<up, hostReq>> /\ handler[c].at = "wait" /\ Returns(c)
      BY <2>7, HandlerReceivesFacts
    <3>2. c = conn /\ handler[c].id = n
      BY <2>1, <2>3, <3>1, WhichPlace
    <3>3. PICK r \in Responses :
            /\ hostResp[k] = <<r>> /\ Writes(c, k, r.id, r.word) /\ hostResp'[k] = <<>>
            /\ \A j \in Kinds : j # k => hostResp'[j] = hostResp[j]
      BY <2>2, <2>3, <2>7, <3>2, HandlerReceivesFacts
    <3>4. hostResp[k] # <<>>
      BY <3>3
    <3>5. Answered(n, k)
      BY <2>1, <2>3, <3>1, <3>2, <3>4, WhichPlace
    <3>6. r.id = n /\ r.word = Word(n)
      <4>1. <<r>> = <<Response(n, Word(n))>>
        BY <3>3, <3>5 DEF Answered, Host
      <4>2. r = Response(n, Word(n))
        BY <4>1
      <4> QED
        BY <4>2 DEF Response
    <3>7. r.id \in Ids /\ r.word \in Words
      BY DEF Responses
    <3>8. /\ handler'[c].at = "read" /\ \A d \in Conns : d # c => handler'[d] = handler[d]
          /\ \A d \in Conns : d # c => down'[d] = down[d]
          /\ \E line \in Lines : /\ line = [kind |-> k, id |-> r.id, word |-> r.word]
                                 /\ Grows(down'[c], down[c], line)
      BY <2>2, <3>1, <3>3, <3>7, AnswersFacts
    <3>9. down'[c] = <<Line(n, k)>>
      <4>1. down[c] = <<>>
        BY <3>2, <3>5 DEF Answered, Wire
      <4> QED
        BY <3>6, <3>8, <4>1 DEF Grows, Line
    <3>10. Line(n, k)' = Line(n, k)
      BY <1>1 DEF Line, Word, Unsaid
    <3>11. Replied(n, k)'
      BY <1>1, <3>1, <3>2, <3>3, <3>5, <3>8, <3>9, <3>10
      DEF Answered, Replied, InHandOf, Sub, Wire, Unhandled, Handling, Host
    <3> QED
      BY <2>4, <3>1, <3>2, <3>3, <3>8, <3>11 DEF OnItsWay
  <2>8. CASE HandlerEnds(c) \/ HandlerSeesEnd(c)
    <3>1. c # conn /\ HandlerSeesEnd(c)
      BY <2>1, <2>2, <2>8 DEF HandlerEnds, HandlerSeesEnd
    <3>2. /\ UNCHANGED <<up, down, hostReq, hostResp>> /\ handler'[c].at = "done"
          /\ \A d \in Conns : d # c => handler'[d] = handler[d]
      BY <2>8, HandlerEndsFacts
    <3>3. NoneBut(k)'
      BY <1>1, <2>1, <2>3, <3>2 DEF NoneBut, NoneOf, NoneOn
    <3>4. handler'[conn] = handler[conn]
      BY <2>1, <3>1, <3>2
    <3>5. OnItsWay(n, k)'
      BY <1>1, <2>1, <2>3, <3>2, <3>4, PlaceStays
    <3> QED
      BY <1>1, <1>4, <2>1, <2>3, <3>3, <3>5, GoesOn
  <2> QED
    BY <1>2, <2>5, <2>6, <2>7, <2>8 DEF HandlerStep
<1> QED
  BY <1>3, <1>4

\* The user is shown the call at hand, and answers it.
LEMMA UserStaysTidy ==
  ASSUME Typed, Tidy, UserStep
  PROVE  Tidy'
<1>1. /\ UNCHANGED <<calls, verdict, source, server, conn, alive, subReq, subResp, fwd, up, down, handler>>
  BY UserFacts DEF UserLeaves
<1>2. server = "wait"
  BY NothingMoves DEF Tidy
<1>3. /\ Current \in Calls /\ Current # 0 /\ KindOf(Current) \in Kinds /\ conn \in Conns
      /\ NoneBut(KindOf(Current)) /\ OnItsWay(Current, KindOf(Current)) /\ verdict[Current] = "open"
      /\ stop = "no"
  BY <1>2, CallAtHand
<1>4. PICK n \in Calls, k \in Kinds : n = Current /\ k = KindOf(n)
  BY <1>3
<1>5. ASSUME \A j \in Kinds : j # k => /\ hostReq'[j] = hostReq[j] /\ hostResp'[j] = hostResp[j]
                                       /\ prompt'[j] = prompt[j],
             \A b \in Calls : b # n => said'[b] = said[b],
             OnItsWay(n, k)'
      PROVE  Tidy'
  <2>1. NoneBut(k)'
    BY <1>1, <1>3, <1>4, <1>5, OthersStay
  <2> QED
    BY <1>1, <1>2, <1>3, <1>4, <1>5, <2>1, GoesOn
<1>6. ASSUME NEW m \in Kinds, Shows(m)
      PROVE  Tidy'
  <2>1. PICK a \in Calls :
          /\ UNCHANGED <<said, hostResp>> /\ hostReq[m] = <<a>> /\ hostReq'[m] = <<>> /\ prompt'[m] = a
          /\ \A j \in Kinds : j # m => hostReq'[j] = hostReq[j] /\ prompt'[j] = prompt[j]
    BY <1>6, ShowsFacts
  <2>2. hostReq[m] # <<>>
    BY <2>1
  <2>3. m = k /\ Posted(n, k)
    BY <1>3, <1>4, <2>2, WhichPlace
  <2>4. a = n
    <3>1. <<a>> = <<n>>
      BY <2>1, <2>3 DEF Posted, Host
    <3> QED
      BY <3>1
  <2>5. Prompted(n, k)'
    BY <1>1, <2>1, <2>3, <2>4 DEF Posted, Prompted, InHandOf, Unsaid, Sub, Wire, Handling, Host
  <2> QED
    BY <1>5, <2>1, <2>3, <2>5 DEF OnItsWay
<1>7. ASSUME NEW m \in Kinds, NEW word \in {"yes", "always", "no"}, SendResponse(m, word)
      PROVE  Tidy'
  <2>1. PICK a \in Calls :
          /\ hostReq' = hostReq /\ prompt[m] = a /\ prompt'[m] = 0
          /\ \A j \in Kinds : j # m => prompt'[j] = prompt[j]
          /\ said'[a] = word /\ \A b \in Calls : b # a => said'[b] = said[b]
          /\ \/ hostResp' = hostResp /\ (ServerClosed \/ Full(hostResp[m]))
             \/ /\ \A j \in Kinds : j # m => hostResp'[j] = hostResp[j]
                /\ hostResp'[m] = <<Response(a, word)>>
    BY <1>7, SendResponseFacts
  <2>2. prompt[m] # 0
    BY <2>1, CallNumbers DEF Typed
  <2>3. m = k /\ Prompted(n, k)
    BY <1>3, <1>4, <2>2, WhichPlace
  <2>4. a = n /\ hostResp[k] = <<>>
    BY <2>1, <2>3 DEF Prompted, Host
  <2>5. ~ServerClosed /\ ~Full(hostResp[m])
    BY <1>3, <2>3, <2>4 DEF ServerClosed, Full, ChannelBuffer
  <2>6. ~Unsaid(n)' /\ Word(n)' = word
    BY <2>1, <2>4 DEF Word, Unsaid
  <2>7. Response(n, Word(n))' = Response(a, word)
    BY <2>4, <2>6 DEF Response
  <2>8. Answered(n, k)'
    BY <1>1, <2>1, <2>3, <2>5, <2>6, <2>7
    DEF Prompted, Answered, InHandOf, Sub, Wire, Handling, Host
  <2> QED
    BY <1>5, <2>1, <2>3, <2>4, <2>5, <2>8 DEF OnItsWay
<1> QED
  BY <1>6, <1>7, UserFacts

\* A subprocess that dies without disturbing a call had none at hand.
LEMMA LifeStaysTidy ==
  ASSUME Typed, HandlersInTime, Tidy, LifeStep, ~disturbed'
  PROVE  Tidy'
<1>1. /\ UNCHANGED <<calls, source, said, up, down, hostReq, hostResp, prompt>>
      /\ \A d \in Conns : handler'[d] = handler[d] \/ handler'[d].at \notin {"send", "wait"}
      /\ \/ UNCHANGED <<verdict, server, allowed, subReq, subResp, fwd, disturbed>>
         \/ SubprocessDies /\ alive
  BY LifeFacts
<1>2. CASE SubprocessDies
  <2>1. /\ server' = "read" /\ \A a \in Calls : verdict[a] # "open" /\ verdict'[a] = verdict[a]
        /\ \A k \in Kinds : subReq'[k] = <<>> /\ subResp'[k] = <<>> /\ fwd'[k].at = "take"
    BY <1>2, DiesFacts
  <2>2. server = "read"
    BY <2>1, CallNumbers DEF Typed, CallsTyped
  <2>3. NothingUnderWay'
    BY <1>1, <2>1, <2>2 DEF Tidy, NothingUnderWay, NoneOf, NoneOn
  <2> QED
    BY <1>1, <2>1, <2>3, CallsStay DEF Tidy, OwnAnswers
<1>3. CASE UNCHANGED <<verdict, server, subReq, subResp, fwd>> /\ server # "wait"
  <2>1. NothingUnderWay'
    BY <1>1, <1>3 DEF Tidy, NothingUnderWay, NoneOf, NoneOn
  <2> QED
    BY <1>1, <1>3, <2>1, CallsStay DEF Tidy, OwnAnswers, Unsaid
<1>4. CASE UNCHANGED <<verdict, server, subReq, subResp, fwd>> /\ server = "wait" /\ ~SubprocessDies
  <2>1. /\ Current \in Calls /\ Current # 0 /\ KindOf(Current) \in Kinds /\ conn \in Conns
        /\ NoneBut(KindOf(Current)) /\ OnItsWay(Current, KindOf(Current)) /\ verdict[Current] = "open"
        /\ alive /\ stop = "no"
    BY <1>4, CallAtHand
  <2>2. DialerStep
    BY <1>4, <2>1 DEF LifeStep, Crash, Connect, StopKills, StopCloses
  <2>3. /\ conn' = conn
        /\ handler' = handler \/ (handler[conn].at = "none" /\ handler'[conn].at = "read")
        /\ \A d \in Conns : d # conn => handler'[d] = handler[d]
    BY <2>2, DialerFacts
  <2>4. PICK n \in Calls, k \in Kinds : n = Current /\ k = KindOf(n)
    BY <2>1
  <2>5. NoneBut(k)'
    BY <1>1, <1>4, <2>1, <2>3, <2>4, OthersStay
  <2>6. OnItsWay(n, k)'
    <3>1. handler'[conn] = handler[conn] \/ (Unhandled /\ Unhandled')
      BY <2>3 DEF Unhandled
    <3> QED
      BY <1>1, <1>4, <2>1, <2>3, <2>4, <3>1, PlaceStays
  <2> QED
    BY <1>1, <1>4, <2>1, <2>4, <2>5, <2>6, GoesOn
<1> QED
  BY <1>1, <1>2, <1>3, <1>4

\* Once disturbed, the relay stays so.
LEMMA DisturbedStays ==
  ASSUME Typed, disturbed, [Next]_vars
  PROVE  disturbed'
<1>1. CASE UNCHANGED vars \/ ReadCall \/ ServerStep \/ UserStep
  BY <1>1, ReadCallFacts, ServerSendsFacts, ServerReceivesFacts, ServerTimesOutFacts, UserFacts
  DEF vars, ServerStep, UserLeaves
<1>2. ASSUME NEW k \in Kinds, ForwarderStep(k)
      PROVE  disturbed'
  BY <1>2, ForwarderTakesFacts, ForwarderWritesFacts, ReadsFacts, ForwarderGivesUpFacts,
     ForwarderPutsFacts DEF ForwarderStep
<1>3. ASSUME NEW c \in Conns, HandlerStep(c) \/ HandlerSeesEnd(c)
      PROVE  disturbed'
  BY <1>3, HandlerReadsFacts, HandlerSendsFacts, HandlerReceivesFacts, HandlerTimesOutFacts,
     HandlerEndsFacts DEF HandlerStep
<1>4. CASE LifeStep
  BY <1>4, LifeFacts, DiesFacts DEF SubprocessDies
<1> QED
  BY <1>1, <1>2, <1>3, <1>4 DEF Next

LEMMA NextStaysTidy ==
  ASSUME Typed, HandlersInTime, Tidy, ~disturbed', [Next]_vars
  PROVE  Tidy'
<1>1. CASE ReadCall \/ ServerStep \/ UserStep
  BY <1>1, ReadCallStaysTidy, ServerSendsStaysTidy, ServerReceivesStaysTidy, ServerTimesOutFacts,
     UserStaysTidy DEF ServerStep
<1>2. ASSUME NEW k \in Kinds, ForwarderStep(k)
      PROVE  Tidy'
  BY <1>2, ForwarderStaysTidy
<1>3. ASSUME NEW c \in Conns, HandlerStep(c) \/ HandlerSeesEnd(c)
      PROVE  Tidy'
  BY <1>3, HandlerStaysTidy
<1>4. CASE LifeStep
  BY <1>4, LifeStaysTidy
<1>5. CASE UNCHANGED vars
  <2>1. /\ UNCHANGED <<calls, verdict, source, said, server, conn, subReq, subResp, fwd, up, down>>
        /\ UNCHANGED <<handler, hostReq, hostResp, prompt>>
    BY <1>5 DEF vars, callVars, subVars, connVars, wireVars, hostVars, userVars
  <2>2. CASE server # "wait"
    <3>1. NothingUnderWay'
      BY <2>1, <2>2 DEF Tidy, NothingUnderWay, NoneOf, NoneOn
    <3> QED
      BY <2>1, <2>2, <3>1, CallsStay DEF Tidy, OwnAnswers, Unsaid
  <2>3. CASE server = "wait"
    <3>1. /\ Current \in Calls /\ KindOf(Current) \in Kinds /\ verdict[Current] = "open"
          /\ NoneBut(KindOf(Current)) /\ OnItsWay(Current, KindOf(Current))
      BY <2>3, CallAtHand
    <3>2. PICK n \in Calls, k \in Kinds : n = Current /\ k = KindOf(n)
      BY <3>1
    <3>3. NoneBut(k)'
      BY <2>1, <3>1, <3>2, OthersStay
    <3>4. OnItsWay(n, k)'
      BY <2>1, <3>1, <3>2, PlaceStays
    <3> QED
      BY <2>1, <2>3, <3>1, <3>2, <3>3, <3>4, GoesOn
  <2> QED
    BY <2>2, <2>3
<1> QED
  BY <1>1, <1>2, <1>3, <1>4, <1>5 DEF Next

LEMMA InitOrder == Init => OrderInv
<1> SUFFICES ASSUME Init
             PROVE  OrderInv
  OBVIOUS
<1>1. XInv
  BY InitTyped, InitExchange DEF XInv
<1>2. /\ Calls = {} /\ server = "read" /\ conn = 1 /\ conn \in Conns
      /\ \A c \in Conns : up[c] = <<>> /\ down[c] = <<>>
      /\ \A c \in Conns : handler[c].at = IF c = 1 /\ ~Containerized THEN "read" ELSE "none"
      /\ \A k \in Kinds : /\ subReq[k] = <<>> /\ subResp[k] = <<>> /\ fwd[k].at = "take"
                          /\ hostReq[k] = <<>> /\ hostResp[k] = <<>> /\ prompt[k] = 0
  BY BoundsAssumption DEF Init, SubprocessInit, ConnectionInit, RunnerInit, Calls, Current, Conns, Empty, Idle
<1>3. HandlersInTime
  BY <1>2 DEF HandlersInTime, Conns
<1>4. NothingUnderWay
  BY <1>2 DEF NothingUnderWay, NoneOf, NoneOn
<1>5. Tidy
  BY <1>2, <1>4 DEF Tidy, OwnAnswers
<1> QED
  BY <1>1, <1>3, <1>5 DEF OrderInv, TidyUntilDisturbed

LEMMA NextKeepsOrder == OrderInv /\ [Next]_vars => OrderInv'
<1> SUFFICES ASSUME OrderInv, [Next]_vars
             PROVE  OrderInv'
  OBVIOUS
<1>1. Typed /\ HandlersInTime
  BY DEF OrderInv, XInv
<1>2. XInv'
  BY NextKeepsExchange DEF OrderInv
<1>3. HandlersInTime'
  BY <1>1, NextKeepsHandlersInTime
<1>4. TidyUntilDisturbed'
  BY <1>1, DisturbedStays, NextStaysTidy DEF OrderInv, TidyUntilDisturbed
<1> QED
  BY <1>2, <1>3, <1>4 DEF OrderInv

\* Nothing compares the ID of a response with that of a request, and with any number of kinds,
\* calls and generations nothing need: until a wait times out or a connection is lost with a call
\* open, each answer of the user goes to the call it was given for, and none is lost.
THEOREM AnswersInOrder == Spec => []InOrderUntilDisturbed
<1>1. OrderInv => InOrderUntilDisturbed
  <2> SUFFICES ASSUME OrderInv, ~disturbed
               PROVE  \A c \in DOMAIN calls :
                        /\ source[c] \in {0, c}
                        /\ said[c] # "nothing" => source[c] = c \/ verdict[c] = "open"
    BY DEF InOrderUntilDisturbed
  <2>1. Typed /\ OwnAnswers
    BY DEF OrderInv, XInv, TidyUntilDisturbed, Tidy
  <2>2. DOMAIN calls = Calls
    BY <2>1, SpentFacts
  <2> QED
    BY <2>1, <2>2 DEF OwnAnswers
<1> QED
  BY <1>1, InitOrder, NextKeepsOrder, PTL DEF Spec
=============================================================================
