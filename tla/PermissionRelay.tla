--------------------------- MODULE PermissionRelay ---------------------------
(***************************************************************************)
(* The relay between Claude and the user (src/mcp/server.go, socket.go,    *)
(* channel_pair.go, and the channels and Stop of src/claude): the MCP      *)
(* server in a subprocess of Claude, its forwarders, the connection to the *)
(* host, one handler per connection there, the channel pairs of the Runner *)
(* and the TUI.  There is one forwarder and one channel pair per kind of   *)
(* request: "permission", "question", "plan" (plan approval), "child" (the *)
(* three supervisor tools) and "host" (the three host tools).              *)
(*                                                                         *)
(* Calls are numbered as Claude makes them, and a number stands for the    *)
(* request made of it: it is the ID a request carries and its response     *)
(* copies.  A connection is a generation of the subprocess.  Every timeout *)
(* may fire whenever its select is blocked.                                *)
(***************************************************************************)
EXTENDS Naturals, Sequences, FiniteSets

CONSTANTS
  Kinds,             \* the kinds of request that Claude makes
  Offered,           \* the tools whose channels exist: SetSupervisor, SetHostTools
  Tools,             \* the tools Claude asks a permission for
  InitiallyAllowed,  \* the --allowed-tools of the subprocess; --auto-approve: all
  Containerized,     \* the host dials into the subprocess, which listens
  MaxCalls,          \* bound: calls that Claude makes
  MaxConns           \* bound: generations of the subprocess

ASSUME KindsAssumption ==
  Kinds \subseteq {"permission", "question", "plan", "child", "host"}
ASSUME OfferedAssumption == Offered \subseteq {"child", "host"}
ASSUME ToolsAssumption == "none" \notin Tools /\ InitiallyAllowed \subseteq Tools
ASSUME ContainerizedAssumption == Containerized \in BOOLEAN
ASSUME BoundsAssumption == MaxCalls \in Nat \ {0} /\ MaxConns \in Nat \ {0}

ChannelBuffer == 1   \* claude.PermissionChannelBuffer
Conns == 1..MaxConns
Ids   == 0..MaxCalls \* 0 in a response made up for want of one: no request
Words == {"yes", "always", "no", "none"} \* "none": no word of the user

VARIABLES
  \* The subprocess of the current connection.
  calls,    \* the calls read so far: a sequence of [kind, tool]
  verdict,  \* what Claude was told: "open", "allowed", "denied" or "lost"
  source,   \* the request whose answer that was, 0 if no answer of the user
  server,   \* the server loop: "read", "send" or "wait"
  allowed,  \* Server.allowedTools
  subReq, subResp, \* the channel pairs between the server and its forwarders
  fwd,      \* the forwarders: [at, id, word], at "take", "write", "read", "put"
  \* The connections.
  conn, alive,     \* the newest one, and whether its subprocess lives
  dialer,          \* connectToContainerMCP: [at, conn], at "dial", "serve", "off"
  up, down,        \* the requests and responses on each
  \* The host.
  handler,  \* handleConnection: [at, id], at "none", "read", "send", "wait", "done"
  hostReq, hostResp, \* the channel pairs of the Runner
  prompt,   \* the request the TUI shows, per kind; 0 is none
  said,     \* what the user has said to each call
  stop,     \* Runner.Stop: "no", "killed", "closing" or "done"
  panicked, \* a handler has sent on a closed channel, which ends the program
  \* History.
  disturbed \* a wait has timed out, or a connection was lost with a call open

subVars  == <<server, allowed, subReq, subResp, fwd>>
callVars == <<calls, verdict, source>>
connVars == <<conn, alive, dialer>>
wireVars == <<up, down>>
hostVars == <<handler, hostReq, hostResp>>
userVars == <<prompt, said>>
stopVars == <<stop, panicked>>
vars == <<callVars, subVars, connVars, wireVars, hostVars, userVars, stopVars,
          disturbed>>

Current == Len(calls)
KindOf(id) == calls[id].kind
Full(channel) == Len(channel) = ChannelBuffer
Response(id, word) == [id |-> id, word |-> word]
Idle == [at |-> "take", id |-> 0, word |-> "none"]
ServerClosed == stop \in {"closing", "done"}
ChannelsClosed == stop = "done"
Empty == [k \in Kinds |-> <<>>]

SubprocessInit ==
  /\ calls = <<>> /\ verdict = <<>> /\ source = <<>>
  /\ server = "read" /\ allowed = InitiallyAllowed
  /\ subReq = Empty /\ subResp = Empty /\ fwd = [k \in Kinds |-> Idle]

\* In a container the subprocess listens, and the host dials; else it has
\* connected to the socket by the time it reads calls.
ConnectionInit ==
  /\ conn = 1 /\ alive = TRUE
  /\ up = [c \in Conns |-> <<>>] /\ down = [c \in Conns |-> <<>>]
  /\ handler = [c \in Conns |->
                  [at |-> IF c = 1 /\ ~Containerized THEN "read" ELSE "none", id |-> 0]]
  /\ dialer = [at |-> IF Containerized THEN "dial" ELSE "off", conn |-> 0]

RunnerInit ==
  /\ hostReq = Empty /\ hostResp = Empty
  /\ prompt = [k \in Kinds |-> 0] /\ said = <<>>
  /\ stop = "no" /\ panicked = FALSE

Init == SubprocessInit /\ ConnectionInit /\ RunnerInit /\ disturbed = FALSE

-----------------------------------------------------------------------------
(* The server loop: one call at a time. *)

NewCall(kind, tool, v) ==
  /\ calls' = Append(calls, [kind |-> kind, tool |-> tool])
  /\ verdict' = Append(verdict, v)
  /\ source' = Append(source, 0)
  /\ said' = Append(said, "nothing")

Asks(kind, tool) == NewCall(kind, tool, "open") /\ server' = "send"
Settles(kind, tool, v) == NewCall(kind, tool, v) /\ UNCHANGED server

\* The plural tools themselves are always allowed: Claude asks no permission
\* for them in this model.
IsToolAllowed(tool) == tool \in allowed
AddAllowedTool(tool) == allowed' = allowed \cup {tool}

PermissionToolCall ==
  \E tool \in Tools :
    IF IsToolAllowed(tool) THEN Settles("permission", tool, "allowed")
    ELSE Asks("permission", tool)

\* The questions may be missing or malformed.
AskUserQuestion == Asks("question", "none") \/ Settles("question", "none", "denied")

ExitPlanMode == Asks("plan", "none")

\* A required argument may be missing.
ToolCall(kind) ==
  \/ kind \in Offered /\ Asks(kind, "none")
  \/ Settles(kind, "none", "denied")

ReadCall ==
  /\ alive /\ handler[conn].at # "none" /\ server = "read" /\ Current < MaxCalls
  /\ \/ "permission" \in Kinds /\ PermissionToolCall
     \/ "question" \in Kinds /\ AskUserQuestion
     \/ "plan" \in Kinds /\ ExitPlanMode
     \/ \E kind \in Kinds \cap {"child", "host"} : ToolCall(kind)
  /\ UNCHANGED <<allowed, subReq, subResp, fwd, connVars, wireVars, hostVars,
                 prompt, stopVars, disturbed>>

\* Mutant of Replies: what is not refused is allowed, the answer made up for a
\* failed exchange with it.
RepliesUnlessRefused(id, word) ==
  /\ verdict' = [verdict EXCEPT ![Current] = IF word = "no" THEN "denied" ELSE "allowed"]
  /\ source' = [source EXCEPT ![Current] = IF word = "none" THEN 0 ELSE id]
  /\ server' = "read"

\* The result of the current call.  Only a question goes back as allowed
\* whatever the answer: with the answers, of which there may be none.
Replies(id, word) ==
  LET proceeds == word \in {"yes", "always"} \/ KindOf(Current) = "question"
  IN /\ verdict' = [verdict EXCEPT ![Current] =
                      IF proceeds THEN "allowed" ELSE "denied"]
     /\ source' = [source EXCEPT ![Current] = IF word = "none" THEN 0 ELSE id]
     /\ server' = "read"

\* Mutant of GivesUp: a timeout is logged and no result is sent.
GivesUpSilently == server' = "read" /\ UNCHANGED <<verdict, source>>

\* When the server itself gives up, a question is denied as the others are.
GivesUp ==
  /\ verdict' = [verdict EXCEPT ![Current] = "denied"]
  /\ server' = "read"
  /\ UNCHANGED source

ServerSends ==
  /\ alive /\ server = "send"
  /\ LET k == KindOf(Current)
     IN \/ /\ ~Full(subReq[k])
           /\ subReq' = [subReq EXCEPT ![k] = Append(@, Current)]
           /\ server' = "wait"
           /\ UNCHANGED <<verdict, source>>
        \/ /\ Full(subReq[k]) \* for ChannelSendTimeout
           /\ GivesUp /\ UNCHANGED subReq
  /\ UNCHANGED <<calls, allowed, subResp, fwd, connVars, wireVars, hostVars,
                 userVars, stopVars, disturbed>>

\* addAllowedTool takes the tool of the call at hand, not that of the answer.
ServerReceives ==
  /\ alive /\ server = "wait"
  /\ LET k == KindOf(Current)
         resp == Head(subResp[k])
     IN /\ subResp[k] # <<>>
        /\ subResp' = [subResp EXCEPT ![k] = Tail(@)]
        /\ Replies(resp.id, resp.word)
        /\ IF k = "permission" /\ resp.word = "always"
           THEN AddAllowedTool(calls[Current].tool) ELSE UNCHANGED allowed
  /\ UNCHANGED <<calls, subReq, fwd, connVars, wireVars, hostVars, userVars,
                 stopVars, disturbed>>

\* ChannelReceiveTimeout, HostToolReceiveTimeout
ServerTimesOut ==
  /\ alive /\ server = "wait"
  /\ GivesUp /\ disturbed' = TRUE
  /\ UNCHANGED <<calls, allowed, subReq, subResp, fwd, connVars, wireVars,
                 hostVars, userVars, stopVars>>

-----------------------------------------------------------------------------
(* The forwarder of kind k: ForwardRequests and sendSocketRequest.  All of   *)
(* them write to and read from the one connection, without a lock.          *)

Forwards(k, at, id, word) == fwd' = [fwd EXCEPT ![k] = [at |-> at, id |-> id, word |-> word]]

\* errRespFn answers in place of the user, for the request at hand.
ForwarderFails(k) == Forwards(k, "put", fwd[k].id, "none")

ForwarderTakes(k) ==
  /\ fwd[k].at = "take" /\ subReq[k] # <<>>
  /\ subReq' = [subReq EXCEPT ![k] = Tail(@)]
  /\ Forwards(k, "write", Head(subReq[k]), "none")
  /\ UNCHANGED <<subResp, wireVars, disturbed>>

\* Mutant of ForwarderWrites: a request is written a second time, as a retry.
ForwarderWritesTwice(k) ==
  /\ fwd[k].at = "write"
  /\ up' = [up EXCEPT ![conn] = @ \o <<fwd[k].id, fwd[k].id>>]
  /\ Forwards(k, "read", fwd[k].id, "none")
  /\ UNCHANGED <<subReq, subResp, down, disturbed>>

\* A write to a connection the host has closed fails.
ForwarderWrites(k) ==
  /\ fwd[k].at = "write"
  /\ IF handler[conn].at = "done"
     THEN ForwarderFails(k) /\ UNCHANGED up
     ELSE /\ up' = [up EXCEPT ![conn] = Append(@, fwd[k].id)]
          /\ Forwards(k, "read", fwd[k].id, "none")
  /\ UNCHANGED <<subReq, subResp, down, disturbed>>

\* The next line on the connection, whichever request it answers; a line of
\* another kind is an error, and the line is gone.
ForwarderReads(k) ==
  /\ fwd[k].at = "read" /\ down[conn] # <<>>
  /\ LET line == Head(down[conn])
     IN IF line.kind = k THEN Forwards(k, "put", line.id, line.word)
        ELSE ForwarderFails(k)
  /\ down' = [down EXCEPT ![conn] = Tail(@)]
  /\ UNCHANGED <<subReq, subResp, up, disturbed>>

\* Two forwarders in ReadString on one bufio.Reader: a data race.  Beside the
\* orderly outcome a line can be torn, so that it does not parse, or be
\* handed to the one and found again by the other.
ForwardersRace(k) ==
  /\ fwd[k].at = "read" /\ down[conn] # <<>>
  /\ \E other \in Kinds \ {k} : fwd[other].at = "read"
  /\ LET line == Head(down[conn])
     IN \/ ForwarderFails(k) /\ down' = [down EXCEPT ![conn] = Tail(@)]
        \/ /\ line.kind = k
           /\ \E other \in Kinds \ {k} :
                /\ fwd[other].at = "read"
                /\ fwd' = [fwd EXCEPT ![k] = [at |-> "put", id |-> line.id, word |-> line.word],
                                      ![other].at = "put"]
           /\ down' = [down EXCEPT ![conn] = Tail(@)]
  /\ UNCHANGED <<subReq, subResp, up, disturbed>>

\* HostToolResponseTimeout; the other requests read without a deadline.
HasReadDeadline(k) == k = "host"

\* The host has closed the connection, or the read deadline has passed.
ForwarderGivesUp(k) ==
  /\ fwd[k].at = "read"
  /\ \/ handler[conn].at = "done" /\ down[conn] = <<>> /\ UNCHANGED disturbed
     \/ HasReadDeadline(k) /\ disturbed' = TRUE
  /\ ForwarderFails(k)
  /\ UNCHANGED <<subReq, subResp, wireVars>>

ForwarderPuts(k) ==
  /\ fwd[k].at = "put" /\ ~Full(subResp[k])
  /\ subResp' = [subResp EXCEPT ![k] = Append(@, Response(fwd[k].id, fwd[k].word))]
  /\ fwd' = [fwd EXCEPT ![k] = Idle]
  /\ UNCHANGED <<subReq, wireVars, disturbed>>

ForwarderStep(k) ==
  /\ alive
  /\ \/ ForwarderTakes(k) \/ ForwarderWrites(k) \/ ForwarderReads(k)
     \/ ForwardersRace(k) \/ ForwarderGivesUp(k) \/ ForwarderPuts(k)
  /\ UNCHANGED <<callVars, server, allowed, connVars, hostVars, userVars, stopVars>>

-----------------------------------------------------------------------------
(* The host: one goroutine per connection, handleConnection.                *)

At(c, at, id) == handler' = [handler EXCEPT ![c] = [at |-> at, id |-> id]]

\* Before the next message the handler looks whether the server is closed.
Returns(c) == IF ServerClosed THEN At(c, "done", 0) ELSE At(c, "read", 0)

Writes(c, k, id, word) ==
  down' = [down EXCEPT ![c] = Append(@, [kind |-> k, id |-> id, word |-> word])]

HandlerReads(c) ==
  /\ handler[c].at = "read" /\ up[c] # <<>>
  /\ up' = [up EXCEPT ![c] = Tail(@)]
  /\ At(c, "send", Head(up[c]))
  /\ UNCHANGED <<down, hostReq, hostResp, panicked, disturbed>>

\* The handler holds a copy of the channels: once Stop has closed them, a
\* handler that is in the select of its send panics.
HandlerSends(c) ==
  /\ handler[c].at = "send"
  /\ LET k == KindOf(handler[c].id)
     IN \/ /\ ~ChannelsClosed /\ ~Full(hostReq[k])
           /\ hostReq' = [hostReq EXCEPT ![k] = Append(@, handler[c].id)]
           /\ At(c, "wait", handler[c].id)
           /\ UNCHANGED <<down, panicked>>
        \/ /\ ~ChannelsClosed /\ Full(hostReq[k]) \* for SocketReadTimeout
           /\ Writes(c, k, handler[c].id, "none")
           /\ Returns(c)
           /\ UNCHANGED <<hostReq, panicked>>
        \/ /\ ChannelsClosed /\ panicked' = TRUE
           /\ UNCHANGED <<handler, hostReq, down>>
  /\ UNCHANGED <<up, hostResp, disturbed>>

\* The next response on the channel, whichever request it answers; a closed
\* and empty channel yields the zero response.
HandlerReceives(c) ==
  /\ handler[c].at = "wait"
  /\ LET k == KindOf(handler[c].id)
     IN IF hostResp[k] # <<>>
        THEN /\ Writes(c, k, Head(hostResp[k]).id, Head(hostResp[k]).word)
             /\ hostResp' = [hostResp EXCEPT ![k] = Tail(@)]
        ELSE /\ ChannelsClosed
             /\ Writes(c, k, 0, "none")
             /\ UNCHANGED hostResp
  /\ Returns(c)
  /\ UNCHANGED <<up, hostReq, panicked, disturbed>>

\* PermissionResponseTimeout, HostToolResponseTimeout
HandlerTimesOut(c) ==
  /\ handler[c].at = "wait"
  /\ Writes(c, KindOf(handler[c].id), handler[c].id, "none")
  /\ Returns(c)
  /\ disturbed' = TRUE
  /\ UNCHANGED <<up, hostReq, hostResp, panicked>>

\* Mutant of HandlerEnds: a read timeout only reads again.
HandlerReadsOn(c) == FALSE /\ UNCHANGED <<handler, wireVars, hostReq, hostResp, panicked, disturbed>>

\* The read timeout finds the server closed.
HandlerEnds(c) ==
  /\ handler[c].at = "read" /\ ServerClosed
  /\ At(c, "done", 0)
  /\ UNCHANGED <<wireVars, hostReq, hostResp, panicked, disturbed>>

HandlerStep(c) ==
  /\ \/ HandlerReads(c) \/ HandlerSends(c) \/ HandlerReceives(c)
     \/ HandlerTimesOut(c) \/ HandlerEnds(c)
  /\ UNCHANGED <<callVars, subVars, connVars, userVars, stop>>

\* The read of a handler fails once its subprocess has gone.
HandlerSeesEnd(c) ==
  /\ handler[c].at = "read" /\ up[c] = <<>>
  /\ c # conn \/ ~alive
  /\ At(c, "done", 0)
  /\ UNCHANGED <<callVars, subVars, connVars, wireVars, hostReq, hostResp,
                 userVars, stopVars, disturbed>>

-----------------------------------------------------------------------------
(* The TUI shows one request of a kind at a time, and responds with the ID  *)
(* of the request it shows.                                                 *)

Shows(k) ==
  /\ prompt[k] = 0 /\ hostReq[k] # <<>>
  /\ prompt' = [prompt EXCEPT ![k] = Head(hostReq[k])]
  /\ hostReq' = [hostReq EXCEPT ![k] = Tail(@)]
  /\ UNCHANGED <<said, hostResp>>

\* Mutant of SendResponse: the response is sent though the channel has no slot.
SendResponseAnyway(k, word) ==
  /\ k \in Kinds /\ prompt[k] # 0
  /\ said' = [said EXCEPT ![prompt[k]] = word]
  /\ hostResp' = IF ServerClosed THEN hostResp
                 ELSE [hostResp EXCEPT ![k] = Append(@, Response(prompt[k], word))]
  /\ prompt' = [prompt EXCEPT ![k] = 0]
  /\ UNCHANGED hostReq

\* The Send...Response methods drop a response the channel has no slot for.
SendResponse(k, word) ==
  /\ k \in Kinds /\ prompt[k] # 0
  /\ said' = [said EXCEPT ![prompt[k]] = word]
  /\ hostResp' = IF ServerClosed \/ Full(hostResp[k]) THEN hostResp
                 ELSE [hostResp EXCEPT ![k] = Append(@, Response(prompt[k], word))]
  /\ prompt' = [prompt EXCEPT ![k] = 0]
  /\ UNCHANGED hostReq

SendPromptResponse ==
  \/ \E word \in {"yes", "always", "no"} : SendResponse("permission", word)
  \/ SendResponse("question", "yes")
  \/ \E word \in {"yes", "no"} : SendResponse("plan", word)

SendSupervisorResponse == \E word \in {"yes", "no"} : SendResponse("child", word)
SendHostToolResponse   == \E word \in {"yes", "no"} : SendResponse("host", word)

UserStep ==
  /\ \/ \E k \in Kinds : Shows(k)
     \/ SendPromptResponse \/ SendSupervisorResponse \/ SendHostToolResponse
  /\ UNCHANGED <<callVars, subVars, connVars, wireVars, handler, stopVars, disturbed>>

-----------------------------------------------------------------------------
(* Claude ends, by itself or because Runner.Stop kills it, and is started   *)
(* anew; Stop then closes the socket server and the channels.               *)

SubprocessDies ==
  /\ alive' = FALSE
  /\ verdict' = [c \in DOMAIN verdict |->
                   IF verdict[c] = "open" THEN "lost" ELSE verdict[c]]
  /\ disturbed' = (disturbed \/ \E c \in DOMAIN verdict : verdict[c] = "open")
  /\ server' = "read" /\ allowed' = InitiallyAllowed
  /\ subReq' = Empty /\ subResp' = Empty /\ fwd' = [k \in Kinds |-> Idle]

Crash ==
  /\ alive /\ stop = "no" /\ conn < MaxConns
  /\ SubprocessDies
  /\ UNCHANGED <<calls, source, conn, dialer, wireVars, hostVars, userVars, stopVars>>

\* On the host the new subprocess connects to the socket.  In a container it
\* waits to be dialed, and only a new ProcessManager has somebody dial: a
\* restart by handleExit has not.
Connect ==
  /\ ~alive /\ stop = "no"
  /\ conn' = conn + 1 /\ alive' = TRUE
  /\ IF Containerized
     THEN /\ \/ UNCHANGED dialer
             \/ dialer.at = "off" /\ dialer' = [at |-> "dial", conn |-> 0]
          /\ UNCHANGED handler
     ELSE At(conn + 1, "read", 0) /\ UNCHANGED dialer
  /\ UNCHANGED <<callVars, subVars, wireVars, hostReq, hostResp, userVars,
                 stopVars, disturbed>>

Dials ==
  /\ dialer.at = "dial" /\ ~ServerClosed
  /\ alive /\ handler[conn].at = "none"
  /\ At(conn, "read", 0)
  /\ dialer' = [at |-> "serve", conn |-> conn]

\* All attempts spent, or the Runner stopped.
DialerGivesUp ==
  /\ dialer.at = "dial"
  /\ ~alive \/ ServerClosed
  /\ dialer' = [at |-> "off", conn |-> 0]
  /\ UNCHANGED handler

\* A connection that ends at once was none: the dialer tries again.  One that
\* has lasted for two seconds was the session's, and the dialer is done.
DialerReturns ==
  /\ dialer.at = "serve" /\ handler[dialer.conn].at = "done"
  /\ \E at \in {"dial", "off"} : dialer' = [at |-> at, conn |-> 0]
  /\ UNCHANGED handler

DialerStep ==
  /\ Dials \/ DialerGivesUp \/ DialerReturns
  /\ UNCHANGED <<callVars, subVars, conn, alive, wireVars, hostReq, hostResp,
                 userVars, stopVars, disturbed>>

StopKills ==
  /\ stop = "no" /\ stop' = "killed"
  /\ IF alive THEN SubprocessDies
     ELSE UNCHANGED <<alive, verdict, disturbed, subVars>>
  /\ UNCHANGED <<calls, source, conn, dialer, wireVars, hostVars, userVars, panicked>>

\* SocketServer.Close waits for its accept loop, not for the handlers.
StopCloses ==
  /\ \/ stop = "killed" /\ stop' = "closing"
     \/ stop = "closing" /\ stop' = "done"
  /\ UNCHANGED <<callVars, subVars, connVars, wireVars, hostVars, userVars,
                 panicked, disturbed>>

-----------------------------------------------------------------------------

ServerStep == ServerSends \/ ServerReceives \/ ServerTimesOut
LifeStep   == Crash \/ Connect \/ DialerStep \/ StopKills \/ StopCloses

Next ==
  /\ ~panicked
  /\ \/ ReadCall \/ ServerStep
     \/ \E k \in Kinds : ForwarderStep(k)
     \/ UserStep
     \/ \E c \in Conns : HandlerStep(c) \/ HandlerSeesEnd(c)
     \/ LifeStep

Spec == Init /\ [][Next]_vars

\* The program's goroutines and Stop, once begun, go on.  Claude and the user
\* need not, and a connection need not report the end of its subprocess.
Fairness ==
  /\ WF_vars(~panicked /\ ServerStep)
  /\ \A k \in Kinds : WF_vars(~panicked /\ ForwarderStep(k))
  /\ \A c \in Conns : WF_vars(~panicked /\ HandlerStep(c))
  /\ WF_vars(~panicked /\ DialerStep)
  /\ WF_vars(~panicked /\ StopCloses)

FairSpec == Spec /\ Fairness

-----------------------------------------------------------------------------

Lines == [kind : Kinds, id : Ids, word : Words]

TypeOK ==
  /\ calls \in Seq([kind : Kinds, tool : Tools \cup {"none"}]) /\ Current <= MaxCalls
  /\ verdict \in [1..Current -> {"open", "allowed", "denied", "lost"}]
  /\ source \in [1..Current -> Ids]
  /\ said \in [1..Current -> {"nothing", "yes", "always", "no"}]
  /\ server \in {"read", "send", "wait"}
  /\ server # "read" => Current > 0 /\ verdict[Current] = "open"
  /\ allowed \subseteq Tools
  /\ subReq \in [Kinds -> Seq(1..Current)]
  /\ subResp \in [Kinds -> Seq([id : Ids, word : Words])]
  /\ fwd \in [Kinds -> [at : {"take", "write", "read", "put"}, id : Ids, word : Words]]
  /\ conn \in Conns /\ alive \in BOOLEAN
  /\ dialer \in [at : {"dial", "serve", "off"}, conn : 0..MaxConns]
  /\ dialer.at = "serve" => dialer.conn \in Conns
  /\ up \in [Conns -> Seq(1..Current)] /\ down \in [Conns -> Seq(Lines)]
  /\ handler \in [Conns -> [at : {"none", "read", "send", "wait", "done"}, id : Ids]]
  /\ hostReq \in [Kinds -> Seq(1..Current)]
  /\ hostResp \in [Kinds -> Seq([id : Ids, word : Words])]
  /\ \A k \in Kinds :
       {Len(subReq[k]), Len(subResp[k]), Len(hostReq[k]), Len(hostResp[k])}
         \subseteq 0..ChannelBuffer
  /\ prompt \in [Kinds -> 0..Current]
  /\ stop \in {"no", "killed", "closing", "done"}
  /\ panicked \in BOOLEAN /\ disturbed \in BOOLEAN

\* Nothing compares the ID of a response with that of the request.  It is the
\* order of the steps alone that keeps them together: until a wait has timed
\* out or a connection was lost with a call open, each answer of the user
\* goes to the call it was given for, and none is lost.
InOrderUntilDisturbed ==
  ~disturbed =>
    \A c \in DOMAIN calls :
      /\ source[c] \in {0, c}
      /\ said[c] # "nothing" => source[c] = c \/ verdict[c] = "open"

\* The requests whose answer has let a call proceed.
Spent == {source[c] : c \in {c \in DOMAIN calls : verdict[c] = "allowed"}} \ {0}

\* A yes of the user lets at most one call proceed, one of the same kind, and
\* no call that needs one proceeds without: over timeouts, late answers, two
\* handlers that wait for one channel and lost connections.
Exchange ==
  INSTANCE PermissionExchange
    WITH Tools <- Tools \cup {"none"}, spent <- Spent

ImplementsExchange == Exchange!Spec

IsOpen(c) == c \in DOMAIN verdict /\ verdict[c] = "open"

\* Claude's calls do not hang: whatever the user, the handlers and the
\* forwarders do, each comes to a result or ends with its subprocess.
CallsAreAnswered ==
  \A c \in 1..MaxCalls : IsOpen(c) ~> (panicked \/ ~IsOpen(c))

\* Once Stop has closed the socket server every handler ends, though Stop
\* waits for none of them.
HandlersEnd ==
  \A c \in Conns : ServerClosed ~> (panicked \/ handler[c].at \in {"none", "done"})

\* protocol.go:122 has the ID of a response correlate with the request ID: a
\* call gets the answer to its own request.
AnswersMatch == \A c \in DOMAIN calls : source[c] \in {0, c}

\* claude.go:1345 has the host dial "after the container process starts": a
\* subprocess in a container is dialed, or ends.
SubprocessIsDialed ==
  \A c \in Conns :
    (conn = c /\ alive) ~> (panicked \/ handler[c].at # "none" \/ conn # c \/ ~alive)
=============================================================================
