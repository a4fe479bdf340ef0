-------------------------------- MODULE MlxServer --------------------------------
(***************************************************************************)
(* The governed MLX endpoint, ara_engine_mlx/serve.py, as a child process  *)
(* of a command: it gates and loads its model, binds the port it was told, *)
(* says so in one line on stdout, and then answers one connection after    *)
(* the other in a single thread.  Clients send their request when they     *)
(* like, in part or never.                                                 *)
(***************************************************************************)
EXTENDS Integers, Sequences, FiniteSets

CONSTANTS Procs,      \* the commands that may own a server
          Nobody,     \* none of them, and no client
          Ports, Clients,
          Requests,   \* what clients ask: bad, stream, prompt, ask
          Ceiling     \* the context every server is started with

ASSUME NobodyIsNoProcess == Nobody \notin Procs
ASSUME RequestsAsk == /\ Ceiling \in Int
                      /\ \A r \in Requests : r.prompt \in Int /\ r.ask \in Int

VARIABLES server,  \* each command's child
          bound,   \* who listens on each port: a command's child, or "other"
          conn     \* each client's connection

serverVars == <<server, bound, conn>>

NoServer == [at |-> "none", port |-> 0, said |-> "none", cur |-> Nobody, line |-> <<>>,
             orphaned |-> "no"]
NoConn == [at |-> "none", to |-> Nobody, req |-> [bad |-> "no"], sent |-> 0,
           status |-> <<>>, given |-> 0]

ServerInit == /\ server = [p \in Procs |-> NoServer]
              /\ bound = [i \in Ports |-> Nobody]
              /\ conn = [c \in Clients |-> NoConn]

Is(p, at) == server[p].at = at
Started(p) == server[p].at \notin {"none", "gone"}
Open(c) == conn[c].at \notin {"none", "closed"}

(***************************************************************************)
(* The life of the process.  When it ends, whatever the reason, the system *)
(* closes its port and its connections.                                    *)
(***************************************************************************)
Ended(p, at, said) ==
    /\ server' = [server EXCEPT ![p] = IF at = "none" THEN NoServer
                      ELSE [NoServer EXCEPT !.at = at, !.said = said]]
    /\ bound' = [i \in Ports |-> IF bound[i] = p THEN Nobody ELSE bound[i]]
    /\ conn' = [c \in Clients |-> IF conn[c].to = p /\ Open(c)
                                  THEN [conn[c] EXCEPT !.at = "closed"] ELSE conn[c]]
\* A child whose command is gone is reaped at once by the system.
Exits(p, waited, said) == Ended(p, IF waited THEN "gone" ELSE "none", said)

Popen(p, port) ==
    /\ server' = [server EXCEPT ![p] = [NoServer EXCEPT !.at = "gate", !.port = port]]
    /\ UNCHANGED <<bound, conn>>

\* The gate passes and the model is loaded; or a refusal is printed; or the
\* imports fail and nothing is.  A load may hang.
GateAndLoad(p, importable, waited) ==
    /\ Is(p, "gate")
    /\ \/ /\ importable
          /\ server' = [server EXCEPT ![p].at = "loaded"]
          /\ UNCHANGED <<bound, conn>>
       \/ importable /\ Exits(p, waited, "refused")
       \/ Exits(p, waited, "none")

\* HTTPServer binds and listens: clients can connect from here on.
Bind(p, waited) ==
    /\ Is(p, "loaded")
    /\ IF bound[server[p].port] = Nobody
       THEN /\ bound' = [bound EXCEPT ![server[p].port] = p]
            /\ server' = [server EXCEPT ![p].at = "bound"]
            /\ UNCHANGED conn
       ELSE Exits(p, waited, "none")

\* Mutant: the line is printed before the port is bound.
SayEarly(p, waited) ==
    /\ Is(p, "loaded") /\ server[p].said = "none" /\ waited
    /\ server' = [server EXCEPT ![p].said = "ready"]
    /\ UNCHANGED <<bound, conn>>
\* The ready line; without a reader, printing it ends the process.
SayReady(p, waited) ==
    /\ Is(p, "bound")
    /\ IF waited THEN /\ server' = [server EXCEPT ![p].at = "up", ![p].said = "ready"]
                      /\ UNCHANGED <<bound, conn>>
       ELSE Exits(p, waited, "none")

(***************************************************************************)
(* Clients: nothing makes them go on.                                      *)
(***************************************************************************)
Connect(c, p, r) ==
    /\ conn[c] = NoConn /\ server[p].at \in {"bound", "up"}
    /\ conn' = [conn EXCEPT ![c] = [NoConn EXCEPT !.at = "queued", !.to = p, !.req = r]]
    /\ server' = [server EXCEPT ![p].line = Append(@, c)]
    /\ UNCHANGED bound
\* First the head, then the body; what is sent before it is read is not told
\* from what is sent then.
Send(c) == /\ \/ conn[c].at = "head" /\ conn[c].sent = 0
              \/ conn[c].at = "body" /\ conn[c].sent = 1
           /\ conn' = [conn EXCEPT ![c].sent = @ + 1]
           /\ UNCHANGED <<server, bound>>

(***************************************************************************)
(* The one thread.                                                         *)
(***************************************************************************)
Serves(p, at) == /\ Is(p, "up") /\ server[p].cur # Nobody /\ conn[server[p].cur].at = at
To(c, at) == conn' = [conn EXCEPT ![c].at = at] /\ UNCHANGED <<server, bound>>
\* The connection is done with, after these last statuses.
Close(p, statuses) ==
    /\ conn' = [conn EXCEPT ![server[p].cur].at = "closed",
                            ![server[p].cur].status = @ \o statuses]
    /\ server' = [server EXCEPT ![p].cur = Nobody]
    /\ UNCHANGED bound

Accept(p) ==
    /\ Is(p, "up") /\ server[p].cur = Nobody /\ server[p].line # <<>>
    /\ LET c == Head(server[p].line)
       IN  /\ server' = [server EXCEPT ![p].cur = c, ![p].line = Tail(@)]
           /\ conn' = [conn EXCEPT ![c].at = "head"]
    /\ UNCHANGED bound

\* A wrong path, length or size is answered before the body is read.
ReadHead(p) ==
    LET c == server[p].cur
    IN  /\ Serves(p, "head") /\ conn[c].sent >= 1
        /\ IF conn[c].req.bad = "head" THEN Close(p, <<400>>) ELSE To(c, "body")
ReadBody(p) ==
    LET c == server[p].cur
    IN  /\ Serves(p, "body") /\ conn[c].sent = 2
        /\ IF conn[c].req.bad = "body" THEN Close(p, <<400>>) ELSE To(c, "govern")

\* Mutant: the socket has no timeout.
WaitForEver(p) == FALSE
\* A socket that stays silent for 30 seconds: without a head the connection is
\* dropped, without a body it is answered.
Stalled(p) ==
    \/ Serves(p, "head") /\ conn[server[p].cur].sent = 0 /\ Close(p, <<>>)
    \/ Serves(p, "body") /\ conn[server[p].cur].sent = 1 /\ Close(p, <<400>>)

\* The tokens allowed, 0 when the request is refused.
Allowed(r) == IF r.ask <= 0 \/ r.prompt >= Ceiling \/ r.prompt + r.ask > Ceiling
              THEN 0 ELSE r.ask

\* Mutant: the stream's header is sent before the request is looked at.
GovernLate(p) ==
    LET c == server[p].cur
        r == conn[c].req
    IN  /\ Serves(p, "govern")
        /\ IF r.stream
           THEN /\ IF Allowed(r) = 0 THEN Close(p, <<200, 400>>)
                   ELSE /\ conn' = [conn EXCEPT ![c].at = "stream", ![c].status = <<200>>]
                        /\ UNCHANGED <<server, bound>>
           ELSE IF Allowed(r) = 0 THEN Close(p, <<400>>) ELSE To(c, "generate")
\* The rendered prompt is counted, or rendering raises; a stream that is
\* allowed commits to its status here.
Govern(p) ==
    LET c == server[p].cur
        r == conn[c].req
    IN  /\ Serves(p, "govern")
        /\ \/ Allowed(r) = 0 /\ Close(p, <<400>>)
           \/ Close(p, <<>>)
           \/ Allowed(r) > 0 /\ ~r.stream /\ To(c, "generate")
           \/ /\ Allowed(r) > 0 /\ r.stream
              /\ conn' = [conn EXCEPT ![c].at = "stream", ![c].status = <<200>>]
              /\ UNCHANGED <<server, bound>>

\* The whole completion; or generating raises, and nothing is sent.
Generate(p) ==
    LET c == server[p].cur
    IN  /\ Serves(p, "generate")
        /\ \/ \E n \in 1..Allowed(conn[c].req) :
                /\ conn' = [conn EXCEPT ![c].at = "closed", ![c].status = <<200>>,
                                        ![c].given = n]
                /\ server' = [server EXCEPT ![p].cur = Nobody]
                /\ UNCHANGED bound
           \/ Close(p, <<>>)

\* One token after the other; the end of the text, the limit, an error or a
\* client that no longer reads ends the stream.
Stream(p) ==
    LET c == server[p].cur
    IN  /\ Serves(p, "stream")
        /\ \/ /\ conn[c].given < Allowed(conn[c].req)
              /\ conn' = [conn EXCEPT ![c].given = @ + 1]
              /\ UNCHANGED <<server, bound>>
           \/ Close(p, <<>>)

HandleRequests(p) == \/ Accept(p) \/ ReadHead(p) \/ ReadBody(p) \/ Stalled(p)
                     \/ Govern(p) \/ Generate(p) \/ Stream(p)

----------------------------------------------------------------------------
\* An answer is committed to once, after it was governed: no connection gets a
\* second status, whole or streamed, and none that got a 200 was given more
\* than fits under the ceiling together with its prompt.
\* (_handle_completions, _stream_completions)
AnswersAreCommittedOnce ==
    \A c \in Clients :
        /\ Len(conn[c].status) <= 1
        /\ 200 \in {conn[c].status[i] : i \in DOMAIN conn[c].status} =>
               conn[c].req.prompt + conn[c].given <= Ceiling /\ conn[c].req.ask > 0
        /\ conn[c].given > 0 => conn[c].status = <<200>>

\* No client holds up the others for ever: every connection the system took for
\* a server is closed in the end, although clients stall or vanish half way.
\* (_Handler.timeout)
NobodyWedgesTheServer ==
    \A c \in Clients : conn[c].at = "queued" ~> conn[c].at = "closed"
=============================================================================
