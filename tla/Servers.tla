------------------------------- MODULE Servers -------------------------------
(***************************************************************************)
(* The servers: tcp_server_task on port 3333 (main/wifi.c), which takes    *)
(* one client at a time and waits for it as long as it stays, and the      *)
(* HTTPS server with its two handlers (main/exapmleCom2.c). They are       *)
(* compiled in and app_main starts neither. lwIP, esp_http_server and the  *)
(* clients are outside.                                                    *)
(***************************************************************************)
EXTENDS Naturals, Sequences, FiniteSets

CONSTANTS
    Clients,   \* of the TCP server
    NoClient,  \* sock < 0
    Backlog,   \* of listen
    Visitors,  \* of the HTTPS server
    Lengths,   \* content_len of their requests
    Content    \* sizeof(content) in server_post_handler

ASSUME ServerAssumption ==
    /\ NoClient \notin Clients /\ Backlog \in Nat \ {0}
    /\ Lengths \subseteq Nat /\ Content \in Nat \ {0}

VARIABLES
    client,    \* TCP clients: "away", "silent", "asked", "left", "answered", "closed"
    queue,     \* connections not yet accepted
    sock,      \* the connection tcp_server_task serves
    serving,   \* where it is: "accept", "recv", "delay", "ended"
    httpd,     \* the HTTPS server: "off", "on", "failed"
    visit      \* requests to it: no request, a request, or how it ended

serverVars == <<client, queue, sock, serving, httpd, visit>>

-----------------------------------------------------------------------------
\* A client connects; lwIP refuses it when the backlog is full.
Knock(c) ==
    /\ client[c] = "away" /\ serving # "ended" /\ Len(queue) < Backlog
    /\ client' = [client EXCEPT ![c] = "silent"] /\ queue' = Append(queue, c)
    /\ UNCHANGED <<sock, serving, httpd, visit>>

\* It sends something, before or after it has been accepted; it hangs up, or
\* is found dead by the keepalive probes.
Ask(c) ==
    /\ client[c] = "silent"
    /\ client' = [client EXCEPT ![c] = "asked"]
    /\ UNCHANGED <<queue, sock, serving, httpd, visit>>
Leave(c) ==
    /\ client[c] \in {"silent", "asked", "answered"}
    /\ client' = [client EXCEPT ![c] = "left"]
    /\ UNCHANGED <<queue, sock, serving, httpd, visit>>

\* listen_sock is closed, and with it the connections nobody accepted.
StopListening ==
    /\ serving' = "ended" /\ queue' = <<>>
    /\ client' = [c \in Clients |->
                    IF \E n \in DOMAIN queue : queue[n] = c THEN "closed" ELSE client[c]]

Accept ==
    /\ serving = "accept" /\ queue # <<>>
    /\ sock' = Head(queue) /\ queue' = Tail(queue) /\ serving' = "recv"
    /\ UNCHANGED <<client, httpd, visit>>

\* The loop is left when accept fails.
AcceptFails ==
    /\ serving = "accept"
    /\ StopListening /\ sock' = NoClient
    /\ UNCHANGED <<httpd, visit>>

RecvSendStrict ==
    /\ serving = "recv" /\ client[sock] # "silent"
    /\ IF client[sock] = "asked"
       THEN serving' = "delay" /\ client' = [client EXCEPT ![sock] = "answered"] /\ UNCHANGED queue
       ELSE StopListening
    /\ UNCHANGED <<sock, httpd, visit>>

\* recv returns with data, or without any when the client has left; neither
\* its answer nor that of send is looked at.
RecvSend ==
    /\ serving = "recv" /\ client[sock] # "silent"
    /\ serving' = "delay"
    /\ client' = IF client[sock] = "asked" THEN [client EXCEPT ![sock] = "answered"] ELSE client
    /\ UNCHANGED <<queue, sock, httpd, visit>>

\* Two seconds later: shutdown and close.
CloseSock ==
    /\ serving = "delay" /\ serving' = "accept"
    /\ client' = [client EXCEPT ![sock] = IF @ = "left" THEN "left" ELSE "closed"]
    /\ UNCHANGED <<queue, sock, httpd, visit>>

-----------------------------------------------------------------------------
\* start_webserver: a failure is printed and the caller not told.
StartWebserver ==
    /\ httpd = "off" /\ httpd' \in {"on", "failed"}
    /\ UNCHANGED <<client, queue, sock, serving, visit>>

\* A request with its headers has come in. Some of its body, if it has one,
\* may never follow.
Visit(v, method, len) ==
    /\ httpd = "on" /\ visit[v] = <<>>
    /\ \E body \in {0, len} : visit' = [visit EXCEPT ![v] = <<method, len, body>>]
    /\ UNCHANGED <<client, queue, sock, serving, httpd>>

\* What httpd_req_recv returns for a buffer of this size: a positive number
\* once part of the body is there, zero when nothing is to be read or the
\* visitor has gone, or an error.
Received(v, size) ==
    IF size = 0 THEN {"zero"} ELSE IF visit[v][3] > 0 THEN {"bytes"} ELSE {"zero", "timeout", "error"}

\* server_get_handler and server_post_handler, with what esp_http_server
\* does when the latter returns ESP_FAIL: it closes the connection.
ServerGetHandler(v) ==
    /\ Len(visit[v]) = 3 /\ visit[v][1] = "GET"
    /\ visit' = [visit EXCEPT ![v] = <<"page">>]
    /\ UNCHANGED <<client, queue, sock, serving, httpd>>
ServerPostHandler(v) ==
    /\ Len(visit[v]) = 3 /\ visit[v][1] = "POST"
    /\ LET recv_size == IF visit[v][2] < Content THEN visit[v][2] ELSE Content
       IN  \E ret \in Received(v, recv_size) :
             visit' = [visit EXCEPT ![v] =
                 CASE ret = "timeout"            -> <<"408", "closed">>
                   [] ret \in {"zero", "error"} -> <<"closed">>
                   [] OTHER                      -> <<"page">>]
    /\ UNCHANGED <<client, queue, sock, serving, httpd>>

-----------------------------------------------------------------------------
ServersInit ==
    /\ client = [c \in Clients |-> "away"] /\ queue = <<>> /\ sock = NoClient /\ serving = "accept"
    /\ httpd = "off" /\ visit = [v \in Visitors |-> <<>>]

ServersStep == Accept \/ RecvSend \/ CloseSock
HandlerStep == \E v \in Visitors : ServerGetHandler(v) \/ ServerPostHandler(v)
ServersNext ==
    \/ \E c \in Clients : Knock(c) \/ Ask(c) \/ Leave(c)
    \/ \E v \in Visitors, method \in {"GET", "POST"}, len \in Lengths : Visit(v, method, len)
    \/ StartWebserver \/ AcceptFails \/ ServersStep \/ HandlerStep

-----------------------------------------------------------------------------
\* Every variable has its type.
ServersTypeOK ==
    /\ client \in [Clients -> {"away", "silent", "asked", "left", "answered", "closed"}]
    /\ queue \in Seq(Clients) /\ Len(queue) <= Backlog
    /\ sock \in Clients \cup {NoClient} /\ serving \in {"accept", "recv", "delay", "ended"}
    /\ httpd \in {"off", "on", "failed"} /\ \A v \in Visitors : Len(visit[v]) <= 3

\* A client in the backlog is accepted in the end, unless the server waits
\* for ever for a client that neither speaks nor leaves, or accept fails; a
\* client that hangs up before it has asked does not stop the server
\* (main/wifi.c).
SilentForever == [](serving = "recv" /\ client[sock] = "silent")
ServersAttend ==
    \A c \in Clients :
        (\E n \in DOMAIN queue : queue[n] = c)
            ~> (sock = c \/ SilentForever \/ (serving = "ended" /\ sock = NoClient))
=============================================================================
