------------------------------ MODULE HttpTasks ------------------------------
(***************************************************************************)
(* The requests the firmware can make: https_request_task_bundle           *)
(* (main/requestTaskBundle.c), http_get_task and exampleCom                *)
(* (main/exampleCom.c), client_post_rest_function (main/exapmleCom2.c) and *)
(* the station they need, wifi() (main/wifi.c). They are compiled in and   *)
(* app_main starts none of them. They share only the station, so one task  *)
(* is modelled at a time, from its creation to its end. esp_tls,           *)
(* esp_http_client, lwIP and the Wi-Fi driver belong to ESP-IDF.           *)
(***************************************************************************)
EXTENDS Naturals, Sequences, SequencesExt, FiniteSetsExt

CONSTANTS
    Addresses,   \* the URLs, taken apart: scheme, host, path
    Characters,  \* what texts are made of; a phrase of the request counts as one
    HostSize,    \* size of the buffer for the host in construct_http_request
    NoAddress    \* no task has been created

\* A query comes after a path: of a URL with a query right behind the host,
\* get_host_from_url takes the query for a part of the host.
ASSUME AddressAssumption ==
    /\ \A a \in Addresses :
         /\ DOMAIN a = {"scheme", "host", "path"}
         /\ \A part \in DOMAIN a : a[part] \in Seq(Characters)
         /\ \A n \in DOMAIN a.scheme : a.scheme[n] # "/"
         /\ \A n \in DOMAIN a.host : a.host[n] # "/"
         /\ a.path = <<>> \/ a.path[1] = "/"
    /\ {":", "/", "GET ", " HTTP/1.1", "Host: ", "User-Agent"} \subseteq Characters
    /\ NoAddress \notin Addresses /\ HostSize \in Nat \ {0}

VARIABLES
    station,   \* the Wi-Fi station: "off", "joining", "joined"
    task,      \* "none", "bundle", "get", "post"
    address,   \* the URL it was given
    at,        \* where the task is
    owned,     \* what it has allocated and not freed
    written,   \* written_bytes
    arrived,   \* what the server has received from it
    server     \* the other end of its connection: "none", "there", "gone"

taskVars == <<station, task, address, at, owned, written, arrived, server>>

-----------------------------------------------------------------------------
\* A URL is characters; one without a scheme has no "://".
Text(a) == (IF a.scheme = <<>> THEN <<>> ELSE a.scheme \o <<":", "/", "/">>) \o a.host \o a.path

\* strstr, strchr and strncpy of get_host_from_url.
GetHostFromUrl(url) ==
    LET marks == {n \in 1 .. Len(url) - 2 : SubSeq(url, n, n + 2) = <<":", "/", "/">>}
        start == IF marks = {} THEN 1 ELSE Min(marks) + 3
        ends  == {n \in start .. Len(url) : url[n] = "/"}
        len   == (IF ends = {} THEN Len(url) + 1 ELSE Min(ends)) - start
    IN  SubSeq(url, start, start + (IF len >= HostSize THEN HostSize - 1 ELSE len) - 1)

ConstructHttpRequest(url) ==
    <<"GET ">> \o url \o <<" HTTP/1.1", "Host: ">> \o GetHostFromUrl(url) \o <<"User-Agent">>

-----------------------------------------------------------------------------
\* wifi(): every error of wifi_connection is only printed, and the caller
\* goes on after three seconds whether the station has joined or not.
Wifi == station' = IF station = "joined" THEN "joined" ELSE "joining"

\* The event handlers print; nothing joins again but the next wifi().
StationEvent ==
    /\ \/ station = "joining" /\ station' \in {"joined", "off"} /\ UNCHANGED server
       \/ /\ station = "joined" /\ station' = "off"
          /\ server' = IF server = "there" THEN "gone" ELSE server
    /\ UNCHANGED <<task, address, at, owned, written, arrived>>

Create(t, a) ==
    /\ at = "none"
    /\ task' = t /\ address' = a /\ at' = "init"
    /\ UNCHANGED <<owned, written, arrived, server>>

RequestTaskBundle(a) == Create("bundle", a) /\ UNCHANGED station
ExampleCom(a)  == Create("get", a) /\ Wifi
ClientPost(a)  == Create("post", a) /\ UNCHANGED station
\* The station is joined by somebody else.
OtherJoins ==
    /\ at = "none" /\ station = "off" /\ Wifi
    /\ UNCHANGED <<task, address, at, owned, written, arrived, server>>

\* esp_tls_init; esp_http_client_init, whose failure only the GET looks at:
\* the POST goes on with a null handle and the chip panics.
TaskInit ==
    /\ at = "init"
    /\ \/ /\ at' = IF task = "bundle" THEN "connect" ELSE "perform"
          /\ owned' = {IF task = "bundle" THEN "tls" ELSE "client"}
       \/ at' = (IF task = "post" THEN "panic" ELSE "ended") /\ UNCHANGED owned
    /\ UNCHANGED <<station, task, address, written, arrived, server>>

\* esp_tls_conn_http_new_sync; only a URL with a scheme can be connected to.
Connect ==
    /\ at = "connect"
    /\ \/ /\ address.scheme # <<>> /\ station = "joined"
          /\ server' = "there" /\ at' = "build" /\ UNCHANGED owned
       \/ at' = "ended" /\ owned' = owned \ {"tls"} /\ UNCHANGED server
    /\ UNCHANGED <<station, task, address, written, arrived>>

\* construct_http_request; when malloc fails the task ends as it is.
Build ==
    /\ at = "build"
    /\ \/ at' = "write" /\ owned' = owned \cup {"request"}
       \/ at' = "ended" /\ UNCHANGED owned
    /\ UNCHANGED <<station, task, address, written, arrived, server>>

WriteFromStart ==
    /\ at = "write"
    /\ LET request == ConstructHttpRequest(Text(address))
       IN  \E n \in written + 1 .. Len(request) :
             /\ written' = n /\ arrived' = arrived \o SubSeq(request, 1, n - written)
             /\ at' = IF n = Len(request) THEN "read" ELSE "write"
    /\ UNCHANGED <<station, task, address, owned, server>>

\* esp_tls_conn_write takes some of the rest of the request, which may still
\* be lost, or fails. A call that has to wait first changes nothing.
Write ==
    /\ at = "write"
    /\ LET request == ConstructHttpRequest(Text(address))
       IN  \/ \E n \in written + 1 .. Len(request) :
                /\ written' = n
                /\ \/ server = "there" /\ arrived' = arrived \o SubSeq(request, written + 1, n)
                   \/ server = "gone" /\ UNCHANGED arrived
                /\ at' = IF n = Len(request) THEN "read" ELSE "write"
           \/ at' = "read" /\ UNCHANGED <<written, arrived>>
    /\ UNCHANGED <<station, task, address, owned, server>>

\* esp_tls_conn_read returns zero or an error; data is only printed.
Read ==
    /\ at = "read" /\ server = "gone"
    /\ at' = "clean"
    /\ UNCHANGED <<station, task, address, owned, written, arrived, server>>

\* esp_http_client_perform has timeouts of its own: whether the request
\* succeeds or fails, it returns.
Perform ==
    /\ at = "perform"
    /\ at' = "clean"
    /\ UNCHANGED <<station, task, address, owned, written, arrived, server>>

CleanUpForgetful ==
    /\ at = "clean"
    /\ at' = "ended" /\ owned' = owned \ {"tls", "client"}
    /\ UNCHANGED <<station, task, address, written, arrived, server>>

\* esp_tls_conn_destroy and free, or esp_http_client_cleanup.
CleanUp ==
    /\ at = "clean"
    /\ at' = "ended" /\ owned' = owned \ {"tls", "request", "client"}
    /\ UNCHANGED <<station, task, address, written, arrived, server>>

\* The server closes, after it has answered or not, or cannot be reached.
ServerLeaves ==
    /\ server = "there" /\ server' = "gone"
    /\ UNCHANGED <<station, task, address, at, owned, written, arrived>>

-----------------------------------------------------------------------------
TaskInitially ==
    /\ station = "off" /\ task = "none" /\ address = NoAddress /\ at = "none" /\ owned = {}
    /\ written = 0 /\ arrived = <<>> /\ server = "none"

TaskStep == TaskInit \/ Connect \/ Build \/ Write \/ Read \/ Perform \/ CleanUp
TaskNext ==
    \/ \E a \in Addresses : RequestTaskBundle(a) \/ ExampleCom(a) \/ ClientPost(a)
    \/ OtherJoins \/ StationEvent \/ ServerLeaves \/ TaskStep

-----------------------------------------------------------------------------
\* Every variable has its type.
TaskTypeOK ==
    /\ station \in {"off", "joining", "joined"} /\ task \in {"none", "bundle", "get", "post"}
    /\ address \in Addresses \cup {NoAddress}
    /\ at \in {"none", "init", "connect", "build", "write", "read", "perform", "clean", "ended", "panic"}
    /\ owned \subseteq {"tls", "request", "client"} /\ server \in {"none", "there", "gone"}
    /\ written \in Nat /\ arrived \in Seq(Characters)

\* However the writes were cut, the server has received a beginning of one
\* request, which names the host the URL names.
SentRight ==
    task = "bundle" /\ Len(address.host) < HostSize =>
        IsPrefix(arrived, <<"GET ">> \o Text(address) \o <<" HTTP/1.1", "Host: ">>
                            \o address.host \o <<"User-Agent">>)

\* A task that has its request ends once the server is gone, an
\* esp_http_client task ends in any case, and they leave nothing allocated.
TaskLetsGo ==
    ("client" \in owned \/ ("request" \in owned /\ server = "gone"))
        ~> (at = "ended" /\ owned = {})
=============================================================================
