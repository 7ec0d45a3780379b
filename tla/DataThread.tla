----------------------------- MODULE DataThread -----------------------------
(***************************************************************************)
(* The transfer: DataThread of src/src/server.cc, which reads the client's *)
(* request and sends the bytes it asks for, and the client of              *)
(* src/src/client.c, joined by a TCP connection (external: modelled from   *)
(* the socket calls both make).                                            *)
(*                                                                         *)
(* The request is {src_ip} {flowid} {size} {dst_ip} {time} {size}; what is *)
(* kept of it is how many of its fields one recv() returned, the size and  *)
(* the time.  A blocking send() returns when all bytes are queued, so a    *)
(* buffer is sent in one step once the send buffer has room for it.        *)
(***************************************************************************)
EXTENDS ServerState

CONSTANTS
    Size,       \* argv[3] of the client, the third field of the request
    K,          \* 1024
    Buf,        \* BUFSIZ
    UInt,       \* unsigned int wraps at this value (2^32)
    SndBuf,     \* what the kernel queues before send() blocks
    FieldReads  \* how many of the six fields the one recv() may return

ASSUME SizeAssumption ==
    /\ Size \in Nat
    /\ K \in Nat \ {0} /\ Buf \in Nat \ {0} /\ UInt \in Nat \ {0}
    /\ SndBuf \in Nat /\ Buf <= SndBuf
    /\ FieldReads \subseteq 1..6

VARIABLES
    data,       \* where DataThread is
    loop,       \* buffers still to be sent
    remaining,  \* remaining_size
    rem_size,   \* flow->flowinfo.rem_size
    done,       \* the global done
    client,     \* where the client is
    wakeClient, \* when its first usleep returns
    request,    \* its start_timestamp, as it is in the request
    conn,       \* "none", "backlog", "up", "reset", "reported"
    asked,      \* the request is in the server's receive buffer
    wire,       \* bytes queued for the client
    got         \* bytes the client has received

clientVars == <<client, wakeClient, request>>
connVars   == <<conn, asked, wire, got>>
dataVars   == <<data, loop, remaining, rem_size, done>>
transferVars == <<dataVars, clientVars, connVars>>

DataPcs == {"none", "recv", "publish", "notify", "size", "send", "rest",
            "finish", "close", "done"}
ClientPcs == {"none", "sleep", "basetime", "socket", "connect", "request",
              "recv", "done"}

TransferTypeOK ==
    /\ data \in DataPcs
    /\ loop \in 0..UInt
    /\ remaining \in 0..UInt
    /\ rem_size \in 0..UInt - 1
    /\ done \in BOOLEAN
    /\ client \in ClientPcs
    /\ wakeClient \in Nat
    /\ request \in 0..MaxTime
    /\ conn \in {"none", "backlog", "up", "reset", "reported"}
    /\ asked \in BOOLEAN
    /\ wire \in Nat
    /\ got \in Nat

TransferInit ==
    /\ data = "none" /\ loop = 0 /\ remaining = 0 /\ rem_size = 0
    /\ done = FALSE
    /\ client = "none" /\ wakeClient = 0 /\ request = 0
    /\ conn = "none" /\ asked = FALSE /\ wire = 0 /\ got = 0

-----------------------------------------------------------------------------
(* Sizes, on unsigned int.                                                 *)

\* flowinfo.size = 1024*atoi(size_)
FlowSize == (K * Size) % UInt

\* flowinfo.size*1024
Total == (FlowSize * K) % UInt

\* loop and remaining_size
Loops == Total \div Buf
Remainder == Total - Loops * Buf

-----------------------------------------------------------------------------
(* The TCP connection (external).                                          *)

\* close() of the server's descriptor, or the exit of the server process: a
\* request not yet read turns the close into a reset.
ServerCloses ==
    /\ sock' = IF sock = "open" THEN "closed" ELSE sock
    /\ conn' = IF conn \in {"backlog", "up"} /\ (asked \/ sock = "none")
               THEN "reset" ELSE conn

\* close() of the client's socket before it has read to the end of the stream:
\* what the server sends from then on is answered with a reset.
ClientCloses ==
    /\ client' = "done"
    /\ conn' = IF conn \in {"backlog", "up"} /\ ~(sock = "closed" /\ wire = 0)
               THEN "reset" ELSE conn

-----------------------------------------------------------------------------
(* DataThread.                                                             *)

DataReturn ==
    /\ data' = "done"
    /\ ServerCloses

\* recv() failed, or returned the end of the stream.
DataRecvFailed ==
    /\ running /\ data = "recv"
    /\ ~asked /\ conn = "reset"
    /\ DataReturn
    /\ UNCHANGED <<loop, remaining, rem_size, done, clientVars, asked, wire,
                   got, now, running, initial, start_of_client, got_message>>

\* Variant: got_message is set before the time is parsed.
DataRecvEarlyFlag(n) ==
    /\ running /\ data = "recv"
    /\ asked
    /\ n >= 5
    /\ asked' = (n < 6)
    /\ data' = "publish"
    /\ got_message' = TRUE
    /\ UNCHANGED <<running, sock, conn, loop, remaining, rem_size, done,
                   clientVars, wire, got, now, initial, start_of_client>>

\* recv() returned the first n fields.  With one or three of them the message
\* is discarded; with two or four the next field is a NULL pointer that
\* atoi/strtoull follow, and the SIGSEGV handler ends the process.
DataRecv(n) ==
    /\ running /\ data = "recv"
    /\ asked
    /\ CASE n \in {1, 3} -> /\ asked' = TRUE
                            /\ DataReturn
                            /\ UNCHANGED running
         [] n \in {2, 4} -> /\ asked' = TRUE
                            /\ running' = FALSE
                            /\ ServerCloses
                            /\ UNCHANGED data
         [] OTHER        -> /\ asked' = (n < 6)
                            /\ data' = "publish"
                            /\ UNCHANGED <<running, sock, conn>>
    /\ UNCHANGED <<loop, remaining, rem_size, done, clientVars, wire, got,
                   now, initial, start_of_client, got_message>>

\* start_of_client = strtoull(time_s_)
DataPublish ==
    /\ running /\ data = "publish"
    /\ start_of_client' = request
    /\ data' = "notify"
    /\ UNCHANGED <<loop, remaining, rem_size, done, clientVars, connVars, now,
                   running, sock, initial, got_message>>

\* got_message = 1
DataNotify ==
    /\ running /\ data = "notify"
    /\ got_message' = TRUE
    /\ data' = "size"
    /\ UNCHANGED <<loop, remaining, rem_size, done, clientVars, connVars, now,
                   running, sock, initial, start_of_client>>

DataSize ==
    /\ running /\ data = "size"
    /\ rem_size' = FlowSize
    /\ loop' = Loops
    /\ remaining' = Remainder
    /\ data' = "send"
    /\ UNCHANGED <<done, clientVars, connVars, sharedVars>>

\* send() of n bytes with room for them; it also succeeds on a connection the
\* client has reset as long as the reset has not arrived.
Queue(n) ==
    /\ conn \in {"up", "reset"}
    /\ wire + n <= SndBuf
    /\ wire' = wire + n

DataSendBuffer ==
    /\ running /\ data = "send"
    /\ loop > 0
    /\ Queue(Buf)
    /\ loop' = loop - 1
    /\ UNCHANGED <<data, remaining, rem_size, done, clientVars, conn, asked,
                   got, sharedVars>>

\* Variant: the loop ends one buffer early.
DataSendEndEarly ==
    /\ running /\ data = "send"
    /\ loop <= 1
    /\ data' = "rest"
    /\ UNCHANGED <<loop, remaining, rem_size, done, clientVars, connVars,
                   sharedVars>>

DataSendEnd ==
    /\ running /\ data = "send"
    /\ loop = 0
    /\ data' = "rest"
    /\ UNCHANGED <<loop, remaining, rem_size, done, clientVars, connVars,
                   sharedVars>>

DataSendRest ==
    /\ running /\ data = "rest"
    /\ IF remaining = 0 THEN UNCHANGED wire ELSE Queue(remaining)
    /\ remaining' = 0
    /\ data' = "finish"
    /\ UNCHANGED <<loop, rem_size, done, clientVars, conn, asked, got,
                   sharedVars>>

\* send() on a reset connection: the error may be returned once, which makes
\* len larger and the loop go on; after that SIGPIPE ends the process.
DataSendBroken ==
    /\ running
    /\ (data = "send" /\ loop > 0) \/ (data = "rest" /\ remaining > 0)
    /\ \/ /\ conn = "reset"
          /\ conn' = "reported"
          /\ UNCHANGED <<running, sock>>
       \/ /\ conn \in {"reset", "reported"}
          /\ running' = FALSE
          /\ ServerCloses
    /\ UNCHANGED <<dataVars, clientVars, asked, wire, got, now, initial,
                   start_of_client, got_message>>

DataFinish ==
    /\ running /\ data = "finish"
    /\ rem_size' = 0
    /\ done' = TRUE
    /\ data' = "close"
    /\ UNCHANGED <<loop, remaining, clientVars, connVars, sharedVars>>

DataClose ==
    /\ running /\ data = "close"
    /\ DataReturn
    /\ UNCHANGED <<loop, remaining, rem_size, done, clientVars, asked, wire,
                   got, now, running, initial, start_of_client, got_message>>

-----------------------------------------------------------------------------
(* The client, from the moment the server's system() call starts it.       *)

CONSTANTS
    ClientWait, \* usleep(500000)
    NoFile      \* basetime while Mahimahi has not written it

\* Give Mahimahi time to write its base timestamp to the file.
ClientSleep ==
    /\ client = "sleep"
    /\ now >= wakeClient
    /\ client' = "basetime"
    /\ UNCHANGED <<wakeClient, request, connVars, dataVars, sharedVars>>

\* The base timestamp, in milliseconds, becomes the time in the request.
ClientBasetime(file, unit) ==
    /\ client = "basetime"
    /\ \/ /\ file = NoFile
          /\ client' = "done"
          /\ UNCHANGED request
       \/ /\ file # NoFile
          /\ request' = file * unit
          /\ client' = "socket"
    /\ UNCHANGED <<wakeClient, connVars, dataVars, sharedVars>>

\* socket, TCP_NODELAY, TCP_BBR_BWVAL and bind: any may fail and end it.
ClientSocket ==
    /\ client = "socket"
    /\ client' \in {"connect", "done"}
    /\ UNCHANGED <<wakeClient, request, connVars, dataVars, sharedVars>>

\* connect() succeeds when somebody listens, and is refused otherwise.
ClientConnect(listening) ==
    /\ client = "connect"
    /\ \/ /\ listening
          /\ conn' = "backlog"
          /\ client' = "request"
       \/ /\ ~listening
          /\ client' = "done"
          /\ UNCHANGED conn
    /\ UNCHANGED <<wakeClient, request, asked, wire, got, dataVars, sharedVars>>

\* The request goes out in one send(); on a reset connection SIGPIPE ends the
\* client.
ClientRequest ==
    /\ client = "request"
    /\ \/ /\ conn \in {"backlog", "up"}
          /\ asked' = TRUE
          /\ client' = "recv"
       \/ /\ conn = "reset"
          /\ client' = "done"
          /\ UNCHANGED asked
    /\ UNCHANGED <<wakeClient, request, conn, wire, got, dataVars, sharedVars>>

\* recv() returns any part of what is queued, up to its buffer.
ClientRecv ==
    /\ client = "recv"
    /\ \E n \in 1..Buf :
          /\ n <= wire
          /\ wire' = wire - n
          /\ got' = got + n
    /\ UNCHANGED <<clientVars, conn, asked, dataVars, sharedVars>>

\* Variant: only an orderly end of the stream stops the client.
ClientEofOrderly ==
    /\ client = "recv"
    /\ sock = "closed" /\ wire = 0
    /\ ClientCloses
    /\ UNCHANGED <<wakeClient, request, asked, wire, got, dataVars, sharedVars>>

\* recv() returns 0 or -1, and the client closes its socket.
ClientEof ==
    /\ client = "recv"
    /\ conn = "reset" \/ (sock = "closed" /\ wire = 0)
    /\ ClientCloses
    /\ UNCHANGED <<wakeClient, request, asked, wire, got, dataVars, sharedVars>>

\* The experiment script kills the client.
ClientKilled ==
    /\ client \notin {"none", "done"}
    /\ ClientCloses
    /\ UNCHANGED <<wakeClient, request, asked, wire, got, dataVars, sharedVars>>

-----------------------------------------------------------------------------

DataNext ==
    \/ DataRecvFailed \/ \E n \in FieldReads : DataRecv(n)
    \/ DataPublish \/ DataNotify \/ DataSize
    \/ DataSendBuffer \/ DataSendEnd \/ DataSendRest \/ DataSendBroken
    \/ DataFinish \/ DataClose
=============================================================================
