------------------------------ MODULE TlsSession ------------------------------
(* Two Tls::RecordLayers, a client's and a server's, over one TCP connection.   *)
(* Each runs its handshake protocol, switches ciphers with ChangeCipherSpec,    *)
(* connects its application when the handshake is done, and closes.  A record   *)
(* carries one handshake message: the handshake protocol consumes a stream of   *)
(* bytes and does not see how records cut it.  One record is handled per step,  *)
(* under the lock of the socket that received it.                               *)
EXTENDS Integers, Sequences, FiniteSets

CONSTANTS
    Clients,        \* hellos the client may send, and how it fills its pre-master secret
    Batch,          \* records one receive of the socket may bring
    MaxData,        \* application records each side may send
    Closers,        \* the sides whose application closes the session
    Unparsed,       \* may the server's application fail on what it reads?
    Lossy           \* may the connection be lost?

\* version_low and version_high, and the version of records before a ServerHello
Low == 301
High == 302
Unfinalized == 300

Ends == {"client", "server"}
Peer(e) == IF e = "client" THEN "server" ELSE "client"

ASSUME TlsAssumption ==
    /\ Clients \subseteq [version : Nat, secret : {"offered", "negotiated"}, heartbeats : BOOLEAN]
    /\ Batch \in Nat \ {0}
    /\ MaxData \in Nat
    /\ Closers \subseteq Ends
    /\ Unparsed \in BOOLEAN /\ Lossy \in BOOLEAN

VARIABLES
    layer,      \* the RecordLayer of each end, with its HandshakeProtocol
    log,        \* every record each end has written, in order
    read,       \* how many of the other end's records each end has handled
    batch,      \* how many more it has in the receive being handled
    lost,       \* the connection was lost
    fatal       \* a FatalError or a null dereference has ended the process

vars == <<layer, log, read, batch, lost, fatal>>

\* Connection states: without a cipher, with the keys of the key exchange, with
\* random ones (a secret the server could not use), or not yet set up.
Ciphers == {"null", "keys", "random", "blank"}

\* --- records and handshake messages -----------------------------------------

Message(kind, value) == [kind |-> kind, value |-> value]

\* The verify data of a Finished message commits to its label, the messages
\* exchanged so far and the keys.
Finished(label, transcript, keys) ==
    Message("finished", [label |-> label, transcript |-> transcript, keys |-> keys])

Record(c, type, body) ==
    [type |-> type, cipher |-> c.write, version |-> c.version, body |-> body]

Handshakes(c, messages) ==
    [i \in 1..Len(messages) |-> Record(c, "handshake", messages[i])]

\* Faulty variants, here and below, are what the properties are tried against:
\* each is its neighbour with a mistake the code could have made.
WriteChangeCipherSpecUnswitched(c) == [c EXCEPT !.pending_write = "blank"]

\* WriteChangeCipherSpec sends under the old state, then switches to the pending one.
WriteChangeCipherSpec(c) == [c EXCEPT !.write = c.pending_write, !.pending_write = "blank"]

CalculateKeys(c, keys) == [c EXCEPT !.pending_read = keys, !.pending_write = keys]

HearingNothing(c, message) == c

Hearing(c, message) == [c EXCEPT !.transcript = Append(@, message)]

InStateOf(c, handshake) == [c EXCEPT !.handshake = handshake]

\* HandshakeProtocol::switch_to_state: success connects the application at once.
ConnectApplication(c) == [c EXCEPT !.handshake = "done", !.connected = TRUE]

Heartbeats(c) ==
    IF c.send_heartbeats THEN <<Record(c, "heartbeat", "heartbeat_response")>> ELSE <<>>

NewLayer(e) ==
    [state |-> "unconnected", handshake |-> "start", transcript |-> <<>>,
     expected |-> <<>>, hello |-> <<>>, version |-> Unfinalized, read |-> "null", write |-> "null",
     pending_read |-> "blank", pending_write |-> "blank", receive_heartbeats |-> FALSE,
     send_heartbeats |-> FALSE, connected |-> FALSE, ended |-> FALSE, transport |-> TRUE]

Init ==
    /\ \E hello \in Clients :
         layer = [e \in Ends |-> IF e = "client" THEN [NewLayer(e) EXCEPT !.hello = hello]
                                 ELSE NewLayer(e)]
    /\ log = [e \in Ends |-> <<>>]
    /\ read = [e \in Ends |-> 0]
    /\ batch = [e \in Ends |-> 0]
    /\ lost = FALSE
    /\ fatal = FALSE

\* End e goes on as c, having written records.
Become(e, c, records) ==
    /\ layer' = [layer EXCEPT ![e] = c]
    /\ log' = [log EXCEPT ![e] = @ \o records]
    /\ UNCHANGED fatal

Ignore == UNCHANGED <<layer, log, fatal>>
Crash == fatal' = TRUE /\ UNCHANGED <<layer, log>>

\* A RecordLayer lives while its application refers to it; an application lets
\* go when it closes the session or hears that it ended.
Alive(e) == layer[e].transport

\* can_send: the client says hello, the server waits for it.
Connect(e) ==
    /\ layer[e].state = "unconnected"
    /\ Alive(e)
    /\ LET c     == [layer[e] EXCEPT !.state = "receiving"]
           hello == Message("client_hello", c.hello)
       IN IF e = "client"
          THEN Become(e, InStateOf(Hearing(c, hello), "expecting_server_hello"),
                      Handshakes(c, <<hello>>))
          ELSE Become(e, InStateOf(c, "expecting_client_hello"), <<>>)
    /\ UNCHANGED <<read, batch, lost>>

\* --- handling one record -----------------------------------------------------

Incoming(e) == log[Peer(e)][read[e] + 1]

ReceiveBeyond(e) ==
    /\ batch[e] = 0
    /\ Alive(e)
    /\ ~ lost
    /\ layer[e].state = "receiving"
    /\ \E n \in 1..Batch :
         /\ read[e] + n <= Len(log[Peer(e)]) + 1
         /\ batch' = [batch EXCEPT ![e] = n]
    /\ UNCHANGED <<layer, log, read, lost, fatal>>

\* The socket brings the next few records in one receive.
Receive(e) ==
    /\ batch[e] = 0
    /\ Alive(e)
    /\ ~ lost
    /\ layer[e].state = "receiving"
    /\ \E n \in 1..Batch :
         /\ read[e] + n <= Len(log[Peer(e)])
         /\ batch' = [batch EXCEPT ![e] = n]
    /\ UNCHANGED <<layer, log, read, lost, fatal>>

Handling(e, type) ==
    /\ batch[e] > 0
    /\ layer[e].state = "receiving"
    /\ Incoming(e).type = type
    /\ read' = [read EXCEPT ![e] = @ + 1]
    /\ batch' = [batch EXCEPT ![e] = @ - 1]
    /\ UNCHANGED lost

\* ProcessRecord's checks, and Decrypt: the record has the session's version and
\* was written under the state it is read with.
Acceptable(c, record) ==
    /\ c.version # Unfinalized => record.version = c.version
    /\ record.cipher = c.read

Readable(e) == Acceptable(layer[e], Incoming(e))

FailUnclosed(e, c) ==
    Become(e, [c EXCEPT !.state = "failed", !.ended = TRUE],
           <<Record(c, "alert", "fatal")>>)

\* switch_to_state with an error: the application is told, then an alert is
\* written and the transport closed.  There must be a transport to write to.
Fail(e, c) ==
    IF c.transport
    THEN Become(e, [c EXCEPT !.state = "failed", !.ended = TRUE, !.transport = FALSE],
                <<Record(c, "alert", "fatal")>>)
    ELSE Crash

\* Any record that does not pass these checks.
Reject(e) ==
    \E type \in {"handshake", "change_cipher_spec", "alert", "heartbeat", "application_data"} :
        /\ Handling(e, type)
        /\ ~ Readable(e)
        /\ Fail(e, layer[e])

Arrives(e, handshake, kind) ==
    /\ Handling(e, "handshake")
    /\ Readable(e)
    /\ layer[e].handshake = handshake
    /\ Incoming(e).body.kind = kind

\* ServerHandshake: the flight of ServerHello, Certificate and ServerHelloDone.
ClientHello ==
    /\ Arrives("server", "expecting_client_hello", "client_hello")
    /\ LET c == Hearing(layer["server"], Incoming("server").body)
           hello == Incoming("server").body.value
           version == IF hello.version > High THEN High ELSE hello.version
           d == [c EXCEPT !.version = version, !.hello = hello,
                          !.receive_heartbeats = hello.heartbeats,
                          !.send_heartbeats = hello.heartbeats]
           flight == <<Message("server_hello", version), Message("certificate", "certificate"),
                       Message("server_hello_done", "empty")>>
       IN IF hello.version < Low
          THEN Fail("server", c)
          ELSE Become("server", [d EXCEPT !.transcript = @ \o flight,
                                          !.handshake = "expecting_client_key_exchange"],
                      Handshakes(d, flight))

ServerHello ==
    /\ Arrives("client", "expecting_server_hello", "server_hello")
    /\ LET version == Incoming("client").body.value
           c == Hearing(layer["client"], Incoming("client").body)
       IN IF version < Low \/ version > High
          THEN Fail("client", c)
          ELSE Become("client", [c EXCEPT !.version = version,
                                          !.handshake = "expecting_certificate"], <<>>)

Certificate ==
    /\ Arrives("client", "expecting_certificate", "certificate")
    /\ Become("client", InStateOf(Hearing(layer["client"], Incoming("client").body),
                                  "expecting_server_hello_done"), <<>>)

\* The client's key exchange, ChangeCipherSpec and Finished; what it expects of
\* the server's Finished is calculated now, and the transcript cleared.
ServerHelloDoneAs(eager) ==
    /\ Arrives("client", "expecting_server_hello_done", "server_hello_done")
    /\ LET c == Hearing(layer["client"], Incoming("client").body)
           secret == IF c.hello.secret = "offered" THEN c.hello.version ELSE c.version
           exchange == Message("client_key_exchange", secret)
           before == Append(c.transcript, exchange)
           finished == Finished("client", before, "keys")
           d == WriteChangeCipherSpec(CalculateKeys(c, "keys"))
       IN Become("client",
                 [d EXCEPT !.expected = Finished("server", Append(before, finished), "keys"),
                           !.transcript = <<>>,
                           !.handshake = "expecting_cipher_change",
                           !.connected = @ \/ eager],
                 Handshakes(c, <<exchange>>) \o <<Record(c, "change_cipher_spec", "empty")>>
                     \o Handshakes(d, <<finished>>))

ServerHelloDoneEager == ServerHelloDoneAs(TRUE)

ServerHelloDone == ServerHelloDoneAs(FALSE)

ExchangeKeys(keys, handshake) ==
    LET c == Hearing(layer["server"], Incoming("server").body)
    IN /\ Arrives("server", "expecting_client_key_exchange", "client_key_exchange")
       /\ Become("server", [CalculateKeys(c, keys) EXCEPT
                               !.expected = Finished("client", c.transcript, keys),
                               !.handshake = handshake], <<>>)

\* A secret that names another version than the hello's gives random keys.
KeysFor(secret) == IF secret = layer["server"].hello.version THEN "keys" ELSE "random"

ClientKeyExchangeUnchecked == ExchangeKeys("keys", "expecting_cipher_change")

ClientKeyExchangeUnswitched ==
    ExchangeKeys(KeysFor(Incoming("server").body.value), "expecting_client_key_exchange")

ClientKeyExchange ==
    ExchangeKeys(KeysFor(Incoming("server").body.value), "expecting_cipher_change")

\* The read state is switched before the handshake protocol is told; it reads
\* bytes in any other state, and is over in these.
ChangeCipherSpec(e) ==
    /\ Handling(e, "change_cipher_spec")
    /\ Readable(e)
    /\ LET c == [layer[e] EXCEPT !.read = layer[e].pending_read, !.pending_read = "blank"]
       IN CASE c.handshake = "expecting_cipher_change" ->
                 Become(e, InStateOf(c, "expecting_finished"), <<>>)
            [] c.handshake = "done" -> Become(e, c, <<>>)
            [] OTHER -> Crash

ClientFinished ==
    /\ Arrives("server", "expecting_finished", "finished")
    /\ LET c == Hearing(layer["server"], Incoming("server").body)
           finished == Finished("server", c.transcript, c.read)
           d == WriteChangeCipherSpec(c)
       IN IF Incoming("server").body # c.expected
          THEN Fail("server", c)
          ELSE Become("server",
                      [ConnectApplication(d) EXCEPT !.transcript = Append(@, finished)],
                      <<Record(c, "change_cipher_spec", "empty")>> \o Heartbeats(d)
                          \o Handshakes(d, <<finished>>))

ServerFinished ==
    /\ Arrives("client", "expecting_finished", "finished")
    /\ LET c == layer["client"]
       IN IF Incoming("client").body # c.expected
          THEN Fail("client", c)
          ELSE Become("client", ConnectApplication(c), Heartbeats(c))

\* A message the handshake does not expect ends it; while it waits for the
\* ChangeCipherSpec, or is over, messages are dropped.
Expected ==
    [expecting_client_hello |-> "client_hello",
     expecting_client_key_exchange |-> "client_key_exchange",
     expecting_server_hello |-> "server_hello",
     expecting_certificate |-> "certificate",
     expecting_server_hello_done |-> "server_hello_done",
     expecting_finished |-> "finished"]

Unexpected(e) ==
    /\ Handling(e, "handshake")
    /\ Readable(e)
    /\ IF layer[e].handshake \in DOMAIN Expected
       THEN /\ Incoming(e).body.kind # Expected[layer[e].handshake]
            /\ Fail(e, layer[e])
       ELSE Ignore

\* close_notify: the application is told and the transport closed; other alerts
\* are ignored.
Alert(e) ==
    /\ Handling(e, "alert")
    /\ Readable(e)
    /\ IF Incoming(e).body # "close_notify"
       THEN Ignore
       ELSE IF layer[e].transport
            THEN Become(e, [layer[e] EXCEPT !.ended = TRUE, !.transport = FALSE], <<>>)
            ELSE Crash

\* After any heartbeat HeartbeatProtocol is back in start_state, whose handler
\* throws when the event loop runs it.  A client that offers heartbeats is not
\* one of this code's; it ignores what it gets.
Heartbeat(e) ==
    /\ Handling(e, "heartbeat")
    /\ Readable(e)
    /\ IF layer[e].receive_heartbeats THEN Crash
       ELSE IF e = "client" /\ layer[e].hello.heartbeats THEN Ignore
       ELSE Fail(e, layer[e])

\* A Web::Server lets go of itself when it has closed, and the layer's reference
\* to it is weak.  A Web::Client stays with its owner, and ignores what comes.
Gone(e) == e = "server" /\ ~ layer[e].transport

\* Data goes to a connected application that is still there; one that fails on it
\* (a request that does not parse) fails the layer, as does one that is lost.
Data(e) ==
    /\ Handling(e, "application_data")
    /\ Readable(e)
    /\ IF layer[e].connected /\ ~ Gone(e)
       THEN Ignore \/ (e = "server" /\ Unparsed /\ Fail(e, layer[e]))
       ELSE Fail(e, layer[e])

\* --- applications and the connection ------------------------------------------

\* Where the application records of end e are in its log.
DataOf(e) == {i \in 1..Len(log[e]) : log[e][i].type = "application_data"}

Write(e) ==
    /\ layer[e].connected /\ Alive(e) /\ ~ layer[e].ended
    /\ Cardinality(DataOf(e)) < MaxData
    /\ Become(e, layer[e], <<Record(layer[e], "application_data", Cardinality(DataOf(e)) + 1)>>)
    /\ UNCHANGED <<read, batch, lost>>

Close(e) ==
    /\ e \in Closers
    /\ layer[e].connected /\ Alive(e) /\ ~ layer[e].ended
    /\ Become(e, [layer[e] EXCEPT !.transport = FALSE],
              <<Record(layer[e], "alert", "close_notify")>>)
    /\ UNCHANGED <<read, batch, lost>>

\* The socket reports the end of the stream: the other end has closed and all
\* it wrote was handled, or the connection was lost.
Ending(e) ==
    /\ batch[e] = 0
    /\ Alive(e)
    /\ lost \/ (~ Alive(Peer(e)) /\ read[e] = Len(log[Peer(e)]))
    /\ Become(e, [layer[e] EXCEPT !.ended = TRUE, !.transport = FALSE], <<>>)
    /\ UNCHANGED <<read, batch, lost>>

Lose ==
    /\ Lossy /\ ~ lost
    /\ lost' = TRUE
    /\ UNCHANGED <<layer, log, read, batch, fatal>>

Handle(e) ==
    \/ e = "server" /\ (ClientHello \/ ClientKeyExchange \/ ClientFinished)
    \/ e = "client" /\ (ServerHello \/ Certificate \/ ServerHelloDone \/ ServerFinished)
    \/ ChangeCipherSpec(e) \/ Alert(e) \/ Heartbeat(e) \/ Data(e)
    \/ Unexpected(e) \/ Reject(e)

Next ==
    /\ ~ fatal
    /\ \/ \E e \in Ends : Connect(e) \/ Receive(e) \/ Handle(e)
                          \/ Write(e) \/ Close(e) \/ Ending(e)
       \/ Lose

Spec == Init /\ [][Next]_vars

\* A worker finishes the receive it holds, and completions are dequeued in order.
Fairness ==
    \A e \in Ends : WF_vars(~ fatal /\ (Connect(e) \/ Receive(e) \/ Handle(e) \/ Ending(e)))

FairSpec == Spec /\ Fairness

(* ------------------------------ properties -------------------------------- *)

TypeOK ==
    /\ \A e \in Ends :
         /\ layer[e].state \in {"unconnected", "receiving", "failed"}
         /\ layer[e].handshake \in DOMAIN Expected \cup {"start", "expecting_cipher_change", "done"}
         /\ {layer[e].read, layer[e].write, layer[e].pending_read,
             layer[e].pending_write} \subseteq Ciphers
         /\ read[e] \in 0..Len(log[Peer(e)])
         /\ batch[e] \in 0..(Len(log[Peer(e)]) - read[e])
    /\ lost \in BOOLEAN /\ fatal \in BOOLEAN

\* The client puts in its secret the version it offered, as a server must check.
Compliant == LET h == layer["client"].hello
             IN h.secret = "offered" \/ h.version <= High

\* "we can get called back even before write_record_elements returns, so be ready
\* first": whatever the interleaving, each end reads every record of a compliant
\* peer with the cipher and version it was written with.
InStep ==
    Compliant => \A e \in Ends :
        batch[e] > 0 /\ layer[e].state = "receiving" => Readable(e)

\* Two ends with connected applications chose the same version and keys, the
\* server heard the client's very hello, and the client's secret named the
\* version of that hello ("designed to prevent rollback attacks").
Agreement ==
    (\A e \in Ends : layer[e].connected) =>
        /\ Compliant
        /\ layer["client"].version = layer["server"].version
        /\ layer["client"].hello = layer["server"].hello
        /\ \A e \in Ends : layer[e].write = "keys" /\ layer[e].read = "keys"

\* A client that offers a version the server has, and names it in its secret, is
\* never refused: both ends calculate the same keys and the same verify data, and
\* only an application that fails on what it reads makes a layer fail.
Unrefused ==
    Compliant /\ layer["client"].hello.version >= Low =>
        \A e \in Ends : layer[e].state = "failed" => Unparsed /\ layer[e].connected

\* No step throws a FatalError or uses a transport that was closed: true of a
\* session that the server's application does not close.
NoCrash == ~ fatal

\* "A Finished message is always sent immediately after a change cipher spec
\* message" (Reference/rfc5246.txt).
FinishedFollowsChange ==
    \A e \in Ends : \A i \in 1..Len(log[e]) :
        log[e][i].type = "change_cipher_spec" =>
            /\ i < Len(log[e])
            /\ log[e][i + 1].type = "handshake"
            /\ log[e][i + 1].body.kind = "finished"

\* What an application sees of the other: the channel TLS promises it.
Handled(e) == {i \in 1..read[e] : log[Peer(e)][i].type = "application_data"}
Channel == INSTANCE SecureChannel WITH
    up <- [e \in Ends |-> layer[e].connected],
    ended <- [e \in Ends |-> layer[e].ended],
    wrote <- [e \in Ends |-> Cardinality(DataOf(e))],
    got <- [e \in Ends |-> Cardinality(Handled(e))]
ChannelSafety == Channel!Spec

\* Every session gets somewhere: each application is connected or told of the end,
\* and what one wrote reaches the other unless that one is gone.
Settles ==
    /\ <>(\A e \in Ends : layer[e].connected \/ layer[e].ended)
    /\ \A e \in Ends, n \in 1..MaxData :
         Cardinality(DataOf(e)) >= n ~> Cardinality(Handled(Peer(e))) >= n \/ ~ Alive(Peer(e))
==============================================================================
