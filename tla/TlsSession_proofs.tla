--------------------------- MODULE TlsSession_proofs ---------------------------
(* What is proved about TlsSession for every set of clients, size of receives, *)
(* amount of data and choice of closers: types, that both ends stay in step,   *)
(* that connected ends agree, that a compliant client is not refused, that     *)
(* nothing crashes when one end closes, and that the session implements the    *)
(* safety of SecureChannel.                                                    *)
EXTENDS TlsSession, FiniteSetTheorems, SequenceTheorems, TLAPS

USE TlsAssumption

-------------------------------------------------------------------------------
(* Sequences, of whatever elements.                                            *)

IsSequence(s) == Len(s) \in Nat /\ s = [i \in 1..Len(s) |-> s[i]]

LEMMA SequenceSet ==
    ASSUME NEW s, IsSequence(s)
    PROVE  \E S : s \in Seq(S)
<1> DEFINE S == {s[i] : i \in 1..Len(s)}
<1>1. s \in [1..Len(s) -> S]
  BY DEF IsSequence
<1>2. s \in Seq(S)
  BY <1>1, SMT DEF IsSequence
<1> QED BY <1>2

LEMMA SeqIsSequence ==
    ASSUME NEW S, NEW s \in Seq(S)
    PROVE  IsSequence(s)
BY DEF IsSequence

LEMMA Concatenation ==
    ASSUME NEW s, NEW t, IsSequence(s), IsSequence(t)
    PROVE  /\ IsSequence(s \o t)
           /\ Len(s \o t) = Len(s) + Len(t)
           /\ \A i \in 1..Len(s) : (s \o t)[i] = s[i]
           /\ \A i \in 1..Len(t) : (s \o t)[Len(s) + i] = t[i]
<1>1. PICK S : s \in Seq(S)
  BY SequenceSet
<1>2. PICK T : t \in Seq(T)
  BY SequenceSet
<1> DEFINE U == S \cup T
<1>3. s \in Seq(U) /\ t \in Seq(U)
  BY <1>1, <1>2
<1> HIDE DEF U
<1>4. s \o t \in Seq(U)
  BY <1>3
<1>5. IsSequence(s \o t)
  BY <1>4, SeqIsSequence
<1>6. Len(s) \in Nat /\ Len(t) \in Nat
  BY DEF IsSequence
<1> QED BY <1>3, <1>5, <1>6, ConcatProperties

LEMMA Same ==
    ASSUME NEW s, NEW t, IsSequence(s), IsSequence(t), Len(s) = Len(t),
           \A i \in 1..Len(s) : s[i] = t[i]
    PROVE  s = t
BY DEF IsSequence

LEMMA AppendIsConcatenation ==
    ASSUME NEW s, IsSequence(s), NEW x
    PROVE  Append(s, x) = s \o <<x>>
<1>1. PICK S : s \in Seq(S)
  BY SequenceSet
<1> DEFINE U == S \cup {x}
<1>2. s \in Seq(U) /\ x \in U
  BY <1>1
<1> QED BY <1>2, AppendIsConcat

LEMMA Joined ==
    ASSUME NEW s, NEW t, NEW u, IsSequence(s), IsSequence(t), IsSequence(u),
           Len(u) = Len(s) + Len(t),
           \A i \in 1..Len(s) : u[i] = s[i],
           \A i \in 1..Len(t) : u[Len(s) + i] = t[i]
    PROVE  s \o t = u
<1>1. /\ IsSequence(s \o t)
      /\ Len(s \o t) = Len(u)
      /\ \A i \in 1..Len(s) : (s \o t)[i] = s[i]
      /\ \A i \in 1..Len(t) : (s \o t)[Len(s) + i] = t[i]
  BY Concatenation
<1>2. Len(s) \in Nat /\ Len(t) \in Nat
  BY DEF IsSequence
<1>3. ASSUME NEW i \in 1..Len(u), i > Len(s)
      PROVE  (s \o t)[i] = u[i]
  <2>1. i - Len(s) \in 1..Len(t) /\ Len(s) + (i - Len(s)) = i
    BY <1>2, <1>3
  <2> QED BY <1>1, <2>1
<1>4. \A i \in 1..Len(u) : (s \o t)[i] = u[i]
  BY <1>1, <1>2, <1>3
<1> QED BY <1>1, <1>4, Same

LEMMA Tuples ==
    /\ IsSequence(<<>>) /\ Len(<<>>) = 0
    /\ \A a : IsSequence(<<a>>) /\ Len(<<a>>) = 1
    /\ \A a, b : IsSequence(<<a, b>>) /\ Len(<<a, b>>) = 2
    /\ \A a, b, c : IsSequence(<<a, b, c>>) /\ Len(<<a, b, c>>) = 3
    /\ \A a, b, c, d : IsSequence(<<a, b, c, d>>) /\ Len(<<a, b, c, d>>) = 4
    /\ \A a, b, c, d, e : IsSequence(<<a, b, c, d, e>>) /\ Len(<<a, b, c, d, e>>) = 5
BY DEF IsSequence

\* The transcripts of the two ends, put together in their different ways.
LEMMA Transcripts ==
    /\ \A a : Append(<<>>, a) = <<a>>
    /\ \A a, b : Append(<<a>>, b) = <<a, b>>
    /\ \A a, b, c : Append(<<a, b>>, c) = <<a, b, c>>
    /\ \A a, b, c, d : Append(<<a, b, c>>, d) = <<a, b, c, d>>
    /\ \A a, b, c, d, e : Append(<<a, b, c, d>>, e) = <<a, b, c, d, e>>
    /\ \A a, b, c, d : <<a>> \o <<b, c, d>> = <<a, b, c, d>>
<1>1. ASSUME NEW a
      PROVE  Append(<<>>, a) = <<a>>
  <2>1. \A i \in 1..Len(<<>>) : <<a>>[i] = <<>>[i]
    BY Tuples
  <2>2. \A i \in 1..Len(<<a>>) : <<a>>[Len(<<>>) + i] = <<a>>[i]
    BY Tuples
  <2>3. Len(<<a>>) = Len(<<>>) + Len(<<a>>)
    BY Tuples
  <2>4. IsSequence(<<a>>) /\ IsSequence(<<>>) /\ IsSequence(<<a>>)
    BY Tuples
  <2>5. Append(<<>>, a) = <<>> \o <<a>>
    BY <2>4, AppendIsConcatenation
  <2>6. <<>> \o <<a>> = <<a>>
    BY <2>1, <2>2, <2>3, <2>4, Joined
  <2> QED BY <2>5, <2>6
<1>2. ASSUME NEW a, NEW b
      PROVE  Append(<<a>>, b) = <<a, b>>
  <2>1. \A i \in 1..Len(<<a>>) : <<a, b>>[i] = <<a>>[i]
    BY Tuples
  <2>2. \A i \in 1..Len(<<b>>) : <<a, b>>[Len(<<a>>) + i] = <<b>>[i]
    BY Tuples
  <2>3. Len(<<a, b>>) = Len(<<a>>) + Len(<<b>>)
    BY Tuples
  <2>4. IsSequence(<<a, b>>) /\ IsSequence(<<a>>) /\ IsSequence(<<b>>)
    BY Tuples
  <2>5. Append(<<a>>, b) = <<a>> \o <<b>>
    BY <2>4, AppendIsConcatenation
  <2>6. <<a>> \o <<b>> = <<a, b>>
    BY <2>1, <2>2, <2>3, <2>4, Joined
  <2> QED BY <2>5, <2>6
<1>3. ASSUME NEW a, NEW b, NEW c
      PROVE  Append(<<a, b>>, c) = <<a, b, c>>
  <2>1. \A i \in 1..Len(<<a, b>>) : <<a, b, c>>[i] = <<a, b>>[i]
    BY Tuples
  <2>2. \A i \in 1..Len(<<c>>) : <<a, b, c>>[Len(<<a, b>>) + i] = <<c>>[i]
    BY Tuples
  <2>3. Len(<<a, b, c>>) = Len(<<a, b>>) + Len(<<c>>)
    BY Tuples
  <2>4. IsSequence(<<a, b, c>>) /\ IsSequence(<<a, b>>) /\ IsSequence(<<c>>)
    BY Tuples
  <2>5. Append(<<a, b>>, c) = <<a, b>> \o <<c>>
    BY <2>4, AppendIsConcatenation
  <2>6. <<a, b>> \o <<c>> = <<a, b, c>>
    BY <2>1, <2>2, <2>3, <2>4, Joined
  <2> QED BY <2>5, <2>6
<1>4. ASSUME NEW a, NEW b, NEW c, NEW d
      PROVE  Append(<<a, b, c>>, d) = <<a, b, c, d>>
  <2>1. \A i \in 1..Len(<<a, b, c>>) : <<a, b, c, d>>[i] = <<a, b, c>>[i]
    BY Tuples
  <2>2. \A i \in 1..Len(<<d>>) : <<a, b, c, d>>[Len(<<a, b, c>>) + i] = <<d>>[i]
    BY Tuples
  <2>3. Len(<<a, b, c, d>>) = Len(<<a, b, c>>) + Len(<<d>>)
    BY Tuples
  <2>4. IsSequence(<<a, b, c, d>>) /\ IsSequence(<<a, b, c>>) /\ IsSequence(<<d>>)
    BY Tuples
  <2>5. Append(<<a, b, c>>, d) = <<a, b, c>> \o <<d>>
    BY <2>4, AppendIsConcatenation
  <2>6. <<a, b, c>> \o <<d>> = <<a, b, c, d>>
    BY <2>1, <2>2, <2>3, <2>4, Joined
  <2> QED BY <2>5, <2>6
<1>5. ASSUME NEW a, NEW b, NEW c, NEW d, NEW e
      PROVE  Append(<<a, b, c, d>>, e) = <<a, b, c, d, e>>
  <2>1. \A i \in 1..Len(<<a, b, c, d>>) : <<a, b, c, d, e>>[i] = <<a, b, c, d>>[i]
    BY Tuples
  <2>2. \A i \in 1..Len(<<e>>) : <<a, b, c, d, e>>[Len(<<a, b, c, d>>) + i] = <<e>>[i]
    BY Tuples
  <2>3. Len(<<a, b, c, d, e>>) = Len(<<a, b, c, d>>) + Len(<<e>>)
    BY Tuples
  <2>4. IsSequence(<<a, b, c, d, e>>) /\ IsSequence(<<a, b, c, d>>) /\ IsSequence(<<e>>)
    BY Tuples
  <2>5. Append(<<a, b, c, d>>, e) = <<a, b, c, d>> \o <<e>>
    BY <2>4, AppendIsConcatenation
  <2>6. <<a, b, c, d>> \o <<e>> = <<a, b, c, d, e>>
    BY <2>1, <2>2, <2>3, <2>4, Joined
  <2> QED BY <2>5, <2>6
<1>6. ASSUME NEW a, NEW b, NEW c, NEW d
      PROVE  <<a>> \o <<b, c, d>> = <<a, b, c, d>>
  <2>1. \A i \in 1..Len(<<a>>) : <<a, b, c, d>>[i] = <<a>>[i]
    BY Tuples
  <2>2. \A i \in 1..Len(<<b, c, d>>) : <<a, b, c, d>>[Len(<<a>>) + i] = <<b, c, d>>[i]
    BY Tuples
  <2>3. Len(<<a, b, c, d>>) = Len(<<a>>) + Len(<<b, c, d>>)
    BY Tuples
  <2>4. IsSequence(<<a, b, c, d>>) /\ IsSequence(<<a>>) /\ IsSequence(<<b, c, d>>)
    BY Tuples
  <2> QED BY <2>1, <2>2, <2>3, <2>4, Joined
<1> QED BY <1>1, <1>2, <1>3, <1>4, <1>5, <1>6

\* Records put together.
LEMMA Pieces ==
    /\ \A a, b : <<a>> \o <<b>> = <<a, b>>
    /\ \A a, b, c : <<a, b>> \o <<c>> = <<a, b, c>>
    /\ \A a : <<a>> \o <<>> = <<a>>
<1>3. ASSUME NEW a PROVE <<a>> \o <<>> = <<a>>
  <2>1. <<a>> \in Seq({a})
    OBVIOUS
  <2> QED BY <2>1, ConcatEmptySeq
<1>1. ASSUME NEW a, NEW b PROVE <<a>> \o <<b>> = <<a, b>>
  <2>1. IsSequence(<<a>>)
    BY Tuples
  <2>2. Append(<<a>>, b) = <<a>> \o <<b>>
    BY <2>1, AppendIsConcatenation
  <2> QED BY <2>2, Transcripts, Zenon
<1>2. ASSUME NEW a, NEW b, NEW c PROVE <<a, b>> \o <<c>> = <<a, b, c>>
  <2>1. IsSequence(<<a, b>>)
    BY Tuples
  <2>2. Append(<<a, b>>, c) = <<a, b>> \o <<c>>
    BY <2>1, AppendIsConcatenation
  <2> QED BY <2>2, Transcripts, Zenon
<1> QED BY <1>1, <1>2, <1>3

\* What a log holds when records are added to it.
LEMMA Added ==
    ASSUME NEW l, IsSequence(l), NEW r, IsSequence(r)
    PROVE  /\ IsSequence(l \o r) /\ Len(l) \in Nat
           /\ Len(l \o r) = Len(l) + Len(r)
           /\ \A i \in 1..Len(l) : (l \o r)[i] = l[i]
           /\ Len(r) >= 1 => (l \o r)[Len(l) + 1] = r[1]
           /\ Len(r) >= 2 => (l \o r)[Len(l) + 2] = r[2]
           /\ Len(r) >= 3 => (l \o r)[Len(l) + 3] = r[3]
<1>1. /\ IsSequence(l \o r)
      /\ Len(l \o r) = Len(l) + Len(r)
      /\ \A i \in 1..Len(l) : (l \o r)[i] = l[i]
      /\ \A i \in 1..Len(r) : (l \o r)[Len(l) + i] = r[i]
  BY Concatenation
<1>2. Len(l) \in Nat /\ Len(r) \in Nat
  BY DEF IsSequence
<1> QED BY <1>1, <1>2

LEMMA OneHandshake ==
    ASSUME NEW c, NEW m
    PROVE  Handshakes(c, <<m>>) = <<Record(c, "handshake", m)>>
BY DEF Handshakes

LEMMA ThreeHandshakes ==
    ASSUME NEW c, NEW a, NEW b, NEW d
    PROVE  Handshakes(c, <<a, b, d>>) =
               <<Record(c, "handshake", a), Record(c, "handshake", b), Record(c, "handshake", d)>>
BY DEF Handshakes

-------------------------------------------------------------------------------
(* What the two ends write when the client has said hello h.                   *)

Chosen(h) == IF h.version > High THEN High ELSE h.version
Complies(h) == h.secret = "offered" \/ h.version <= High
Secret(h) == IF h.secret = "offered" THEN h.version ELSE Chosen(h)

\* The keys the server calculates from that secret.
ServerKeys(h) == IF Complies(h) THEN "keys" ELSE "random"

\* A server that may send heartbeats puts one before its Finished.
Beat(h) == IF h.heartbeats THEN 1 ELSE 0

Greeting(h) == Message("client_hello", h)
Answer(h) == Message("server_hello", Chosen(h))
Certified == Message("certificate", "certificate")
HelloDone == Message("server_hello_done", "empty")
Exchange(h) == Message("client_key_exchange", Secret(h))

Flight(h) == <<Greeting(h), Answer(h), Certified, HelloDone>>
Exchanged(h) == <<Greeting(h), Answer(h), Certified, HelloDone, Exchange(h)>>

ClientVerify(h) == Finished("client", Exchanged(h), "keys")
ServerVerify(h) == Finished("server", Append(Exchanged(h), ClientVerify(h)), "keys")

Wrote(type, cipher, version, body) ==
    [type |-> type, cipher |-> cipher, version |-> version, body |-> body]

\* Once connected an end writes data, and at most one alert.
Later(h, r) ==
    /\ r.type \in {"application_data", "alert"}
    /\ r.cipher = "keys" /\ r.version = Chosen(h)
    /\ r.type = "alert" => r.body \in {"close_notify", "fatal"}

\* Record r is the i-th that the client, or the server, writes.
ClientWrites(h, i, r) ==
    /\ i = 1 => r = Wrote("handshake", "null", Unfinalized, Greeting(h))
    /\ i = 2 => r = Wrote("handshake", "null", Chosen(h), Exchange(h))
    /\ i = 3 => r = Wrote("change_cipher_spec", "null", Chosen(h), "empty")
    /\ i = 4 => r = Wrote("handshake", "keys", Chosen(h), ClientVerify(h))
    /\ i > 4 => Later(h, r)

ServerWrites(h, i, r) ==
    /\ i = 1 => r = IF h.version < Low
                    THEN Wrote("alert", "null", Unfinalized, "fatal")
                    ELSE Wrote("handshake", "null", Chosen(h), Answer(h))
    /\ i = 2 => r = Wrote("handshake", "null", Chosen(h), Certified)
    /\ i = 3 => r = Wrote("handshake", "null", Chosen(h), HelloDone)
    /\ i = 4 => r = IF Complies(h)
                    THEN Wrote("change_cipher_spec", "null", Chosen(h), "empty")
                    ELSE Wrote("alert", "null", Chosen(h), "fatal")
    /\ i = 5 /\ h.heartbeats =>
            r = Wrote("heartbeat", "keys", Chosen(h), "heartbeat_response")
    /\ i = 5 + Beat(h) => r = Wrote("handshake", "keys", Chosen(h), ServerVerify(h))
    /\ i > 5 + Beat(h) => Later(h, r)

-------------------------------------------------------------------------------
(* The inductive invariant: how the layer c of an end, the log l it has        *)
(* written and the number n of records it has read fit its handshake state.    *)

Fields == DOMAIN NewLayer("client")

IsLayer(c) ==
    /\ DOMAIN c = Fields
    /\ c.state \in {"unconnected", "receiving", "failed"}
    /\ c.connected \in BOOLEAN /\ c.ended \in BOOLEAN /\ c.transport \in BOOLEAN
    /\ c.receive_heartbeats \in BOOLEAN /\ c.send_heartbeats \in BOOLEAN

ClientStarted ==
    {"expecting_server_hello", "expecting_certificate", "expecting_server_hello_done"}
ClientKeyed == {"expecting_cipher_change", "expecting_finished", "done"}
ServerFlown ==
    {"expecting_client_key_exchange", "expecting_cipher_change", "expecting_finished"}

ClientLayer(h, c) ==
    /\ c.hello = h
    /\ c.handshake \in {"start"} \cup ClientStarted \cup ClientKeyed
    /\ c.handshake = "start" <=> c.state = "unconnected"
    /\ c.state # "failed"
    /\ c.version = IF c.handshake \in {"start", "expecting_server_hello"}
                   THEN Unfinalized ELSE Chosen(h)
    /\ c.write = IF c.handshake \in ClientKeyed THEN "keys" ELSE "null"
    /\ c.read = IF c.handshake \in {"expecting_finished", "done"} THEN "keys" ELSE "null"
    /\ c.pending_read = IF c.handshake = "expecting_cipher_change" THEN "keys" ELSE "blank"
    /\ c.pending_write = "blank"
    /\ c.connected <=> c.handshake = "done"
    /\ ~ c.receive_heartbeats /\ ~ c.send_heartbeats
    /\ c.handshake = "start" => c.transcript = <<>>
    /\ c.handshake = "expecting_server_hello" => c.transcript = <<Greeting(h)>>
    /\ c.handshake = "expecting_certificate" => c.transcript = <<Greeting(h), Answer(h)>>
    /\ c.handshake = "expecting_server_hello_done" =>
            c.transcript = <<Greeting(h), Answer(h), Certified>>
    /\ c.handshake \in ClientKeyed => c.expected = ServerVerify(h)

\* It fails only a client that is too old, or whose secret names another version,
\* or when its application fails on what it reads.
ServerLayer(h, c) ==
    /\ c.handshake \in {"start", "expecting_client_hello"} \cup ServerFlown \cup {"done"}
    /\ c.handshake = "start" <=> c.state = "unconnected"
    /\ c.state = "failed" =>
          \/ c.handshake = "expecting_client_hello" /\ h.version < Low
          \/ c.handshake = "expecting_finished" /\ ~ Complies(h)
          \/ c.handshake = "done" /\ Unparsed
    /\ c.handshake \in ServerFlown \cup {"done"} =>
          h.version >= Low /\ c.hello = h /\ c.send_heartbeats = h.heartbeats
    /\ c.handshake = "done" => Complies(h)
    /\ c.version = IF c.handshake \in {"start", "expecting_client_hello"}
                   THEN Unfinalized ELSE Chosen(h)
    /\ c.write = IF c.handshake = "done" THEN "keys" ELSE "null"
    /\ c.read = IF c.handshake \in {"expecting_finished", "done"} THEN ServerKeys(h) ELSE "null"
    /\ c.pending_read = IF c.handshake = "expecting_cipher_change"
                        THEN ServerKeys(h) ELSE "blank"
    /\ c.pending_write = IF c.handshake \in {"expecting_cipher_change", "expecting_finished"}
                         THEN ServerKeys(h) ELSE "blank"
    /\ c.connected <=> c.handshake = "done"
    /\ c.handshake \in {"start", "expecting_client_hello"} /\ c.state # "failed" =>
            c.transcript = <<>>
    /\ c.handshake = "expecting_client_key_exchange" => c.transcript = Flight(h)
    /\ c.handshake \in {"expecting_cipher_change", "expecting_finished"} =>
            /\ c.transcript = Exchanged(h)
            /\ c.expected = Finished("client", Exchanged(h), ServerKeys(h))

ClientLog(h, c, l) ==
    /\ c.handshake = "start" => Len(l) = 0
    /\ c.handshake \in ClientStarted => Len(l) = 1
    /\ c.handshake \in ClientKeyed => Len(l) >= 4
    /\ c.handshake # "done" => Len(l) <= 4
    /\ \A i \in 1..Len(l) : ClientWrites(h, i, l[i])

ServerLog(h, c, l) ==
    /\ c.handshake \in {"start", "expecting_client_hello"} =>
            Len(l) = IF c.state = "failed" THEN 1 ELSE 0
    /\ c.handshake \in ServerFlown => Len(l) = IF c.state = "failed" THEN 4 ELSE 3
    /\ c.handshake = "done" => Len(l) >= 5 + Beat(h)
    /\ \A i \in 1..Len(l) : ServerWrites(h, i, l[i])

ClientHeard(h, c, n) ==
    /\ c.handshake = "start" => n = 0
    /\ c.handshake = "expecting_server_hello" => n = 0 \/ (n = 1 /\ h.version < Low)
    /\ c.handshake \notin {"start", "expecting_server_hello"} => h.version >= Low
    /\ c.handshake = "expecting_certificate" => n = 1
    /\ c.handshake = "expecting_server_hello_done" => n = 2
    /\ c.handshake = "expecting_cipher_change" => n = 3 \/ (n = 4 /\ ~ Complies(h))
    /\ c.handshake = "expecting_finished" =>
            Complies(h) /\ (n = 4 \/ (n = 5 /\ h.heartbeats))
    /\ c.handshake = "done" => Complies(h) /\ n >= 5 + Beat(h)

ServerHeard(h, c, n) ==
    /\ c.handshake \in {"start", "expecting_client_hello"} =>
            n = IF c.state = "failed" THEN 1 ELSE 0
    /\ c.handshake = "expecting_client_key_exchange" => n = 1
    /\ c.handshake = "expecting_cipher_change" => n = 2
    /\ c.handshake = "expecting_finished" => n = IF c.state = "failed" THEN 4 ELSE 3
    /\ c.handshake = "done" => n >= 4

\* An end without transport handles nothing any more, but for what came with the
\* receive in which its own application closed.  An alert is the last it wrote, and a
\* close_notify is of an application that closes.
Leaving(e, c, l, b) ==
    /\ c.ended => ~ c.transport
    /\ c.state = "failed" => c.ended
    /\ ~ c.transport /\ c.state = "receiving" /\ b > 0 =>
            c.handshake = "done" /\ ~ c.ended /\ e \in Closers
    /\ \A i \in 1..Len(l) : l[i].type = "alert" =>
            /\ i = Len(l) /\ ~ c.transport
            /\ l[i].body = "close_notify" => e \in Closers

EndOK(h, e, c, l, n, b) ==
    /\ IsLayer(c) /\ IsSequence(l) /\ n \in Nat /\ b \in Nat
    /\ e = "client" => ClientLayer(h, c) /\ ClientLog(h, c, l) /\ ClientHeard(h, c, n)
    /\ e = "server" => ServerLayer(h, c) /\ ServerLog(h, c, l) /\ ServerHeard(h, c, n)
    /\ Leaving(e, c, l, b)

Hellos == [version : Nat, secret : {"offered", "negotiated"}, heartbeats : BOOLEAN]
Hello == layer["client"].hello

Shapes ==
    /\ layer = [e \in Ends |-> layer[e]] /\ log = [e \in Ends |-> log[e]]
    /\ read = [e \in Ends |-> read[e]] /\ batch = [e \in Ends |-> batch[e]]
    /\ \A e \in Ends : read[e] + batch[e] <= Len(log[Peer(e)])
    /\ Hello \in Clients /\ Hello \in Hellos
    /\ lost \in BOOLEAN /\ fatal \in BOOLEAN

IInv ==
    /\ Shapes
    /\ \A e \in Ends : EndOK(Hello, e, layer[e], log[e], read[e], batch[e])

-------------------------------------------------------------------------------
(* Steps.                                                                      *)

LEMMA TwoEnds ==
    /\ Peer("client") = "server" /\ Peer("server") = "client"
    /\ "client" \in Ends /\ "server" \in Ends
    /\ \A e \in Ends : Peer(e) \in Ends /\ Peer(e) # e /\ (e = "client" \/ e = "server")
    /\ \A e, f \in Ends : f = e \/ f = Peer(e)
BY DEF Peer, Ends

\* When one end goes on as c, having written l, with b more records to read after
\* the n-th, only that end needs a look.
LEMMA GoesOn ==
    ASSUME IInv, NEW e \in Ends, NEW c, NEW l, NEW n, NEW b,
           layer' = [layer EXCEPT ![e] = c], log' = [log EXCEPT ![e] = l],
           read' = [read EXCEPT ![e] = n], batch' = [batch EXCEPT ![e] = b],
           EndOK(Hello, e, c, l, n, b),
           n + b <= Len(log[Peer(e)]), Len(l) >= Len(log[e]),
           lost' \in BOOLEAN, fatal' \in BOOLEAN
    PROVE  IInv'
<1> DEFINE p == Peer(e)
<1>1. p \in Ends /\ p # e /\ Peer(p) = e /\ \A f \in Ends : f = e \/ f = p
  BY DEF Peer, Ends
<1>2. layer'[e] = c /\ log'[e] = l /\ read'[e] = n /\ batch'[e] = b
  BY DEF IInv, Shapes
<1>3. layer'[p] = layer[p] /\ log'[p] = log[p] /\ read'[p] = read[p] /\ batch'[p] = batch[p]
  BY <1>1 DEF IInv, Shapes
<1>4. Hello' = Hello
  <2>1. CASE e = "client"
    BY <2>1, <1>2 DEF EndOK, ClientLayer, Hello
  <2>2. CASE e # "client"
    BY <2>2, <1>1, <1>3 DEF Hello, Ends
  <2> QED BY <2>1, <2>2
<1>5. EndOK(Hello, e, c, l, n, b)' /\ EndOK(Hello, p, layer[p], log[p], read[p], batch[p])
  BY <1>1, <1>4 DEF IInv
<1>6. Shapes'
  <2>1. /\ layer' = [f \in Ends |-> layer'[f]] /\ log' = [f \in Ends |-> log'[f]]
        /\ read' = [f \in Ends |-> read'[f]] /\ batch' = [f \in Ends |-> batch'[f]]
    BY DEF IInv, Shapes
  <2>2. \A f \in Ends : read'[f] + batch'[f] <= Len(log'[Peer(f)])
    <3>1. read'[e] + batch'[e] <= Len(log'[p])
      BY <1>2, <1>3
    <3>2. read[p] + batch[p] <= Len(log[e]) /\ Len(log[e]) <= Len(l)
      BY <1>1 DEF IInv, Shapes
    <3>3. read[p] \in Nat /\ batch[p] \in Nat /\ Len(log[e]) \in Nat /\ Len(l) \in Nat
      BY <1>1 DEF IInv, EndOK, IsSequence
    <3>4. read'[p] + batch'[p] <= Len(log'[e])
      BY <1>2, <1>3, <3>2, <3>3
    <3> QED BY <1>1, <3>1, <3>4
  <2>3. Hello' \in Clients /\ Hello' \in Hellos
    BY <1>4 DEF IInv, Shapes
  <2> QED BY <2>1, <2>2, <2>3 DEF Shapes
<1>7. \A f \in Ends : EndOK(Hello, f, layer[f], log[f], read[f], batch[f])'
  <2>1. EndOK(Hello, e, layer[e], log[e], read[e], batch[e])'
    BY <1>2, <1>4
  <2>2. EndOK(Hello, p, layer[p], log[p], read[p], batch[p])'
    BY <1>3, <1>4, <1>5
  <2> QED BY <1>1, <2>1, <2>2
<1> QED BY <1>6, <1>7 DEF IInv

LEMMA InductiveStart == Init => IInv
<1> SUFFICES ASSUME Init PROVE IInv
  OBVIOUS
<1>1. PICK h \in Clients :
        layer = [e \in Ends |-> IF e = "client" THEN [NewLayer(e) EXCEPT !.hello = h]
                                ELSE NewLayer(e)]
  BY DEF Init
<1>2. layer["client"] = [NewLayer("client") EXCEPT !.hello = h]
      /\ layer["server"] = NewLayer("server")
  BY <1>1, TwoEnds
<1>3. Hello = h /\ h \in Hellos
  BY <1>2 DEF Hello, NewLayer, Hellos
<1>4. \A e \in Ends : log[e] = <<>> /\ read[e] = 0 /\ batch[e] = 0
  BY DEF Init
<1>5. Shapes
  <2>1. layer = [e \in Ends |-> layer[e]]
    BY <1>1, Zenon
  <2>2. /\ log = [e \in Ends |-> log[e]]
        /\ read = [e \in Ends |-> read[e]] /\ batch = [e \in Ends |-> batch[e]]
    BY DEF Init
  <2>3. \A e \in Ends : read[e] + batch[e] <= Len(log[Peer(e)])
    BY <1>4, TwoEnds, Tuples
  <2>4. lost \in BOOLEAN /\ fatal \in BOOLEAN
    BY DEF Init
  <2> QED BY <1>3, <2>1, <2>2, <2>3, <2>4 DEF Shapes
<1>6. EndOK(h, "client", layer["client"], log["client"], read["client"], batch["client"])
  BY <1>2, <1>4, TwoEnds, Tuples
     DEF EndOK, NewLayer, Fields, IsLayer, ClientLayer, ClientLog, ClientHeard, Leaving,
         ClientStarted, ClientKeyed
<1>7. EndOK(h, "server", layer["server"], log["server"], read["server"], batch["server"])
  BY <1>2, <1>4, TwoEnds, Tuples
     DEF EndOK, NewLayer, Fields, IsLayer, ServerLayer, ServerLog, ServerHeard, Leaving,
         ServerFlown
<1> QED BY <1>3, <1>5, <1>6, <1>7, TwoEnds DEF IInv

\* An end reads the next record of the receive it handles.
LEMMA ToRead ==
    ASSUME IInv, NEW e \in Ends, batch[e] > 0
    PROVE  /\ read[e] \in Nat /\ batch[e] \in Nat
           /\ IsSequence(log[Peer(e)])
           /\ read[e] + 1 \in 1..Len(log[Peer(e)])
<1>1. Peer(e) \in Ends
  BY TwoEnds
<1>2. read[e] \in Nat /\ batch[e] \in Nat /\ read[e] + batch[e] <= Len(log[Peer(e)])
  BY DEF IInv, Shapes, EndOK
<1>3. IsSequence(log[Peer(e)])
  BY <1>1 DEF IInv, EndOK
<1>4. Len(log[Peer(e)]) \in Nat
  BY <1>3 DEF IsSequence
<1> QED BY <1>2, <1>3, <1>4

LEMMA Reading ==
    ASSUME IInv, NEW e \in Ends, NEW type, Handling(e, type)
    PROVE  /\ layer[e].state = "receiving" /\ batch[e] > 0
           /\ read[e] \in Nat /\ batch[e] \in Nat
           /\ read' = [read EXCEPT ![e] = read[e] + 1]
           /\ batch' = [batch EXCEPT ![e] = batch[e] - 1]
           /\ batch[e] - 1 \in Nat /\ (read[e] + 1) + (batch[e] - 1) <= Len(log[Peer(e)])
           /\ lost' \in BOOLEAN
           /\ Incoming(e).type = type
<1>1. read[e] \in Nat /\ batch[e] \in Nat /\ read[e] + batch[e] <= Len(log[Peer(e)])
  BY DEF IInv, Shapes, EndOK
<1>2. /\ layer[e].state = "receiving" /\ batch[e] > 0
      /\ read' = [read EXCEPT ![e] = read[e] + 1]
      /\ batch' = [batch EXCEPT ![e] = batch[e] - 1]
      /\ lost' = lost /\ Incoming(e).type = type
  BY DEF Handling
<1>3. lost' \in BOOLEAN
  BY <1>2 DEF IInv, Shapes
<1>4. Len(log[Peer(e)]) \in Nat
  BY TwoEnds DEF IInv, EndOK, IsSequence
<1> QED BY <1>1, <1>2, <1>3, <1>4

\* It reads and does nothing else,
LEMMA ReadOnly ==
    ASSUME IInv, NEW e \in Ends, NEW type, Handling(e, type), UNCHANGED <<layer, log>>,
           fatal' \in BOOLEAN,
           EndOK(Hello, e, layer[e], log[e], read[e] + 1, batch[e] - 1)
    PROVE  IInv'
<1>1. layer' = [layer EXCEPT ![e] = layer[e]] /\ log' = [log EXCEPT ![e] = log[e]]
  BY DEF IInv, Shapes
<1>2. Len(log[e]) >= Len(log[e])
  BY DEF IInv, EndOK, IsSequence
<1>3. /\ read' = [read EXCEPT ![e] = read[e] + 1]
      /\ batch' = [batch EXCEPT ![e] = batch[e] - 1]
      /\ (read[e] + 1) + (batch[e] - 1) <= Len(log[Peer(e)])
      /\ lost' \in BOOLEAN
  <2>1. /\ read' = [read EXCEPT ![e] = read[e] + 1] /\ batch' = [batch EXCEPT ![e] = batch[e] - 1]
    BY Reading, Zenon
  <2>2. (read[e] + 1) + (batch[e] - 1) <= Len(log[Peer(e)]) /\ lost' \in BOOLEAN
    BY Reading, Zenon
  <2> QED BY <2>1, <2>2
<1>4. PICK n, b : n = read[e] + 1 /\ b = batch[e] - 1
  OBVIOUS
<1>5. /\ read' = [read EXCEPT ![e] = n] /\ batch' = [batch EXCEPT ![e] = b]
      /\ n + b <= Len(log[Peer(e)]) /\ EndOK(Hello, e, layer[e], log[e], n, b)
  BY <1>3, <1>4
<1>6. PICK c, l : c = layer[e] /\ l = log[e]
  OBVIOUS
<1>7. /\ layer' = [layer EXCEPT ![e] = c] /\ log' = [log EXCEPT ![e] = l]
      /\ Len(l) >= Len(log[e]) /\ EndOK(Hello, e, c, l, n, b)
  BY <1>1, <1>2, <1>5, <1>6
<1>8. lost' \in BOOLEAN /\ fatal' \in BOOLEAN
  BY <1>3
<1> QED BY <1>5, <1>7, <1>8, GoesOn

\* or changes,
LEMMA ReadThenBecome ==
    ASSUME IInv, NEW e \in Ends, NEW type, Handling(e, type), NEW c, Become(e, c, <<>>),
           EndOK(Hello, e, c, log[e], read[e] + 1, batch[e] - 1)
    PROVE  IInv'
<1>1. IsSequence(log[e]) /\ fatal \in BOOLEAN
  BY DEF IInv, EndOK, Shapes
<1>2. log[e] \o <<>> = log[e]
  BY <1>1, SequenceSet, ConcatEmptySeq
<1>3. /\ layer' = [layer EXCEPT ![e] = c]
      /\ log' = [log EXCEPT ![e] = log[e]]
      /\ fatal' \in BOOLEAN
  BY <1>1, <1>2 DEF Become
<1>4. Len(log[e]) >= Len(log[e])
  BY <1>1 DEF IsSequence
<1>5. /\ read' = [read EXCEPT ![e] = read[e] + 1]
      /\ batch' = [batch EXCEPT ![e] = batch[e] - 1]
      /\ (read[e] + 1) + (batch[e] - 1) <= Len(log[Peer(e)])
      /\ lost' \in BOOLEAN
  BY Reading
<1> QED BY <1>3, <1>4, <1>5, GoesOn

\* or writes something, too.
LEMMA ReadThenWrite ==
    ASSUME IInv, NEW e \in Ends, NEW type, Handling(e, type), NEW c, NEW records,
           IsSequence(records), Become(e, c, records),
           EndOK(Hello, e, c, log[e] \o records, read[e] + 1, batch[e] - 1)
    PROVE  IInv'
<1>1. IsSequence(log[e]) /\ fatal \in BOOLEAN
  BY DEF IInv, EndOK, Shapes
<1>2. Len(log[e] \o records) >= Len(log[e])
  <2>1. Len(log[e] \o records) = Len(log[e]) + Len(records)
    BY <1>1, Concatenation
  <2> QED BY <1>1, <2>1 DEF IsSequence
<1>3. /\ layer' = [layer EXCEPT ![e] = c]
      /\ log' = [log EXCEPT ![e] = log[e] \o records]
      /\ fatal' \in BOOLEAN
  BY <1>1 DEF Become
<1>5. /\ read' = [read EXCEPT ![e] = read[e] + 1]
      /\ batch' = [batch EXCEPT ![e] = batch[e] - 1]
      /\ (read[e] + 1) + (batch[e] - 1) <= Len(log[Peer(e)])
      /\ lost' \in BOOLEAN
  BY Reading
<1> QED BY <1>2, <1>3, <1>5, GoesOn

\* What comes to the server: exactly the record its handshake state waits for.
ToServer(h, c, r) ==
    /\ c.handshake = "expecting_client_hello" =>
            r = Wrote("handshake", "null", Unfinalized, Greeting(h))
    /\ c.handshake = "expecting_client_key_exchange" =>
            r = Wrote("handshake", "null", Chosen(h), Exchange(h))
    /\ c.handshake = "expecting_cipher_change" =>
            r = Wrote("change_cipher_spec", "null", Chosen(h), "empty")
    /\ c.handshake = "expecting_finished" =>
            r = Wrote("handshake", "keys", Chosen(h), ClientVerify(h))
    /\ c.handshake = "done" => Later(h, r)

LEMMA ServerComing ==
    ASSUME IInv, batch["server"] > 0, layer["server"].state = "receiving"
    PROVE  ToServer(Hello, layer["server"], Incoming("server"))
<1> DEFINE n == read["server"]
           l == log["client"]
<1>1. n + 1 \in 1..Len(l)
  BY TwoEnds, ToRead
<1>2. ClientWrites(Hello, n + 1, l[n + 1])
  BY <1>1, TwoEnds DEF IInv, EndOK, ClientLog
<1>3. ServerHeard(Hello, layer["server"], n) /\ n \in Nat
  BY TwoEnds DEF IInv, EndOK
<1>4. Incoming("server") = l[n + 1]
  BY TwoEnds DEF Incoming
<1>5. ASSUME NEW h, NEW c, NEW k \in Nat, NEW r, c.state = "receiving",
             ServerHeard(h, c, k), ClientWrites(h, k + 1, r)
      PROVE  ToServer(h, c, r)
  <2>1. c.handshake = "done" => k + 1 > 4
    BY <1>5 DEF ServerHeard
  <2>2. c.handshake = "done" => Later(h, r)
    BY <1>5, <2>1, Zenon DEF ClientWrites
  <2>3. /\ c.handshake = "expecting_client_hello" =>
              r = Wrote("handshake", "null", Unfinalized, Greeting(h))
        /\ c.handshake = "expecting_client_key_exchange" =>
              r = Wrote("handshake", "null", Chosen(h), Exchange(h))
        /\ c.handshake = "expecting_cipher_change" =>
              r = Wrote("change_cipher_spec", "null", Chosen(h), "empty")
        /\ c.handshake = "expecting_finished" =>
              r = Wrote("handshake", "keys", Chosen(h), ClientVerify(h))
    <3>1. /\ c.handshake = "expecting_client_hello" => k + 1 = 1
          /\ c.handshake = "expecting_client_key_exchange" => k + 1 = 2
          /\ c.handshake = "expecting_cipher_change" => k + 1 = 3
          /\ c.handshake = "expecting_finished" => k + 1 = 4
      BY <1>5 DEF ServerHeard
    <3> QED BY <1>5, <3>1, Zenon DEF ClientWrites
  <2> QED BY <2>2, <2>3, Zenon DEF ToServer
<1> HIDE DEF n, l
<1> QED BY <1>2, <1>3, <1>4, <1>5

\* What comes to the client: the same, but for the alert of a server that refuses it,
\* and a heartbeat before the server's Finished.
ToClient(h, c, n, r) ==
    /\ c.handshake = "expecting_server_hello" =>
          /\ n = 0
          /\ r = IF h.version < Low
                 THEN Wrote("alert", "null", Unfinalized, "fatal")
                 ELSE Wrote("handshake", "null", Chosen(h), Answer(h))
    /\ c.handshake = "expecting_certificate" =>
          r = Wrote("handshake", "null", Chosen(h), Certified)
    /\ c.handshake = "expecting_server_hello_done" =>
          r = Wrote("handshake", "null", Chosen(h), HelloDone)
    /\ c.handshake = "expecting_cipher_change" =>
          /\ n = 3
          /\ r = IF Complies(h)
                 THEN Wrote("change_cipher_spec", "null", Chosen(h), "empty")
                 ELSE Wrote("alert", "null", Chosen(h), "fatal")
    /\ c.handshake = "expecting_finished" =>
          \/ /\ h.heartbeats /\ n = 4
             /\ r = Wrote("heartbeat", "keys", Chosen(h), "heartbeat_response")
          \/ /\ n = 4 + Beat(h)
             /\ r = Wrote("handshake", "keys", Chosen(h), ServerVerify(h))
    /\ c.handshake = "done" => Later(h, r)

LEMMA ClientComing ==
    ASSUME IInv, batch["client"] > 0, layer["client"].state = "receiving"
    PROVE  ToClient(Hello, layer["client"], read["client"], Incoming("client"))
<1> DEFINE s == layer["server"]
           n == read["client"]
           l == log["server"]
<1>1. n + 1 \in 1..Len(l) /\ n \in Nat
  BY TwoEnds, ToRead
<1>2. ServerWrites(Hello, n + 1, l[n + 1])
  BY <1>1, TwoEnds DEF IInv, EndOK, ServerLog
<1>3. ClientLayer(Hello, layer["client"]) /\ ClientHeard(Hello, layer["client"], n)
  BY TwoEnds DEF IInv, EndOK
<1>4. Incoming("client") = l[n + 1]
  BY TwoEnds DEF Incoming
<1>5. ServerLog(Hello, s, l) /\ ServerLayer(Hello, s) /\ IsSequence(l)
  BY TwoEnds DEF IInv, EndOK
<1>6. Hello \in Hellos
  BY DEF IInv, Shapes
<1>7. Hello.version < Low => n = 0
  <2>1. Hello.version < Low => Len(l) <= 1
    BY <1>5, <1>6 DEF ServerLog, ServerLayer, ServerFlown, Low, Hellos
  <2> QED BY <1>1, <2>1
<1>8. ~ Complies(Hello) => n <= 3
  <2>1. ~ Complies(Hello) => Len(l) <= 4
    BY <1>5, <1>6 DEF ServerLog, ServerLayer, ServerFlown, Low, Hellos
  <2>2. Len(l) \in Nat
    BY <1>5 DEF IsSequence
  <2> QED BY <1>1, <2>1, <2>2
<1>9. ASSUME NEW h \in Hellos, NEW c, NEW k \in Nat, NEW r, c.state = "receiving",
             ClientHeard(h, c, k), ServerWrites(h, k + 1, r),
             h.version < Low => k = 0, ~ Complies(h) => k <= 3
      PROVE  ToClient(h, c, k, r)
  <2>1. h.version < Low => c.handshake \in {"start", "expecting_server_hello"}
    BY <1>9 DEF ClientHeard, Low, Hellos
  <2>2. c.handshake = "expecting_server_hello" =>
          /\ k = 0
          /\ r = IF h.version < Low
                 THEN Wrote("alert", "null", Unfinalized, "fatal")
                 ELSE Wrote("handshake", "null", Chosen(h), Answer(h))
    <3>1. c.handshake = "expecting_server_hello" => k = 0 /\ k + 1 = 1
      BY <1>9 DEF ClientHeard
    <3> QED BY <1>9, <3>1, Zenon DEF ServerWrites
  <2>3. c.handshake = "expecting_certificate" =>
          r = Wrote("handshake", "null", Chosen(h), Certified)
    BY <1>9 DEF ClientHeard, ServerWrites
  <2>4. c.handshake = "expecting_server_hello_done" =>
          r = Wrote("handshake", "null", Chosen(h), HelloDone)
    BY <1>9 DEF ClientHeard, ServerWrites
  <2>5. c.handshake = "expecting_cipher_change" =>
          /\ k = 3
          /\ r = IF Complies(h)
                 THEN Wrote("change_cipher_spec", "null", Chosen(h), "empty")
                 ELSE Wrote("alert", "null", Chosen(h), "fatal")
    <3>1. c.handshake = "expecting_cipher_change" => k = 3 /\ k + 1 = 4
      BY <1>9 DEF ClientHeard
    <3> QED BY <1>9, <3>1, Zenon DEF ServerWrites
  <2>6. c.handshake = "expecting_finished" =>
          \/ /\ h.heartbeats /\ k = 4
             /\ r = Wrote("heartbeat", "keys", Chosen(h), "heartbeat_response")
          \/ /\ k = 4 + Beat(h)
             /\ r = Wrote("handshake", "keys", Chosen(h), ServerVerify(h))
    <3>1. c.handshake = "expecting_finished" =>
            \/ h.heartbeats /\ k = 4 /\ k + 1 = 5
            \/ k = 4 + Beat(h) /\ k + 1 = 5 + Beat(h)
      BY <1>9 DEF ClientHeard, Beat, Hellos
    <3> QED BY <1>9, <3>1, Zenon DEF ServerWrites
  <2>7. c.handshake = "done" => Later(h, r)
    <3>1. c.handshake = "done" => k + 1 > 5 + Beat(h)
      BY <1>9 DEF ClientHeard, Beat
    <3> QED BY <1>9, <3>1, Zenon DEF ServerWrites
  <2> QED BY <2>2, <2>3, <2>4, <2>5, <2>6, <2>7, Zenon DEF ToClient
<1> HIDE DEF s, n, l
<1> QED BY <1>1, <1>2, <1>3, <1>4, <1>6, <1>7, <1>8, <1>9 DEF n

\* What an application sees of a step of end e that adds no data: whether it is
\* connected now, and whether it was told of the end.
Shows(e, connected, ended) ==
    \E d, records :
        /\ Become(e, d, records)
        /\ IsSequence(records)
        /\ \A i \in 1..Len(records) : records[i].type # "application_data"
        /\ d.connected = connected /\ d.ended = ended

LEMMA ShownWriting ==
    ASSUME NEW e, NEW d, NEW records, NEW x, NEW y, IsSequence(records),
           \A i \in 1..Len(records) : records[i].type # "application_data",
           Become(e, d, records), d.connected = x, d.ended = y
    PROVE  Shows(e, x, y)
BY Zenon DEF Shows

LEMMA ShownQuiet ==
    ASSUME NEW e, NEW d, NEW x, NEW y, Become(e, d, <<>>), d.connected = x, d.ended = y
    PROVE  Shows(e, x, y)
<1>1. IsSequence(<<>>) /\ \A i \in 1..Len(<<>>) : <<>>[i].type # "application_data"
  BY Tuples
<1> QED BY <1>1, Zenon DEF Shows

LEMMA ClientOK ==
    ASSUME IInv
    PROVE  /\ Hello \in Hellos /\ Hello = layer["client"].hello
           /\ IsLayer(layer["client"]) /\ IsSequence(log["client"])
           /\ read["client"] \in Nat /\ batch["client"] \in Nat
           /\ ClientLayer(Hello, layer["client"])
           /\ ClientLog(Hello, layer["client"], log["client"])
           /\ ClientHeard(Hello, layer["client"], read["client"])
           /\ Leaving("client", layer["client"], log["client"], batch["client"])
BY TwoEnds DEF IInv, EndOK, Shapes, Hello

LEMMA ServerOK ==
    ASSUME IInv
    PROVE  /\ Hello \in Hellos
           /\ IsLayer(layer["server"]) /\ IsSequence(log["server"])
           /\ read["server"] \in Nat /\ batch["server"] \in Nat
           /\ ServerLayer(Hello, layer["server"])
           /\ ServerLog(Hello, layer["server"], log["server"])
           /\ ServerHeard(Hello, layer["server"], read["server"])
           /\ Leaving("server", layer["server"], log["server"], batch["server"])
BY TwoEnds DEF IInv, EndOK, Shapes

\* During the handshake an end that handles records has its transport.
LEMMA StillHere ==
    ASSUME NEW e, NEW c, NEW l, NEW b \in Nat, IsLayer(c), Leaving(e, c, l, b),
           c.state = "receiving", b > 0, c.handshake # "done"
    PROVE  c.transport /\ ~ c.ended /\ \A i \in 1..Len(l) : l[i].type # "alert"
BY DEF Leaving, IsLayer

LEMMA StaysHere ==
    ASSUME NEW e, NEW c, NEW l, NEW b, c.transport, ~ c.ended, c.state = "receiving",
           \A i \in 1..Len(l) : l[i].type # "alert"
    PROVE  Leaving(e, c, l, b)
BY DEF Leaving

\* The handlers of the client's handshake.
LEMMA ServerHelloStep == IInv /\ ServerHello =>
    IInv' /\ Shows("client", layer["client"].connected, layer["client"].ended)
<1> SUFFICES ASSUME IInv, ServerHello
             PROVE  IInv' /\ Shows("client", layer["client"].connected, layer["client"].ended)
  OBVIOUS
<1> DEFINE h == Hello
           c == layer["client"]
           d == [Hearing(c, Incoming("client").body) EXCEPT
                    !.version = Chosen(h), !.handshake = "expecting_certificate"]
<1>1. /\ Handling("client", "handshake") /\ c.handshake = "expecting_server_hello"
      /\ Incoming("client").body.kind = "server_hello"
  BY DEF ServerHello, Arrives
<1>2. c.state = "receiving" /\ batch["client"] > 0 /\ Incoming("client").type = "handshake"
  BY <1>1, TwoEnds, Reading
<1>3. /\ h \in Hellos /\ IsLayer(c) /\ IsSequence(log["client"]) /\ batch["client"] \in Nat
      /\ ClientLayer(h, c) /\ ClientLog(h, c, log["client"])
      /\ Leaving("client", c, log["client"], batch["client"])
  BY ClientOK
<1>4. read["client"] = 0 /\ h.version >= Low /\ Incoming("client").body = Answer(h)
  <2>1. ToClient(h, c, read["client"], Incoming("client"))
    BY <1>2, ClientComing
  <2> QED BY <1>1, <1>2, <1>3, <2>1 DEF ToClient, Wrote, Hellos, Low
<1>5. Become("client", d, <<>>)
  <2>1. ~ (Chosen(h) < Low \/ Chosen(h) > High)
    BY <1>3, <1>4 DEF Chosen, Hellos, Low, High
  <2>2. Incoming("client").body.value = Chosen(h)
    BY <1>4 DEF Answer, Message
  <2> QED BY <2>1, <2>2, Zenon DEF ServerHello
<1>6. Append(c.transcript, Answer(h)) = <<Greeting(h), Answer(h)>>
  <2>1. c.transcript = <<Greeting(h)>>
    BY <1>1, <1>3 DEF ClientLayer
  <2> QED BY <2>1, Transcripts, Zenon
<1>7. /\ d.handshake = "expecting_certificate" /\ d.version = Chosen(h)
      /\ d.transcript = <<Greeting(h), Answer(h)>> /\ DOMAIN d = Fields
      /\ d.hello = c.hello /\ d.state = c.state /\ d.read = c.read /\ d.write = c.write
      /\ d.pending_read = c.pending_read /\ d.pending_write = c.pending_write
      /\ d.receive_heartbeats = c.receive_heartbeats /\ d.send_heartbeats = c.send_heartbeats
      /\ d.connected = c.connected /\ d.ended = c.ended /\ d.transport = c.transport
  BY <1>3, <1>4, <1>6 DEF IsLayer, Fields, NewLayer, Hearing
<1> HIDE DEF d
<1>8. Leaving("client", d, log["client"], batch["client"] - 1)
  <2>1. c.transport /\ ~ c.ended /\ \A i \in 1..Len(log["client"]) : log["client"][i].type # "alert"
    BY <1>1, <1>2, <1>3, StillHere
  <2> QED BY <1>2, <1>7, <2>1, StaysHere
<1>9. IsLayer(d)
  BY <1>3, <1>7 DEF IsLayer
<1>10. ClientLayer(h, d)
  BY <1>1, <1>2, <1>3, <1>7 DEF ClientLayer, ClientStarted, ClientKeyed
<1>11. ClientLog(h, d, log["client"]) /\ ClientHeard(h, d, read["client"] + 1)
  BY <1>1, <1>3, <1>4, <1>7 DEF ClientLog, ClientHeard, ClientStarted, ClientKeyed
<1>12. EndOK(h, "client", d, log["client"], read["client"] + 1, batch["client"] - 1)
  BY <1>2, <1>3, <1>4, <1>8, <1>9, <1>10, <1>11 DEF EndOK
<1>13. Shows("client", layer["client"].connected, layer["client"].ended)
  BY <1>5, <1>7, ShownQuiet
<1> QED BY <1>13, <1>1, <1>5, <1>12, TwoEnds, ReadThenBecome

LEMMA CertificateStep == IInv /\ Certificate =>
    IInv' /\ Shows("client", layer["client"].connected, layer["client"].ended)
<1> SUFFICES ASSUME IInv, Certificate
             PROVE  IInv' /\ Shows("client", layer["client"].connected, layer["client"].ended)
  OBVIOUS
<1> DEFINE h == Hello
           c == layer["client"]
           d == InStateOf(Hearing(c, Incoming("client").body), "expecting_server_hello_done")
<1>1. /\ Handling("client", "handshake") /\ c.handshake = "expecting_certificate"
      /\ Become("client", d, <<>>)
  BY DEF Certificate, Arrives
<1>2. c.state = "receiving" /\ batch["client"] > 0
  BY <1>1, TwoEnds, Reading
<1>3. /\ h \in Hellos /\ IsLayer(c) /\ IsSequence(log["client"]) /\ batch["client"] \in Nat
      /\ ClientLayer(h, c) /\ ClientLog(h, c, log["client"])
      /\ Leaving("client", c, log["client"], batch["client"])
  BY ClientOK
<1>4. read["client"] = 1 /\ h.version >= Low /\ Incoming("client").body = Certified
  <2>1. ToClient(h, c, read["client"], Incoming("client"))
    BY <1>2, ClientComing
  <2>2. ClientHeard(h, c, read["client"])
    BY ClientOK
  <2>3. Incoming("client").body = Certified
    BY <1>1, <2>1 DEF ToClient, Wrote
  <2> QED BY <1>1, <2>2, <2>3 DEF ClientHeard
<1>6. Append(c.transcript, Certified) = <<Greeting(h), Answer(h), Certified>>
  <2>1. c.transcript = <<Greeting(h), Answer(h)>>
    BY <1>1, <1>3 DEF ClientLayer
  <2>2. Append(<<Greeting(h), Answer(h)>>, Certified) = <<Greeting(h), Answer(h), Certified>>
    BY Transcripts
  <2> QED BY <2>1, <2>2
<1>7. /\ d.handshake = "expecting_server_hello_done" /\ d.version = c.version
      /\ d.transcript = <<Greeting(h), Answer(h), Certified>> /\ DOMAIN d = Fields
      /\ d.hello = c.hello /\ d.state = c.state /\ d.read = c.read /\ d.write = c.write
      /\ d.pending_read = c.pending_read /\ d.pending_write = c.pending_write
      /\ d.receive_heartbeats = c.receive_heartbeats /\ d.send_heartbeats = c.send_heartbeats
      /\ d.connected = c.connected /\ d.ended = c.ended /\ d.transport = c.transport
  BY <1>3, <1>4, <1>6 DEF IsLayer, Fields, NewLayer, Hearing, InStateOf
<1> HIDE DEF d
<1>8. Leaving("client", d, log["client"], batch["client"] - 1)
  <2>1. c.transport /\ ~ c.ended /\ \A i \in 1..Len(log["client"]) : log["client"][i].type # "alert"
    BY <1>1, <1>2, <1>3, StillHere
  <2> QED BY <1>2, <1>7, <2>1, StaysHere
<1>9. IsLayer(d)
  BY <1>3, <1>7 DEF IsLayer
<1>10. ClientLayer(h, d)
  BY <1>1, <1>2, <1>3, <1>7 DEF ClientLayer, ClientStarted, ClientKeyed
<1>11. ClientLog(h, d, log["client"]) /\ ClientHeard(h, d, read["client"] + 1)
  BY <1>1, <1>3, <1>4, <1>7 DEF ClientLog, ClientHeard, ClientStarted, ClientKeyed
<1>12. EndOK(h, "client", d, log["client"], read["client"] + 1, batch["client"] - 1)
  BY <1>2, <1>3, <1>4, <1>8, <1>9, <1>10, <1>11 DEF EndOK
<1>13. Shows("client", layer["client"].connected, layer["client"].ended)
  BY <1>1, <1>7, ShownQuiet
<1> QED BY <1>13, <1>1, <1>12, TwoEnds, ReadThenBecome

LEMMA ServerHelloDoneStep == IInv /\ ServerHelloDone =>
    IInv' /\ Shows("client", layer["client"].connected, layer["client"].ended)
<1> SUFFICES ASSUME IInv, ServerHelloDone
             PROVE  IInv' /\ Shows("client", layer["client"].connected, layer["client"].ended)
  OBVIOUS
<1> DEFINE h == Hello
           l == log["client"]
           c == layer["client"]
           heard == Hearing(c, Incoming("client").body)
           keyed == WriteChangeCipherSpec(CalculateKeys(heard, "keys"))
           d == [keyed EXCEPT !.expected = ServerVerify(h), !.transcript = <<>>,
                              !.handshake = "expecting_cipher_change",
                              !.connected = @ \/ FALSE]
           records == <<Wrote("handshake", "null", Chosen(h), Exchange(h)),
                        Wrote("change_cipher_spec", "null", Chosen(h), "empty"),
                        Wrote("handshake", "keys", Chosen(h), ClientVerify(h))>>
<1>1. Handling("client", "handshake") /\ c.handshake = "expecting_server_hello_done"
  BY DEF ServerHelloDone, ServerHelloDoneAs, Arrives
<1>2. c.state = "receiving" /\ batch["client"] > 0
  BY <1>1, TwoEnds, Reading
<1>3. /\ h \in Hellos /\ IsLayer(c) /\ IsSequence(l) /\ batch["client"] \in Nat
      /\ ClientLayer(h, c) /\ ClientLog(h, c, l) /\ Leaving("client", c, l, batch["client"])
  BY ClientOK
<1>4. read["client"] = 2 /\ h.version >= Low /\ Incoming("client").body = HelloDone
  <2>1. ToClient(h, c, read["client"], Incoming("client"))
    BY <1>2, ClientComing
  <2>2. ClientHeard(h, c, read["client"])
    BY ClientOK
  <2>3. Incoming("client").body = HelloDone
    BY <1>1, <2>1 DEF ToClient, Wrote
  <2> QED BY <1>1, <2>2, <2>3 DEF ClientHeard
<1>5. /\ c.hello = h /\ c.version = Chosen(h) /\ c.write = "null" /\ c.read = "null"
      /\ c.transcript = <<Greeting(h), Answer(h), Certified>> /\ ~ c.connected
  BY <1>1, <1>3 DEF ClientLayer, ClientKeyed
<1>6. Append(c.transcript, HelloDone) = Flight(h) /\ Append(Flight(h), Exchange(h)) = Exchanged(h)
  <2>1. Append(<<Greeting(h), Answer(h), Certified>>, HelloDone) = Flight(h)
    BY Transcripts DEF Flight
  <2>2. Append(Flight(h), Exchange(h)) = Exchanged(h)
    BY Transcripts DEF Flight, Exchanged
  <2> QED BY <1>5, <2>1, <2>2
<1>7. /\ heard.transcript = Flight(h) /\ heard.hello = h /\ heard.version = Chosen(h)
      /\ heard.write = "null"
      /\ keyed.write = "keys" /\ keyed.version = Chosen(h)
  BY <1>3, <1>4, <1>5, <1>6
     DEF IsLayer, Fields, NewLayer, Hearing, WriteChangeCipherSpec, CalculateKeys
<1>8. /\ d.handshake = "expecting_cipher_change" /\ d.version = c.version
      /\ d.expected = ServerVerify(h) /\ DOMAIN d = Fields
      /\ d.hello = c.hello /\ d.state = c.state /\ d.read = c.read /\ d.write = "keys"
      /\ d.pending_read = "keys" /\ d.pending_write = "blank"
      /\ d.receive_heartbeats = c.receive_heartbeats /\ d.send_heartbeats = c.send_heartbeats
      /\ d.connected = (c.connected \/ FALSE) /\ d.ended = c.ended /\ d.transport = c.transport
  BY <1>3 DEF IsLayer, Fields, NewLayer, Hearing, WriteChangeCipherSpec, CalculateKeys
<1>9. Become("client", d, records)
  <2>1. /\ Record(heard, "handshake", Exchange(h)) = Wrote("handshake", "null", Chosen(h), Exchange(h))
        /\ Record(heard, "change_cipher_spec", "empty") = Wrote("change_cipher_spec", "null", Chosen(h), "empty")
        /\ Record(keyed, "handshake", ClientVerify(h)) =
              Wrote("handshake", "keys", Chosen(h), ClientVerify(h))
    BY <1>7 DEF Record, Wrote
  <2>2. Handshakes(heard, <<Exchange(h)>>) \o <<Record(heard, "change_cipher_spec", "empty")>>
            \o Handshakes(keyed, <<ClientVerify(h)>>) = records
    <3>1. /\ Handshakes(heard, <<Exchange(h)>>) = <<records[1]>>
          /\ <<Record(heard, "change_cipher_spec", "empty")>> = <<records[2]>>
          /\ Handshakes(keyed, <<ClientVerify(h)>>) = <<records[3]>>
          /\ records = <<records[1], records[2], records[3]>>
      BY <2>1, OneHandshake
    <3> HIDE DEF records, heard, keyed
    <3>2. <<records[1]>> \o <<records[2]>> = <<records[1], records[2]>>
      BY Pieces
    <3>3. <<records[1], records[2]>> \o <<records[3]>> = <<records[1], records[2], records[3]>>
      BY Pieces
    <3> QED BY <3>1, <3>2, <3>3, Zenon
  <2>3. /\ (IF heard.hello.secret = "offered" THEN heard.hello.version ELSE heard.version) = Secret(h)
        /\ Append(heard.transcript, Exchange(h)) = Exchanged(h)
    BY <1>6, <1>7, Zenon DEF Secret
  <2> HIDE DEF heard
  <2>4. LET exchange == Message("client_key_exchange", Secret(h))
            before == Append(heard.transcript, exchange)
            finished == Finished("client", before, "keys")
            k == WriteChangeCipherSpec(CalculateKeys(heard, "keys"))
        IN Become("client",
                 [k EXCEPT !.expected = Finished("server", Append(before, finished), "keys"),
                           !.transcript = <<>>,
                           !.handshake = "expecting_cipher_change",
                           !.connected = @ \/ FALSE],
                 Handshakes(heard, <<exchange>>) \o <<Record(heard, "change_cipher_spec", "empty")>>
                     \o Handshakes(k, <<finished>>))
    BY <2>3, Zenon DEF ServerHelloDone, ServerHelloDoneAs, heard
  <2> QED BY <2>2, <2>3, <2>4, Zenon DEF Exchange, ClientVerify, ServerVerify
<1> HIDE DEF d, heard, keyed, records
<1>10. /\ IsSequence(l \o records) /\ Len(l \o records) = 4
       /\ (l \o records)[1] = l[1] /\ (l \o records)[2] = records[1]
       /\ (l \o records)[3] = records[2] /\ (l \o records)[4] = records[3]
  <2>1. IsSequence(records) /\ Len(records) = 3
    BY Tuples DEF records
  <2>2. Len(l) = 1
    BY <1>1, <1>3 DEF ClientLog, ClientStarted
  <2>3. /\ IsSequence(l \o records) /\ Len(l \o records) = Len(l) + Len(records)
        /\ \A i \in 1..Len(l) : (l \o records)[i] = l[i]
        /\ (l \o records)[Len(l) + 1] = records[1]
        /\ (l \o records)[Len(l) + 2] = records[2]
        /\ (l \o records)[Len(l) + 3] = records[3]
    <3>1. Len(records) >= 1 /\ Len(records) >= 2 /\ Len(records) >= 3
      BY <2>1
    <3>2. IsSequence(l) /\ IsSequence(records)
      BY <1>3, <2>1
    <3> HIDE DEF l
    <3>3. /\ IsSequence(l \o records) /\ Len(l) \in Nat
          /\ Len(l \o records) = Len(l) + Len(records)
          /\ \A i \in 1..Len(l) : (l \o records)[i] = l[i]
          /\ Len(records) >= 1 => (l \o records)[Len(l) + 1] = records[1]
          /\ Len(records) >= 2 => (l \o records)[Len(l) + 2] = records[2]
          /\ Len(records) >= 3 => (l \o records)[Len(l) + 3] = records[3]
      BY <3>2, Added
    <3> QED BY <3>1, <3>3
  <2> QED BY <2>1, <2>2, <2>3
<1>11. \A i \in 1..4 : ClientWrites(h, i, (l \o records)[i])
  <2>1. ClientWrites(h, 1, (l \o records)[1])
    <3>1. 1 \in 1..Len(l)
      <4>1. Len(l) = 1
        BY <1>1, <1>3 DEF ClientLog, ClientStarted
      <4> QED BY <4>1
    <3> QED BY <1>3, <1>10, <3>1 DEF ClientLog
  <2>2. ClientWrites(h, 2, (l \o records)[2])
    BY <1>10 DEF ClientWrites, records
  <2>3. ClientWrites(h, 3, (l \o records)[3])
    BY <1>10 DEF ClientWrites, records
  <2>4. ClientWrites(h, 4, (l \o records)[4])
    BY <1>10 DEF ClientWrites, records
  <2>5. \A i \in 1..4 : i = 1 \/ i = 2 \/ i = 3 \/ i = 4
    OBVIOUS
  <2> QED BY <2>1, <2>2, <2>3, <2>4, <2>5, Zenon
<1>12. Leaving("client", d, l \o records, batch["client"] - 1)
  <2>1. c.transport /\ ~ c.ended /\ \A i \in 1..Len(l) : l[i].type # "alert"
    BY <1>1, <1>2, <1>3, StillHere
  <2>2. \A i \in 1..4 : (l \o records)[i].type # "alert"
    <3>1. 1 \in 1..Len(l)
      <4>1. Len(l) = 1
        BY <1>1, <1>3 DEF ClientLog, ClientStarted
      <4> QED BY <4>1
    <3>2. records[1].type # "alert" /\ records[2].type # "alert" /\ records[3].type # "alert"
      BY DEF records, Wrote
    <3>3. \A i \in 1..4 : i = 1 \/ i = 2 \/ i = 3 \/ i = 4
      OBVIOUS
    <3> QED BY <2>1, <3>1, <3>2, <3>3, <1>10
  <2> QED BY <1>2, <1>8, <1>10, <2>1, <2>2, StaysHere
<1>13. IsLayer(d)
  BY <1>3, <1>8 DEF IsLayer
<1>14. ClientLayer(h, d)
  BY <1>1, <1>2, <1>3, <1>5, <1>8 DEF ClientLayer, ClientStarted, ClientKeyed
<1>15. ClientLog(h, d, l \o records) /\ ClientHeard(h, d, read["client"] + 1)
  BY <1>1, <1>3, <1>4, <1>8, <1>10, <1>11 DEF ClientLog, ClientHeard, ClientStarted, ClientKeyed
<1>16. EndOK(h, "client", d, l \o records, read["client"] + 1, batch["client"] - 1)
  BY <1>2, <1>3, <1>4, <1>10, <1>12, <1>13, <1>14, <1>15 DEF EndOK
<1>17. IsSequence(records)
  BY Tuples DEF records
<1>18. Shows("client", layer["client"].connected, layer["client"].ended)
  <2>1. d.connected = c.connected /\ d.ended = c.ended
    BY <1>3, <1>5, <1>8 DEF IsLayer
  <2>2. Len(records) = 3 /\ \A i \in 1..3 : records[i].type # "application_data"
    <3>1. /\ records[1].type # "application_data" /\ records[2].type # "application_data"
          /\ records[3].type # "application_data" /\ Len(records) = 3
      BY Tuples DEF records, Wrote
    <3>2. \A i \in 1..3 : i = 1 \/ i = 2 \/ i = 3
      OBVIOUS
    <3> QED BY <3>1, <3>2
  <2> QED BY <1>9, <1>17, <2>1, <2>2, ShownWriting
<1> QED BY <1>18, <1>1, <1>9, <1>16, <1>17, TwoEnds, ReadThenWrite

LEMMA ServerFinishedStep == IInv /\ ServerFinished =>
    IInv' /\ layer["server"].connected /\ Shows("client", TRUE, layer["client"].ended)
<1> SUFFICES ASSUME IInv, ServerFinished
             PROVE  IInv' /\ layer["server"].connected /\ Shows("client", TRUE, layer["client"].ended)
  OBVIOUS
<1> DEFINE h == Hello
           c == layer["client"]
           d == ConnectApplication(c)
<1>1. /\ Handling("client", "handshake") /\ c.handshake = "expecting_finished"
  BY DEF ServerFinished, Arrives
<1>2. c.state = "receiving" /\ batch["client"] > 0 /\ Incoming("client").type = "handshake"
  BY <1>1, TwoEnds, Reading
<1>3. /\ h \in Hellos /\ IsLayer(c) /\ IsSequence(log["client"]) /\ batch["client"] \in Nat
      /\ ClientLayer(h, c) /\ ClientLog(h, c, log["client"])
      /\ Leaving("client", c, log["client"], batch["client"])
  BY ClientOK
<1>4. /\ read["client"] = 4 + Beat(h) /\ Incoming("client").body = ServerVerify(h)
      /\ h.version >= Low /\ Complies(h)
  <2>1. ToClient(h, c, read["client"], Incoming("client"))
    BY <1>2, ClientComing
  <2>2. ClientHeard(h, c, read["client"])
    BY ClientOK
  <2>3. /\ read["client"] = 4 + Beat(h) 
        /\ Incoming("client") = Wrote("handshake", "keys", Chosen(h), ServerVerify(h))
    BY <1>1, <1>2, <2>1 DEF ToClient, Wrote
  <2>4. Incoming("client").body = ServerVerify(h)
    BY <2>3 DEF Wrote
  <2> QED BY <1>1, <2>2, <2>3, <2>4 DEF ClientHeard
<1>5. Become("client", d, <<>>)
  <2>1. c.expected = ServerVerify(h) /\ ~ c.send_heartbeats
    BY <1>1, <1>3 DEF ClientLayer, ClientKeyed
  <2> QED BY <1>4, <2>1 DEF ServerFinished, Heartbeats
<1>7. /\ d.handshake = "done" /\ d.version = c.version /\ d.connected
      /\ d.expected = c.expected /\ DOMAIN d = Fields
      /\ d.hello = c.hello /\ d.state = c.state /\ d.read = c.read /\ d.write = c.write
      /\ d.pending_read = c.pending_read /\ d.pending_write = c.pending_write
      /\ d.receive_heartbeats = c.receive_heartbeats /\ d.send_heartbeats = c.send_heartbeats
      /\ d.connected = TRUE /\ d.ended = c.ended /\ d.transport = c.transport
  BY <1>3 DEF IsLayer, Fields, NewLayer, ConnectApplication
<1> HIDE DEF d
<1>8. Leaving("client", d, log["client"], batch["client"] - 1)
  <2>1. c.transport /\ ~ c.ended /\ \A i \in 1..Len(log["client"]) : log["client"][i].type # "alert"
    BY <1>1, <1>2, <1>3, StillHere
  <2> QED BY <1>2, <1>7, <2>1, StaysHere
<1>9. IsLayer(d)
  BY <1>3, <1>7 DEF IsLayer
<1>10. ClientLayer(h, d)
  BY <1>1, <1>2, <1>3, <1>7 DEF ClientLayer, ClientStarted, ClientKeyed
<1>11. ClientLog(h, d, log["client"])
  BY <1>1, <1>3, <1>7 DEF ClientLog, ClientStarted, ClientKeyed
<1>12. ClientHeard(h, d, read["client"] + 1)
  BY <1>4, <1>7 DEF ClientHeard, Beat
<1>13. read["client"] + 1 \in Nat /\ batch["client"] - 1 \in Nat
  BY <1>1, TwoEnds, Reading
<1>14. EndOK(h, "client", d, log["client"], read["client"] + 1, batch["client"] - 1)
  BY <1>3, <1>8, <1>9, <1>10, <1>11, <1>12, <1>13 DEF EndOK
<1>15. layer["server"].connected /\ Shows("client", TRUE, layer["client"].ended)
  <2>1. layer["server"].connected
    <3>1. read["client"] + 1 \in 1..Len(log["server"])
      BY <1>2, TwoEnds, ToRead
    <3>2. Len(log["server"]) >= 5 /\ Len(log["server"]) \in Nat
      BY <1>4, <3>1, ServerOK DEF Beat, IsSequence
    <3> QED BY <3>2, ServerOK DEF ServerLayer, ServerLog
  <2> QED BY <1>5, <1>7, <2>1, ShownQuiet
<1> QED BY <1>15, <1>1, <1>5, <1>14, TwoEnds, ReadThenBecome

\* The handlers of the server's handshake: an old client is refused,
LEMMA OldClientStep == IInv /\ ClientHello /\ Hello.version < Low =>
    IInv' /\ ~ layer["server"].ended /\ Shows("server", layer["server"].connected, TRUE)
<1> SUFFICES ASSUME IInv, ClientHello, Hello.version < Low
             PROVE  IInv' /\ ~ layer["server"].ended /\ Shows("server", layer["server"].connected, TRUE)
  OBVIOUS
<1> DEFINE h == Hello
           l == log["server"]
           c == layer["server"]
           heard == Hearing(c, Incoming("server").body)
           d == [heard EXCEPT !.state = "failed", !.ended = TRUE, !.transport = FALSE]
           records == <<Wrote("alert", "null", Unfinalized, "fatal")>>
<1>1. Handling("server", "handshake") /\ c.handshake = "expecting_client_hello"
  BY DEF ClientHello, Arrives
<1>2. c.state = "receiving" /\ batch["server"] > 0
  BY <1>1, TwoEnds, Reading
<1>3. /\ h \in Hellos /\ IsLayer(c) /\ IsSequence(l) /\ batch["server"] \in Nat
      /\ ServerLayer(h, c) /\ ServerLog(h, c, l) /\ Leaving("server", c, l, batch["server"])
  BY ServerOK
<1>4. read["server"] = 0 /\ Incoming("server").body = Greeting(h)
  <2>1. ToServer(h, c, Incoming("server"))
    BY <1>2, ServerComing
  <2>2. ServerHeard(h, c, read["server"])
    BY ServerOK
  <2>3. Incoming("server").body = Greeting(h)
    BY <1>1, <2>1 DEF ToServer, Wrote
  <2> QED BY <1>1, <1>2, <2>2, <2>3 DEF ServerHeard
<1>5. c.version = Unfinalized /\ c.write = "null" /\ c.read = "null" /\ ~ c.connected
  BY <1>1, <1>3 DEF ServerLayer, ServerFlown
<1>6. c.transport /\ ~ c.ended /\ Len(l) = 0
  <2>1. c.transport /\ ~ c.ended
    BY <1>1, <1>2, <1>3, StillHere
  <2> QED BY <1>1, <1>2, <1>3, <2>1 DEF ServerLog
<1>7. /\ heard.transport = c.transport /\ heard.write = "null" /\ heard.version = Unfinalized
      /\ d.handshake = c.handshake /\ d.version = c.version /\ DOMAIN d = Fields
      /\ d.state = "failed" /\ d.read = c.read /\ d.write = c.write
      /\ d.pending_read = c.pending_read /\ d.pending_write = c.pending_write
      /\ d.receive_heartbeats = c.receive_heartbeats /\ d.send_heartbeats = c.send_heartbeats
      /\ d.connected = c.connected /\ d.ended = TRUE /\ d.transport = FALSE
  BY <1>3, <1>5 DEF IsLayer, Fields, NewLayer, Hearing
<1>8. Become("server", d, records)
  <2>1. Record(heard, "alert", "fatal") = Wrote("alert", "null", Unfinalized, "fatal")
    BY <1>7 DEF Record, Wrote
  <2>2. Incoming("server").body.value = h
    BY <1>4 DEF Greeting, Message
  <2>3. Fail("server", heard)
    BY <2>2, Zenon DEF ClientHello
  <2> QED BY <1>6, <1>7, <2>1, <2>3, Zenon DEF Fail
<1> HIDE DEF d, heard
<1>9. IsSequence(records) /\ Len(records) = 1
  BY Tuples
<1>10. IsSequence(l \o records) /\ Len(l \o records) = 1 /\ (l \o records)[1] = records[1]
  <2> HIDE DEF l, records
  <2>1. /\ IsSequence(l \o records) /\ Len(l) \in Nat
        /\ Len(l \o records) = Len(l) + Len(records)
        /\ Len(records) >= 1 => (l \o records)[Len(l) + 1] = records[1]
    BY <1>3, <1>9, Added
  <2>2. Len(l) = 0 /\ Len(records) = 1
    BY <1>6, <1>9
  <2>3. Len(l) + 1 = 1 /\ Len(l) + Len(records) = 1
    BY <2>2
  <2> QED BY <2>1, <2>2, <2>3
<1>11. \A i \in 1..1 : ServerWrites(h, i, (l \o records)[i])
  <2>1. ServerWrites(h, 1, records[1])
    BY <1>3 DEF ServerWrites, Beat, Hellos
  <2> QED BY <1>10, <2>1
<1>12. Leaving("server", d, l \o records, batch["server"] - 1)
  <2>1. records[1].body # "close_notify"
    BY DEF Wrote
  <2> QED BY <1>7, <1>10, <2>1 DEF Leaving
<1>13. IsLayer(d) /\ ServerLayer(h, d)
  BY <1>1, <1>3, <1>7 DEF IsLayer, ServerLayer, ServerFlown
<1>14. ServerLog(h, d, l \o records) /\ ServerHeard(h, d, read["server"] + 1)
  BY <1>1, <1>4, <1>7, <1>10, <1>11 DEF ServerLog, ServerHeard, ServerFlown
<1>15. EndOK(h, "server", d, l \o records, read["server"] + 1, batch["server"] - 1)
  BY <1>2, <1>3, <1>4, <1>10, <1>12, <1>13, <1>14 DEF EndOK
<1>16. ~ c.ended /\ Shows("server", layer["server"].connected, TRUE)
  <2>1. records[1].type # "application_data"
    BY DEF Wrote
  <2> HIDE DEF records
  <2>2. \A i \in 1..Len(records) : records[i].type # "application_data"
    BY <1>9, <2>1
  <2> QED BY <1>6, <1>7, <1>8, <1>9, <2>2, ShownWriting
<1> QED BY <1>16, <1>1, <1>8, <1>9, <1>15, TwoEnds, ReadThenWrite

\* any other is answered.
LEMMA ClientHelloStep == IInv /\ ClientHello /\ Hello.version >= Low =>
    IInv' /\ Shows("server", layer["server"].connected, layer["server"].ended)
<1> SUFFICES ASSUME IInv, ClientHello, Hello.version >= Low
             PROVE  IInv' /\ Shows("server", layer["server"].connected, layer["server"].ended)
  OBVIOUS
<1> DEFINE h == Hello
           l == log["server"]
           c == layer["server"]
           heard == Hearing(c, Incoming("server").body)
           agreed == [heard EXCEPT !.version = Chosen(h), !.hello = h,
                          !.receive_heartbeats = h.heartbeats, !.send_heartbeats = h.heartbeats]
           d == [agreed EXCEPT !.transcript = Flight(h),
                               !.handshake = "expecting_client_key_exchange"]
           records == <<Wrote("handshake", "null", Chosen(h), Answer(h)),
                        Wrote("handshake", "null", Chosen(h), Certified),
                        Wrote("handshake", "null", Chosen(h), HelloDone)>>
<1>1. Handling("server", "handshake") /\ c.handshake = "expecting_client_hello"
  BY DEF ClientHello, Arrives
<1>2. c.state = "receiving" /\ batch["server"] > 0
  BY <1>1, TwoEnds, Reading
<1>3. /\ h \in Hellos /\ IsLayer(c) /\ IsSequence(l) /\ batch["server"] \in Nat
      /\ ServerLayer(h, c) /\ ServerLog(h, c, l) /\ Leaving("server", c, l, batch["server"])
  BY ServerOK
<1>4. read["server"] = 0 /\ Incoming("server").body = Greeting(h)
  <2>1. ToServer(h, c, Incoming("server"))
    BY <1>2, ServerComing
  <2>2. ServerHeard(h, c, read["server"])
    BY ServerOK
  <2>3. Incoming("server").body = Greeting(h)
    BY <1>1, <2>1 DEF ToServer, Wrote
  <2> QED BY <1>1, <1>2, <2>2, <2>3 DEF ServerHeard
<1>5. /\ c.write = "null" /\ c.read = "null" /\ ~ c.connected /\ c.transcript = <<>>
      /\ c.pending_read = "blank" /\ c.pending_write = "blank"
  BY <1>1, <1>2, <1>3 DEF ServerLayer, ServerFlown
<1>6. c.transport /\ ~ c.ended /\ Len(l) = 0
  <2>1. c.transport /\ ~ c.ended
    BY <1>1, <1>2, <1>3, StillHere
  <2> QED BY <1>1, <1>2, <1>3, <2>1 DEF ServerLog
<1>7. /\ heard.transcript = <<Greeting(h)>>
      /\ agreed.transcript = <<Greeting(h)>> /\ agreed.version = Chosen(h)
      /\ agreed.write = "null"
  <2>1. Append(<<>>, Greeting(h)) = <<Greeting(h)>>
    BY Transcripts
  <2> QED BY <1>3, <1>4, <1>5, <2>1 DEF IsLayer, Fields, NewLayer, Hearing
<1>8. /\ d.handshake = "expecting_client_key_exchange" /\ d.version = Chosen(h)
      /\ d.transcript = Flight(h) /\ d.hello = h /\ DOMAIN d = Fields
      /\ d.state = c.state /\ d.read = c.read /\ d.write = c.write
      /\ d.pending_read = c.pending_read /\ d.pending_write = c.pending_write
      /\ d.receive_heartbeats = h.heartbeats /\ d.send_heartbeats = h.heartbeats
      /\ d.connected = c.connected /\ d.ended = c.ended /\ d.transport = c.transport
  BY <1>3 DEF IsLayer, Fields, NewLayer, Hearing
<1>9. Become("server", d, records)
  <2>1. /\ Record(agreed, "handshake", Answer(h)) = Wrote("handshake", "null", Chosen(h), Answer(h))
        /\ Record(agreed, "handshake", Certified) = Wrote("handshake", "null", Chosen(h), Certified)
        /\ Record(agreed, "handshake", HelloDone) = Wrote("handshake", "null", Chosen(h), HelloDone)
    BY <1>7 DEF Record, Wrote
  <2>2. Handshakes(agreed, <<Answer(h), Certified, HelloDone>>) = records
    <3> HIDE DEF agreed
    <3>1. Handshakes(agreed, <<Answer(h), Certified, HelloDone>>) =
            <<Record(agreed, "handshake", Answer(h)), Record(agreed, "handshake", Certified),
              Record(agreed, "handshake", HelloDone)>>
      BY ThreeHandshakes
    <3> QED BY <2>1, <3>1, Zenon
  <2>3. agreed.transcript \o <<Answer(h), Certified, HelloDone>> = Flight(h)
    <3>1. <<Greeting(h)>> \o <<Answer(h), Certified, HelloDone>> = Flight(h)
      BY Transcripts DEF Flight
    <3> QED BY <1>7, <3>1
  <2>4. Incoming("server").body.value = h /\ ~ (h.version < Low)
    BY <1>3, <1>4 DEF Greeting, Message, Hellos, Low
  <2> HIDE DEF h, heard, records
  <2>5. LET flight == <<Answer(h), Certified, HelloDone>>
            g == [heard EXCEPT !.version = Chosen(h), !.hello = h,
                          !.receive_heartbeats = h.heartbeats, !.send_heartbeats = h.heartbeats]
        IN  Become("server", [g EXCEPT !.transcript = @ \o flight,
                                       !.handshake = "expecting_client_key_exchange"],
                   Handshakes(g, flight))
    BY <2>4, Zenon DEF ClientHello, heard, Answer, Certified, HelloDone, Chosen
  <2>6. [agreed EXCEPT !.transcript = @ \o <<Answer(h), Certified, HelloDone>>,
                       !.handshake = "expecting_client_key_exchange"] = d
    BY <2>3, Zenon
  <2> QED BY <2>2, <2>5, <2>6, Zenon
<1> HIDE DEF d, heard, agreed, records
<1>10. /\ IsSequence(records) /\ IsSequence(l \o records) /\ Len(l \o records) = 3
       /\ (l \o records)[1] = records[1] /\ (l \o records)[2] = records[2]
       /\ (l \o records)[3] = records[3]
  <2> HIDE DEF l
  <2>1. IsSequence(records) /\ Len(records) = 3
    BY Tuples DEF records
  <2>2. /\ IsSequence(l \o records) /\ Len(l) \in Nat
        /\ Len(l \o records) = Len(l) + Len(records)
        /\ Len(records) >= 1 => (l \o records)[Len(l) + 1] = records[1]
        /\ Len(records) >= 2 => (l \o records)[Len(l) + 2] = records[2]
        /\ Len(records) >= 3 => (l \o records)[Len(l) + 3] = records[3]
    BY <1>3, <2>1, Added
  <2>3. Len(l) = 0
    BY <1>6
  <2> HIDE DEF records
  <2> QED BY <2>1, <2>2, <2>3, SMTT(30)
<1>11. \A i \in 1..3 : ServerWrites(h, i, (l \o records)[i])
  <2>1. ServerWrites(h, 1, records[1])
    BY <1>3 DEF ServerWrites, Beat, records, Hellos, Low
  <2>2. ServerWrites(h, 2, records[2])
    BY DEF ServerWrites, Beat, records
  <2>3. ServerWrites(h, 3, records[3])
    BY DEF ServerWrites, Beat, records
  <2>4. \A i \in 1..3 : i = 1 \/ i = 2 \/ i = 3
    OBVIOUS
  <2> QED BY <1>10, <2>1, <2>2, <2>3, <2>4, Zenon
<1>12. Leaving("server", d, l \o records, batch["server"] - 1)
  <2>1. records[1].type # "alert" /\ records[2].type # "alert" /\ records[3].type # "alert"
    BY DEF records, Wrote
  <2>2. \A i \in 1..3 : i = 1 \/ i = 2 \/ i = 3
    OBVIOUS
  <2>3. \A i \in 1..Len(l \o records) : (l \o records)[i].type # "alert"
    BY <1>10, <2>1, <2>2, Zenon
  <2> QED BY <1>2, <1>6, <1>8, <2>3, StaysHere
<1>13. IsLayer(d)
  BY <1>3, <1>8 DEF IsLayer, Hellos
<1>14. ServerLayer(h, d)
  BY <1>2, <1>3, <1>5, <1>8 DEF ServerLayer, ServerFlown
<1>15. ServerLog(h, d, l \o records) /\ ServerHeard(h, d, read["server"] + 1)
  BY <1>2, <1>4, <1>8, <1>10, <1>11 DEF ServerLog, ServerHeard, ServerFlown
<1>16. EndOK(h, "server", d, l \o records, read["server"] + 1, batch["server"] - 1)
  BY <1>2, <1>3, <1>4, <1>10, <1>12, <1>13, <1>14, <1>15 DEF EndOK
<1>17. Shows("server", layer["server"].connected, layer["server"].ended)
  <2>1. Len(records) = 3 /\ \A i \in 1..3 : records[i].type # "application_data"
    <3>1. /\ records[1].type # "application_data" /\ records[2].type # "application_data"
          /\ records[3].type # "application_data" /\ Len(records) = 3
      BY Tuples DEF records, Wrote
    <3>2. \A i \in 1..3 : i = 1 \/ i = 2 \/ i = 3
      OBVIOUS
    <3> QED BY <3>1, <3>2
  <2> QED BY <1>8, <1>9, <1>10, <2>1, ShownWriting
<1> QED BY <1>17, <1>1, <1>9, <1>10, <1>16, TwoEnds, ReadThenWrite

LEMMA ClientKeyExchangeStep == IInv /\ ClientKeyExchange =>
    IInv' /\ Shows("server", layer["server"].connected, layer["server"].ended)
<1> SUFFICES ASSUME IInv, ClientKeyExchange
             PROVE  IInv' /\ Shows("server", layer["server"].connected, layer["server"].ended)
  OBVIOUS
<1> DEFINE h == Hello
           l == log["server"]
           c == layer["server"]
           heard == Hearing(c, Incoming("server").body)
           d == [CalculateKeys(heard, ServerKeys(h)) EXCEPT
                    !.expected = Finished("client", heard.transcript, ServerKeys(h)),
                    !.handshake = "expecting_cipher_change"]
<1>1. Handling("server", "handshake") /\ c.handshake = "expecting_client_key_exchange"
  BY DEF ClientKeyExchange, ExchangeKeys, Arrives
<1>2. c.state = "receiving" /\ batch["server"] > 0
  BY <1>1, TwoEnds, Reading
<1>3. /\ h \in Hellos /\ IsLayer(c) /\ IsSequence(l) /\ batch["server"] \in Nat
      /\ ServerLayer(h, c) /\ ServerLog(h, c, l) /\ Leaving("server", c, l, batch["server"])
  BY ServerOK
<1>4. read["server"] = 1 /\ Incoming("server").body = Exchange(h)
  <2>1. ToServer(h, c, Incoming("server"))
    BY <1>2, ServerComing
  <2>2. ServerHeard(h, c, read["server"])
    BY ServerOK
  <2>3. Incoming("server").body = Exchange(h)
    BY <1>1, <2>1 DEF ToServer, Wrote
  <2> QED BY <1>1, <2>2, <2>3 DEF ServerHeard
<1>5. /\ c.write = "null" /\ c.read = "null" /\ ~ c.connected /\ c.transcript = Flight(h)
      /\ c.hello = h
  BY <1>1, <1>3 DEF ServerLayer, ServerFlown
<1>6. heard.transcript = Exchanged(h)
  <2>1. Append(Flight(h), Exchange(h)) = Exchanged(h)
    BY Transcripts DEF Flight, Exchanged
  <2> QED BY <1>3, <1>4, <1>5, <2>1 DEF IsLayer, Fields, NewLayer, Hearing
<1>7. KeysFor(Incoming("server").body.value) = ServerKeys(h)
  <2>1. Incoming("server").body.value = Secret(h)
    BY <1>4 DEF Exchange, Message
  <2>2. Secret(h) = h.version <=> Complies(h)
    BY <1>3 DEF Secret, Chosen, Complies, Hellos, High
  <2> QED BY <1>5, <2>1, <2>2 DEF KeysFor, ServerKeys
<1>8. Become("server", d, <<>>)
  BY <1>7, Zenon DEF ClientKeyExchange, ExchangeKeys
<1>9. /\ d.handshake = "expecting_cipher_change" /\ d.version = c.version
      /\ d.transcript = Exchanged(h) /\ d.hello = c.hello /\ DOMAIN d = Fields
      /\ d.expected = Finished("client", Exchanged(h), ServerKeys(h))
      /\ d.state = c.state /\ d.read = c.read /\ d.write = c.write
      /\ d.pending_read = ServerKeys(h) /\ d.pending_write = ServerKeys(h)
      /\ d.receive_heartbeats = c.receive_heartbeats /\ d.send_heartbeats = c.send_heartbeats
      /\ d.connected = c.connected /\ d.ended = c.ended /\ d.transport = c.transport
  BY <1>3, <1>6 DEF IsLayer, Fields, NewLayer, Hearing, CalculateKeys
<1> HIDE DEF d, heard
<1>10. Leaving("server", d, l, batch["server"] - 1)
  <2>1. c.transport /\ ~ c.ended /\ \A i \in 1..Len(l) : l[i].type # "alert"
    BY <1>1, <1>2, <1>3, StillHere
  <2> QED BY <1>2, <1>9, <2>1, StaysHere
<1>11. IsLayer(d)
  BY <1>3, <1>9 DEF IsLayer
<1>12. ServerLayer(h, d)
  BY <1>1, <1>2, <1>3, <1>5, <1>9 DEF ServerLayer, ServerFlown
<1>13. ServerLog(h, d, l) /\ ServerHeard(h, d, read["server"] + 1)
  BY <1>1, <1>2, <1>3, <1>4, <1>9 DEF ServerLog, ServerHeard, ServerFlown
<1>14. EndOK(h, "server", d, l, read["server"] + 1, batch["server"] - 1)
  BY <1>2, <1>3, <1>4, <1>10, <1>11, <1>12, <1>13 DEF EndOK
<1>15. Shows("server", layer["server"].connected, layer["server"].ended)
  BY <1>8, <1>9, ShownQuiet
<1> QED BY <1>15, <1>1, <1>8, <1>14, TwoEnds, ReadThenBecome

\* Only keys that are the client's read its Finished: it is the one expected.
LEMMA ClientFinishedStep == IInv /\ ClientFinished =>
    IInv' /\ Shows("server", TRUE, layer["server"].ended)
<1> SUFFICES ASSUME IInv, ClientFinished
             PROVE  IInv' /\ Shows("server", TRUE, layer["server"].ended)
  OBVIOUS
<1> DEFINE h == Hello
           l == log["server"]
           c == layer["server"]
           heard == Hearing(c, Incoming("server").body)
           switched == WriteChangeCipherSpec(heard)
           d == [ConnectApplication(switched) EXCEPT !.transcript = Append(@, ServerVerify(h))]
           records == <<Record(heard, "change_cipher_spec", "empty")>> \o Heartbeats(switched)
                          \o Handshakes(switched, <<ServerVerify(h)>>)
           changed == Wrote("change_cipher_spec", "null", Chosen(h), "empty")
           beat == Wrote("heartbeat", "keys", Chosen(h), "heartbeat_response")
           finished == Wrote("handshake", "keys", Chosen(h), ServerVerify(h))
<1>1. Handling("server", "handshake") /\ c.handshake = "expecting_finished"
  BY DEF ClientFinished, Arrives
<1>2. c.state = "receiving" /\ batch["server"] > 0
  BY <1>1, TwoEnds, Reading
<1>3. /\ h \in Hellos /\ IsLayer(c) /\ IsSequence(l) /\ batch["server"] \in Nat
      /\ ServerLayer(h, c) /\ ServerLog(h, c, l) /\ Leaving("server", c, l, batch["server"])
  BY ServerOK
<1>4. /\ read["server"] = 3 /\ Incoming("server").cipher = "keys"
      /\ Incoming("server").body = ClientVerify(h)
  <2>1. ToServer(h, c, Incoming("server"))
    BY <1>2, ServerComing
  <2>2. ServerHeard(h, c, read["server"])
    BY ServerOK
  <2>3. Incoming("server").body = ClientVerify(h) /\ Incoming("server").cipher = "keys"
    BY <1>1, <2>1 DEF ToServer, Wrote
  <2> QED BY <1>1, <1>2, <2>2, <2>3 DEF ServerHeard
<1>5. Complies(h) /\ c.read = "keys"
  <2>1. c.read = ServerKeys(h)
    BY <1>1, <1>3 DEF ServerLayer
  <2>2. c.read = "keys"
    BY <1>4 DEF ClientFinished, Arrives, Readable, Acceptable
  <2> QED BY <2>1, <2>2 DEF ServerKeys
<1>6. /\ c.write = "null" /\ c.pending_write = "keys" /\ ~ c.connected
      /\ c.transcript = Exchanged(h) /\ c.expected = ClientVerify(h)
      /\ c.version = Chosen(h) /\ c.send_heartbeats = h.heartbeats /\ c.pending_read = "blank"
      /\ h.version >= Low /\ c.hello = h
  BY <1>1, <1>3, <1>5 DEF ServerLayer, ServerFlown, ServerKeys, ClientVerify
<1>7. /\ heard.transcript = Append(Exchanged(h), ClientVerify(h)) /\ heard.read = "keys"
      /\ heard.write = "null" /\ heard.version = Chosen(h)
      /\ heard.expected = ClientVerify(h)
      /\ switched.write = "keys" /\ switched.version = Chosen(h)
      /\ switched.send_heartbeats = h.heartbeats
  BY <1>3, <1>4, <1>5, <1>6
     DEF IsLayer, Fields, NewLayer, Hearing, WriteChangeCipherSpec
<1>8. Become("server", d, records)
  <2> HIDE DEF heard
  <2>1. Finished("server", heard.transcript, heard.read) = ServerVerify(h)
    BY <1>7 DEF ServerVerify
  <2>2. Incoming("server").body = heard.expected
    BY <1>4, <1>7
  <2> QED BY <2>1, <2>2, Zenon DEF ClientFinished, heard
<1>9. /\ d.handshake = "done" /\ d.version = c.version /\ d.hello = c.hello
      /\ DOMAIN d = Fields /\ d.state = c.state /\ d.read = c.read /\ d.write = "keys"
      /\ d.pending_read = c.pending_read /\ d.pending_write = "blank"
      /\ d.receive_heartbeats = c.receive_heartbeats /\ d.send_heartbeats = c.send_heartbeats
      /\ d.connected = TRUE /\ d.ended = c.ended /\ d.transport = c.transport
  BY <1>3, <1>6
     DEF IsLayer, Fields, NewLayer, Hearing, WriteChangeCipherSpec, ConnectApplication
<1>10. /\ Record(heard, "change_cipher_spec", "empty") = changed
       /\ Record(switched, "heartbeat", "heartbeat_response") = beat
       /\ Record(switched, "handshake", ServerVerify(h)) = finished
  BY <1>7 DEF Record, Wrote
<1> HIDE DEF d, heard, switched, changed, beat, finished
<1>11. records = IF h.heartbeats THEN <<changed, beat, finished>> ELSE <<changed, finished>>
  <2>1. Handshakes(switched, <<ServerVerify(h)>>) = <<finished>>
    BY <1>10, OneHandshake
  <2>2. ASSUME h.heartbeats
        PROVE  records = <<changed, beat, finished>>
    <3>1. Heartbeats(switched) = <<beat>>
      BY <1>7, <1>10, <2>2 DEF Heartbeats
    <3>2. <<changed>> \o <<beat>> = <<changed, beat>>
      BY Pieces
    <3>3. <<changed, beat>> \o <<finished>> = <<changed, beat, finished>>
      BY Pieces
    <3> QED BY <1>10, <2>1, <3>1, <3>2, <3>3, Zenon
  <2>3. ASSUME ~ h.heartbeats
        PROVE  records = <<changed, finished>>
    <3>1. Heartbeats(switched) = <<>>
      BY <1>7, <2>3 DEF Heartbeats
    <3>2. <<changed>> \o <<>> = <<changed>>
      BY Pieces
    <3>3. <<changed>> \o <<finished>> = <<changed, finished>>
      BY Pieces
    <3> QED BY <1>10, <2>1, <3>1, <3>2, <3>3, Zenon
  <2> QED BY <2>2, <2>3, Zenon
<1> HIDE DEF records
<1>12. /\ IsSequence(records) /\ Len(records) = 2 + Beat(h) /\ records[1] = changed
       /\ h.heartbeats => records[2] = beat
       /\ records[2 + Beat(h)] = finished
  <2>1. CASE h.heartbeats
    BY <2>1, <1>11, Tuples DEF Beat
  <2>2. CASE ~ h.heartbeats
    BY <2>2, <1>11, Tuples DEF Beat
  <2> QED BY <2>1, <2>2
<1>13. c.transport /\ ~ c.ended /\ Len(l) = 3 /\ \A i \in 1..Len(l) : l[i].type # "alert"
  <2>1. c.transport /\ ~ c.ended /\ \A i \in 1..Len(l) : l[i].type # "alert"
    BY <1>1, <1>2, <1>3, StillHere
  <2> QED BY <1>1, <1>2, <1>3, <2>1 DEF ServerLog, ServerFlown
<1>14. (Beat(h) = 0 /\ ~ h.heartbeats) \/ (Beat(h) = 1 /\ h.heartbeats)
  BY DEF Beat
<1>15. /\ IsSequence(l \o records) /\ Len(l \o records) = 5 + Beat(h)
       /\ \A i \in 1..3 : (l \o records)[i] = l[i]
       /\ (l \o records)[4] = changed
       /\ h.heartbeats => (l \o records)[5] = beat
       /\ (l \o records)[5 + Beat(h)] = finished
  <2> HIDE DEF l, h
  <2>1. /\ IsSequence(l \o records) /\ Len(l) \in Nat
        /\ Len(l \o records) = Len(l) + Len(records)
        /\ \A i \in 1..Len(l) : (l \o records)[i] = l[i]
        /\ Len(records) >= 1 => (l \o records)[Len(l) + 1] = records[1]
        /\ Len(records) >= 2 => (l \o records)[Len(l) + 2] = records[2]
        /\ Len(records) >= 3 => (l \o records)[Len(l) + 3] = records[3]
    BY <1>3, <1>12, Added
  <2>2. CASE Beat(h) = 0 /\ ~ h.heartbeats
    BY <1>12, <1>13, <2>1, <2>2
  <2>3. CASE Beat(h) = 1 /\ h.heartbeats
    BY <1>12, <1>13, <2>1, <2>3
  <2> QED BY <1>14, <2>2, <2>3
<1>16. \A i \in 1..(5 + Beat(h)) : ServerWrites(h, i, (l \o records)[i])
  <2>1. ASSUME NEW i \in 1..3 PROVE ServerWrites(h, i, (l \o records)[i])
    BY <1>3, <1>13, <1>15 DEF ServerLog
  <2>2. ServerWrites(h, 4, changed)
    BY <1>5, <1>14 DEF ServerWrites, changed
  <2>3. h.heartbeats => ServerWrites(h, 5, beat)
    BY <1>14 DEF ServerWrites, beat
  <2>4. ServerWrites(h, 5 + Beat(h), finished)
    BY <1>14 DEF ServerWrites, finished
  <2>5. \A i \in 1..(5 + Beat(h)) : i \in 1..3 \/ i = 4 \/ (i = 5 /\ h.heartbeats) \/ i = 5 + Beat(h)
    BY <1>14
  <2> QED BY <1>15, <2>1, <2>2, <2>3, <2>4, <2>5, Zenon
<1>17. Leaving("server", d, l \o records, batch["server"] - 1)
  <2>1. changed.type # "alert" /\ beat.type # "alert" /\ finished.type # "alert"
    BY DEF changed, beat, finished, Wrote
  <2>2. \A i \in 1..(5 + Beat(h)) : i \in 1..3 \/ i = 4 \/ (i = 5 /\ h.heartbeats) \/ i = 5 + Beat(h)
    BY <1>14
  <2>3. \A i \in 1..Len(l \o records) : (l \o records)[i].type # "alert"
    BY <1>13, <1>15, <2>1, <2>2, Zenon
  <2> QED BY <1>2, <1>9, <1>13, <2>3, StaysHere
<1>18. IsLayer(d)
  BY <1>3, <1>9 DEF IsLayer
<1>19. ServerLayer(h, d)
  BY <1>2, <1>3, <1>5, <1>6, <1>9 DEF ServerLayer, ServerFlown, ServerKeys
<1>20. ServerLog(h, d, l \o records) /\ ServerHeard(h, d, read["server"] + 1)
  BY <1>4, <1>9, <1>14, <1>15, <1>16 DEF ServerLog, ServerHeard, ServerFlown
<1>21. EndOK(h, "server", d, l \o records, read["server"] + 1, batch["server"] - 1)
  BY <1>2, <1>3, <1>4, <1>15, <1>17, <1>18, <1>19, <1>20 DEF EndOK
<1>22. Shows("server", TRUE, layer["server"].ended)
  <2>1. \A i \in 1..Len(records) : records[i] \in {changed, beat, finished}
    <3>1. CASE Beat(h) = 0 /\ ~ h.heartbeats
      BY <1>12, <3>1
    <3>2. CASE Beat(h) = 1 /\ h.heartbeats
      BY <1>12, <3>2
    <3> QED BY <1>14, <3>1, <3>2
  <2>2. /\ changed.type # "application_data" /\ beat.type # "application_data"
        /\ finished.type # "application_data"
    BY DEF changed, beat, finished, Wrote
  <2>3. \A i \in 1..Len(records) : records[i].type # "application_data"
    BY <2>1, <2>2
  <2> QED BY <1>8, <1>9, <1>12, <2>3, ShownWriting
<1> QED BY <1>22, <1>1, <1>8, <1>12, <1>21, TwoEnds, ReadThenWrite

-------------------------------------------------------------------------------
(* Every record can be read, but for the Finished of a client whose secret     *)
(* names another version than its hello.                                       *)

LEMMA ClientReads ==
    ASSUME IInv, batch["client"] > 0, layer["client"].state = "receiving"
    PROVE  Readable("client")
<1> DEFINE c == layer["client"]
           r == Incoming("client")
<1>1. ToClient(Hello, c, read["client"], r)
  BY ClientComing
<1>2. ClientLayer(Hello, c)
  BY ClientOK
<1>3. /\ c.handshake = "expecting_server_hello" => c.version = Unfinalized /\ r.cipher = "null"
      /\ c.handshake \in {"expecting_certificate", "expecting_server_hello_done",
                          "expecting_cipher_change"} =>
            r.version = Chosen(Hello) /\ r.cipher = "null"
      /\ c.handshake \in {"expecting_finished", "done"} =>
            r.version = Chosen(Hello) /\ r.cipher = "keys"
  <2>1. c.handshake = "expecting_server_hello" => c.version = Unfinalized
    BY <1>2 DEF ClientLayer
  <2> QED BY <1>1, <2>1 DEF ToClient, Wrote, Later
<1>4. /\ c.handshake \in {"expecting_server_hello"} \cup
            {"expecting_certificate", "expecting_server_hello_done", "expecting_cipher_change"}
               \cup {"expecting_finished", "done"}
      /\ c.handshake # "expecting_server_hello" => c.version = Chosen(Hello)
      /\ c.read = IF c.handshake \in {"expecting_finished", "done"} THEN "keys" ELSE "null"
  BY <1>2 DEF ClientLayer, ClientStarted, ClientKeyed
<1> QED BY <1>3, <1>4 DEF Readable, Acceptable

LEMMA ServerReads ==
    ASSUME IInv, batch["server"] > 0, layer["server"].state = "receiving"
    PROVE  \/ Readable("server")
           \/ layer["server"].handshake = "expecting_finished" /\ ~ Complies(Hello)
<1> DEFINE c == layer["server"]
           r == Incoming("server")
<1>1. ToServer(Hello, c, r)
  BY ServerComing
<1>2. ServerLayer(Hello, c)
  BY ServerOK
<1>3. /\ c.handshake = "expecting_client_hello" => c.version = Unfinalized /\ r.cipher = "null"
      /\ c.handshake \in {"expecting_client_key_exchange", "expecting_cipher_change"} =>
            r.version = Chosen(Hello) /\ r.cipher = "null"
      /\ c.handshake \in {"expecting_finished", "done"} =>
            r.version = Chosen(Hello) /\ r.cipher = "keys"
  <2>1. c.handshake = "expecting_client_hello" => c.version = Unfinalized
    BY <1>2 DEF ServerLayer
  <2> QED BY <1>1, <2>1 DEF ToServer, Wrote, Later
<1>4. /\ c.handshake \in {"expecting_client_hello", "expecting_client_key_exchange",
                          "expecting_cipher_change", "expecting_finished", "done"}
      /\ c.handshake # "expecting_client_hello" => c.version = Chosen(Hello)
      /\ c.read = IF c.handshake \in {"expecting_finished", "done"}
                  THEN ServerKeys(Hello) ELSE "null"
      /\ c.handshake = "done" => Complies(Hello)
  BY <1>2 DEF ServerLayer, ServerFlown
<1>5. Complies(Hello) => ServerKeys(Hello) = "keys"
  BY DEF ServerKeys
<1> QED BY <1>3, <1>4, <1>5, Zenon DEF Readable, Acceptable

\* It does not, and it is refused.
LEMMA RejectStep == \A e \in Ends : IInv /\ Reject(e) =>
    IInv' /\ ~ layer[e].ended /\ Shows(e, layer[e].connected, TRUE)
<1> SUFFICES ASSUME NEW e \in Ends, IInv, Reject(e)
             PROVE  IInv' /\ ~ layer[e].ended /\ Shows(e, layer[e].connected, TRUE)
  OBVIOUS
<1> DEFINE h == Hello
           l == log["server"]
           c == layer["server"]
           d == [c EXCEPT !.state = "failed", !.ended = TRUE, !.transport = FALSE]
           records == <<Wrote("alert", "null", Chosen(h), "fatal")>>
<1>1. PICK type : Handling(e, type) /\ ~ Readable(e) /\ Fail(e, layer[e])
  BY DEF Reject
<1>2. layer[e].state = "receiving" /\ batch[e] > 0
  BY <1>1, Reading
<1>3. e = "server"
  BY <1>1, <1>2, ClientReads, TwoEnds
<1>4. c.handshake = "expecting_finished" /\ ~ Complies(h)
  BY <1>1, <1>2, <1>3, ServerReads
<1>5. /\ h \in Hellos /\ IsLayer(c) /\ IsSequence(l) /\ batch["server"] \in Nat
      /\ ServerLayer(h, c) /\ ServerLog(h, c, l) /\ Leaving("server", c, l, batch["server"])
      /\ ServerHeard(h, c, read["server"])
  BY ServerOK
<1>6. /\ c.transport /\ ~ c.ended /\ Len(l) = 3 /\ read["server"] = 3
      /\ \A i \in 1..Len(l) : l[i].type # "alert"
  <2>1. c.transport /\ ~ c.ended /\ \A i \in 1..Len(l) : l[i].type # "alert"
    BY <1>2, <1>3, <1>4, <1>5, StillHere
  <2>2. Len(l) = 3
    BY <1>2, <1>3, <1>4, <1>5 DEF ServerLog, ServerFlown
  <2> QED BY <1>2, <1>3, <1>4, <1>5, <2>1, <2>2 DEF ServerHeard
<1>7. c.version = Chosen(h) /\ c.write = "null" /\ ~ c.connected
  BY <1>4, <1>5 DEF ServerLayer
<1>8. /\ d.handshake = c.handshake /\ d.version = c.version /\ DOMAIN d = Fields
      /\ d.hello = c.hello /\ d.transcript = c.transcript /\ d.expected = c.expected
      /\ d.state = "failed" /\ d.read = c.read /\ d.write = c.write
      /\ d.pending_read = c.pending_read /\ d.pending_write = c.pending_write
      /\ d.receive_heartbeats = c.receive_heartbeats /\ d.send_heartbeats = c.send_heartbeats
      /\ d.connected = c.connected /\ d.ended = TRUE /\ d.transport = FALSE
  BY <1>5 DEF IsLayer, Fields, NewLayer
<1>9. Become("server", d, records)
  <2>1. Record(c, "alert", "fatal") = Wrote("alert", "null", Chosen(h), "fatal")
    BY <1>7 DEF Record, Wrote
  <2> QED BY <1>1, <1>3, <1>6, <2>1, Zenon DEF Fail
<1> HIDE DEF d
<1>10. IsSequence(records) /\ Len(records) = 1 /\ records[1] = Wrote("alert", "null", Chosen(h), "fatal")
  BY Tuples
<1>11. /\ IsSequence(l \o records) /\ Len(l \o records) = 4 /\ (l \o records)[4] = records[1]
       /\ \A i \in 1..3 : (l \o records)[i] = l[i]
  <2> HIDE DEF l, records
  <2>1. /\ IsSequence(l \o records) /\ Len(l) \in Nat
        /\ Len(l \o records) = Len(l) + Len(records)
        /\ \A i \in 1..Len(l) : (l \o records)[i] = l[i]
        /\ Len(records) >= 1 => (l \o records)[Len(l) + 1] = records[1]
    BY <1>5, <1>10, Added
  <2> QED BY <1>6, <1>10, <2>1
<1> HIDE DEF records
<1>12. \A i \in 1..4 : ServerWrites(h, i, (l \o records)[i])
  <2>1. ASSUME NEW i \in 1..3 PROVE ServerWrites(h, i, (l \o records)[i])
    BY <1>5, <1>6, <1>11 DEF ServerLog
  <2>2. ServerWrites(h, 4, records[1])
    BY <1>4, <1>10 DEF ServerWrites, Beat
  <2>3. \A i \in 1..4 : i \in 1..3 \/ i = 4
    OBVIOUS
  <2> QED BY <1>11, <2>1, <2>2, <2>3, Zenon
<1>13. Leaving("server", d, l \o records, batch["server"] - 1)
  <2>1. \A i \in 1..4 : i \in 1..3 \/ i = 4
    OBVIOUS
  <2>2. \A i \in 1..Len(l \o records) : (l \o records)[i].type = "alert" =>
            i = Len(l \o records) /\ (l \o records)[i].body # "close_notify"
    <3>1. records[1].body # "close_notify"
      BY <1>10 DEF Wrote
    <3> QED BY <1>6, <1>11, <2>1, <3>1
  <2> QED BY <1>8, <2>2 DEF Leaving
<1>14. IsLayer(d)
  BY <1>5, <1>8 DEF IsLayer
<1>15. ServerLayer(h, d)
  BY <1>4, <1>5, <1>8 DEF ServerLayer, ServerFlown
<1>16. ServerLog(h, d, l \o records) /\ ServerHeard(h, d, read["server"] + 1)
  BY <1>4, <1>6, <1>8, <1>11, <1>12 DEF ServerLog, ServerHeard, ServerFlown
<1>17. read["server"] + 1 \in Nat /\ batch["server"] - 1 \in Nat
  BY <1>1, <1>3, Reading
<1>18. EndOK(h, "server", d, l \o records, read["server"] + 1, batch["server"] - 1)
  BY <1>11, <1>13, <1>14, <1>15, <1>16, <1>17 DEF EndOK
<1>19. ~ layer[e].ended /\ Shows(e, layer[e].connected, TRUE)
  <2>1. records[1].type # "application_data"
    BY <1>10 DEF Wrote
  <2>2. \A i \in 1..Len(records) : records[i].type # "application_data"
    BY <1>10, <2>1
  <2> QED BY <1>3, <1>6, <1>8, <1>9, <1>10, <2>2, ShownWriting
<1> QED BY <1>1, <1>3, <1>9, <1>10, <1>18, <1>19, ReadThenWrite

\* No message is unexpected: what comes is what the state waits for.
LEMMA NothingUnexpected == \A e \in Ends : IInv => ~ Unexpected(e)
<1> SUFFICES ASSUME NEW e \in Ends, IInv, Unexpected(e) PROVE FALSE
  OBVIOUS
<1>1. Handling(e, "handshake")
  BY DEF Unexpected
<1>2. /\ layer[e].state = "receiving" /\ batch[e] > 0
      /\ Incoming(e).type = "handshake"
  BY <1>1, Reading
<1>3. ASSUME e = "client" PROVE FALSE
  <2> DEFINE c == layer["client"]
             r == Incoming("client")
  <2>1. ToClient(Hello, c, read["client"], r)
    BY <1>2, <1>3, ClientComing
  <2>2. ClientLayer(Hello, c)
    BY ClientOK
  <2>3. /\ c.handshake = "expecting_server_hello" => r.body.kind = "server_hello"
        /\ c.handshake = "expecting_certificate" => r.body.kind = "certificate"
        /\ c.handshake = "expecting_server_hello_done" => r.body.kind = "server_hello_done"
        /\ c.handshake = "expecting_finished" => r.body.kind = "finished"
        /\ c.handshake # "expecting_cipher_change" /\ c.handshake # "done"
    BY <1>2, <1>3, <2>1
       DEF ToClient, Wrote, Later, Answer, Certified, HelloDone, ServerVerify, Finished, Message
  <2>4. c.handshake \in {"expecting_server_hello", "expecting_certificate",
                         "expecting_server_hello_done", "expecting_finished"}
    BY <1>2, <1>3, <2>2, <2>3 DEF ClientLayer, ClientStarted, ClientKeyed
  <2>5. c.handshake \in DOMAIN Expected /\ r.body.kind = Expected[c.handshake]
    BY <2>3, <2>4 DEF Expected
  <2> QED BY <1>3, <2>5 DEF Unexpected
<1>4. ASSUME e = "server" PROVE FALSE
  <2> DEFINE c == layer["server"]
             r == Incoming("server")
  <2>1. ToServer(Hello, c, r)
    BY <1>2, <1>4, ServerComing
  <2>2. ServerLayer(Hello, c)
    BY ServerOK
  <2>3. /\ c.handshake = "expecting_client_hello" => r.body.kind = "client_hello"
        /\ c.handshake = "expecting_client_key_exchange" => r.body.kind = "client_key_exchange"
        /\ c.handshake = "expecting_finished" => r.body.kind = "finished"
        /\ c.handshake # "expecting_cipher_change" /\ c.handshake # "done"
    BY <1>2, <1>4, <2>1
       DEF ToServer, Wrote, Later, Greeting, Exchange, ClientVerify, Finished, Message
  <2>4. c.handshake \in {"expecting_client_hello", "expecting_client_key_exchange",
                         "expecting_finished"}
    BY <1>2, <1>4, <2>2, <2>3 DEF ServerLayer, ServerFlown
  <2>5. c.handshake \in DOMAIN Expected /\ r.body.kind = Expected[c.handshake]
    BY <2>3, <2>4 DEF Expected
  <2> QED BY <1>4, <2>5 DEF Unexpected
<1> QED BY <1>3, <1>4, TwoEnds

\* The ciphers change when both ends wait for it.
LEMMA ClientChangeStep == IInv /\ ChangeCipherSpec("client") =>
    IInv' /\ Shows("client", layer["client"].connected, layer["client"].ended)
<1> SUFFICES ASSUME IInv, ChangeCipherSpec("client")
             PROVE  IInv' /\ Shows("client", layer["client"].connected, layer["client"].ended)
  OBVIOUS
<1> DEFINE h == Hello
           l == log["client"]
           c == layer["client"]
           d == InStateOf([c EXCEPT !.read = c.pending_read, !.pending_read = "blank"],
                          "expecting_finished")
<1>1. Handling("client", "change_cipher_spec")
  BY DEF ChangeCipherSpec
<1>2. /\ c.state = "receiving" /\ batch["client"] > 0
      /\ Incoming("client").type = "change_cipher_spec"
  BY <1>1, TwoEnds, Reading
<1>3. /\ h \in Hellos /\ IsLayer(c) /\ IsSequence(l) /\ batch["client"] \in Nat
      /\ ClientLayer(h, c) /\ ClientLog(h, c, l) /\ Leaving("client", c, l, batch["client"])
      /\ ClientHeard(h, c, read["client"])
  BY ClientOK
<1>4. c.handshake = "expecting_cipher_change" /\ read["client"] = 3 /\ Complies(h)
  <2>1. ToClient(h, c, read["client"], Incoming("client"))
    BY <1>2, ClientComing
  <2>2. c.handshake \in ClientStarted \cup ClientKeyed
    BY <1>2, <1>3 DEF ClientLayer
  <2>3. c.handshake = "expecting_cipher_change"
    BY <1>2, <2>1, <2>2 DEF ToClient, Wrote, Later, ClientStarted, ClientKeyed
  <2>4. Incoming("client") = IF Complies(h)
            THEN Wrote("change_cipher_spec", "null", Chosen(h), "empty")
            ELSE Wrote("alert", "null", Chosen(h), "fatal")
    BY <2>1, <2>3, Zenon DEF ToClient
  <2>5. Complies(h)
    BY <1>2, <2>4 DEF Wrote
  <2>6. read["client"] = 3
    BY <2>1, <2>3, Zenon DEF ToClient
  <2> QED BY <2>3, <2>5, <2>6
<1>5. Become("client", d, <<>>)
  <2>1. [c EXCEPT !.read = c.pending_read, !.pending_read = "blank"].handshake =
            "expecting_cipher_change"
    BY <1>3, <1>4 DEF IsLayer, Fields, NewLayer
  <2> QED BY <2>1 DEF ChangeCipherSpec
<1>6. /\ d.handshake = "expecting_finished" /\ d.version = c.version
      /\ d.expected = c.expected /\ DOMAIN d = Fields
      /\ d.hello = c.hello /\ d.state = c.state /\ d.read = c.pending_read /\ d.write = c.write
      /\ d.pending_read = "blank" /\ d.pending_write = c.pending_write
      /\ d.receive_heartbeats = c.receive_heartbeats /\ d.send_heartbeats = c.send_heartbeats
      /\ d.connected = c.connected /\ d.ended = c.ended /\ d.transport = c.transport
  BY <1>3 DEF IsLayer, Fields, NewLayer, InStateOf
<1> HIDE DEF d
<1>7. Leaving("client", d, l, batch["client"] - 1)
  <2>1. c.transport /\ ~ c.ended /\ \A i \in 1..Len(l) : l[i].type # "alert"
    BY <1>2, <1>3, <1>4, StillHere
  <2> QED BY <1>2, <1>6, <2>1, StaysHere
<1>8. IsLayer(d)
  BY <1>3, <1>6 DEF IsLayer
<1>9. ClientLayer(h, d)
  BY <1>2, <1>3, <1>4, <1>6 DEF ClientLayer, ClientStarted, ClientKeyed
<1>10. ClientLog(h, d, l)
  BY <1>3, <1>4, <1>6 DEF ClientLog, ClientStarted, ClientKeyed
<1>11. ClientHeard(h, d, read["client"] + 1)
  <2>1. h.version >= Low
    BY <1>3, <1>4 DEF ClientHeard
  <2> QED BY <1>4, <1>6, <2>1 DEF ClientHeard
<1>12. read["client"] + 1 \in Nat /\ batch["client"] - 1 \in Nat
  BY <1>1, TwoEnds, Reading
<1>13. EndOK(h, "client", d, l, read["client"] + 1, batch["client"] - 1)
  BY <1>3, <1>7, <1>8, <1>9, <1>10, <1>11, <1>12 DEF EndOK
<1>14. Shows("client", layer["client"].connected, layer["client"].ended)
  BY <1>5, <1>6, ShownQuiet
<1> QED BY <1>14, <1>1, <1>5, <1>13, TwoEnds, ReadThenBecome

LEMMA ServerChangeStep == IInv /\ ChangeCipherSpec("server") =>
    IInv' /\ Shows("server", layer["server"].connected, layer["server"].ended)
<1> SUFFICES ASSUME IInv, ChangeCipherSpec("server")
             PROVE  IInv' /\ Shows("server", layer["server"].connected, layer["server"].ended)
  OBVIOUS
<1> DEFINE h == Hello
           l == log["server"]
           c == layer["server"]
           d == InStateOf([c EXCEPT !.read = c.pending_read, !.pending_read = "blank"],
                          "expecting_finished")
<1>1. Handling("server", "change_cipher_spec")
  BY DEF ChangeCipherSpec
<1>2. /\ c.state = "receiving" /\ batch["server"] > 0
      /\ Incoming("server").type = "change_cipher_spec"
  BY <1>1, TwoEnds, Reading
<1>3. /\ h \in Hellos /\ IsLayer(c) /\ IsSequence(l) /\ batch["server"] \in Nat
      /\ ServerLayer(h, c) /\ ServerLog(h, c, l) /\ Leaving("server", c, l, batch["server"])
      /\ ServerHeard(h, c, read["server"])
  BY ServerOK
<1>4. c.handshake = "expecting_cipher_change" /\ read["server"] = 2
  <2>1. ToServer(h, c, Incoming("server"))
    BY <1>2, ServerComing
  <2>2. c.handshake \in {"expecting_client_hello"} \cup ServerFlown \cup {"done"}
    BY <1>2, <1>3 DEF ServerLayer
  <2>3. c.handshake = "expecting_cipher_change"
    BY <1>2, <2>1, <2>2 DEF ToServer, Wrote, Later, ServerFlown
  <2> QED BY <1>3, <2>3 DEF ServerHeard
<1>5. Become("server", d, <<>>)
  <2>1. [c EXCEPT !.read = c.pending_read, !.pending_read = "blank"].handshake =
            "expecting_cipher_change"
    BY <1>3, <1>4 DEF IsLayer, Fields, NewLayer
  <2> QED BY <2>1 DEF ChangeCipherSpec
<1>6. /\ d.handshake = "expecting_finished" /\ d.version = c.version
      /\ d.expected = c.expected /\ DOMAIN d = Fields /\ d.transcript = c.transcript
      /\ d.hello = c.hello /\ d.state = c.state /\ d.read = c.pending_read /\ d.write = c.write
      /\ d.pending_read = "blank" /\ d.pending_write = c.pending_write
      /\ d.receive_heartbeats = c.receive_heartbeats /\ d.send_heartbeats = c.send_heartbeats
      /\ d.connected = c.connected /\ d.ended = c.ended /\ d.transport = c.transport
  BY <1>3 DEF IsLayer, Fields, NewLayer, InStateOf
<1> HIDE DEF d
<1>7. Leaving("server", d, l, batch["server"] - 1)
  <2>1. c.transport /\ ~ c.ended /\ \A i \in 1..Len(l) : l[i].type # "alert"
    BY <1>2, <1>3, <1>4, StillHere
  <2> QED BY <1>2, <1>6, <2>1, StaysHere
<1>8. IsLayer(d)
  BY <1>3, <1>6 DEF IsLayer
<1>9. ServerLayer(h, d)
  BY <1>2, <1>3, <1>4, <1>6 DEF ServerLayer, ServerFlown
<1>10. ServerLog(h, d, l) /\ ServerHeard(h, d, read["server"] + 1)
  BY <1>2, <1>3, <1>4, <1>6 DEF ServerLog, ServerHeard, ServerFlown
<1>11. read["server"] + 1 \in Nat /\ batch["server"] - 1 \in Nat
  BY <1>1, TwoEnds, Reading
<1>12. EndOK(h, "server", d, l, read["server"] + 1, batch["server"] - 1)
  BY <1>3, <1>7, <1>8, <1>9, <1>10, <1>11 DEF EndOK
<1>13. Shows("server", layer["server"].connected, layer["server"].ended)
  BY <1>5, <1>6, ShownQuiet
<1> QED BY <1>13, <1>1, <1>5, <1>12, TwoEnds, ReadThenBecome

\* A connected end that reads on stays as it should be.
LEMMA ReadsOn ==
    ASSUME IInv, NEW e \in Ends, batch[e] > 0, layer[e].handshake = "done"
    PROVE  EndOK(Hello, e, layer[e], log[e], read[e] + 1, batch[e] - 1)
<1> DEFINE c == layer[e]
           l == log[e]
           n == read[e]
           b == batch[e]
<1>1. EndOK(Hello, e, c, l, n, b)
  BY DEF IInv
<1> HIDE DEF c, l, n, b
<1>2. n \in Nat /\ b \in Nat /\ b > 0 /\ c.handshake = "done"
  BY <1>1 DEF EndOK, b, c
<1>3. e = "client" => ClientHeard(Hello, c, n + 1)
  BY <1>1, <1>2 DEF EndOK, ClientHeard, Beat
<1>4. e = "server" => ServerHeard(Hello, c, n + 1)
  BY <1>1, <1>2 DEF EndOK, ServerHeard
<1>5. Leaving(e, c, l, b - 1)
  BY <1>1, <1>2 DEF EndOK, Leaving
<1>6. EndOK(Hello, e, c, l, n + 1, b - 1)
  BY <1>1, <1>2, <1>3, <1>4, <1>5 DEF EndOK
<1> QED BY <1>6 DEF c, l, n, b

\* What comes to a connected end, or is not of the handshake.
LEMMA Arriving ==
    ASSUME IInv, NEW e \in Ends, NEW type, Handling(e, type),
           type \in {"alert", "heartbeat", "application_data"}
    PROVE  \/ layer[e].handshake = "done" /\ Later(Hello, Incoming(e))
           \/ /\ e = "client" /\ type = "alert" /\ Incoming(e).body = "fatal"
              /\ \/ /\ layer[e].handshake = "expecting_server_hello"
                    /\ read[e] = 0 /\ Hello.version < Low
                 \/ /\ layer[e].handshake = "expecting_cipher_change"
                    /\ read[e] = 3 /\ ~ Complies(Hello)
           \/ /\ e = "client" /\ type = "heartbeat" /\ Hello.heartbeats
              /\ layer[e].handshake = "expecting_finished" /\ read[e] = 4
<1>1. layer[e].state = "receiving" /\ batch[e] > 0 /\ Incoming(e).type = type
  BY Reading
<1>2. ASSUME e = "server"
      PROVE  layer[e].handshake = "done" /\ Later(Hello, Incoming(e))
  <2> DEFINE c == layer["server"]
             r == Incoming("server")
  <2>1. ToServer(Hello, c, r)
    BY <1>1, <1>2, ServerComing
  <2>2. c.handshake \in {"expecting_client_hello"} \cup ServerFlown \cup {"done"}
    BY <1>1, <1>2, ServerOK DEF ServerLayer
  <2>3. c.handshake = "done"
    BY <1>1, <1>2, <2>1, <2>2 DEF ToServer, Wrote, ServerFlown
  <2> QED BY <1>2, <2>1, <2>3, Zenon DEF ToServer
<1>3. CASE e = "client"
  <2> DEFINE c == layer["client"]
             r == Incoming("client")
             n == read["client"]
  <2>1. ToClient(Hello, c, n, r)
    BY <1>1, <1>3, ClientComing
  <2>2. c.handshake \in ClientStarted \cup ClientKeyed
    BY <1>1, <1>3, ClientOK DEF ClientLayer
  <2>3. c.handshake = "done" => Later(Hello, r)
    BY <2>1, Zenon DEF ToClient
  <2>4. c.handshake = "expecting_server_hello" =>
          n = 0 /\ Hello.version < Low /\ r = Wrote("alert", "null", Unfinalized, "fatal")
    <3>1. c.handshake = "expecting_server_hello" =>
            n = 0 /\ r = IF Hello.version < Low
                         THEN Wrote("alert", "null", Unfinalized, "fatal")
                         ELSE Wrote("handshake", "null", Chosen(Hello), Answer(Hello))
      BY <2>1, Zenon DEF ToClient
    <3> QED BY <1>1, <1>3, <3>1 DEF Wrote
  <2>5. c.handshake = "expecting_cipher_change" =>
          n = 3 /\ ~ Complies(Hello) /\ r = Wrote("alert", "null", Chosen(Hello), "fatal")
    <3>1. c.handshake = "expecting_cipher_change" =>
            n = 3 /\ r = IF Complies(Hello)
                         THEN Wrote("change_cipher_spec", "null", Chosen(Hello), "empty")
                         ELSE Wrote("alert", "null", Chosen(Hello), "fatal")
      BY <2>1, Zenon DEF ToClient
    <3> QED BY <1>1, <1>3, <3>1 DEF Wrote
  <2>6. c.handshake # "expecting_certificate" /\ c.handshake # "expecting_server_hello_done"
    BY <1>1, <1>3, <2>1 DEF ToClient, Wrote
  <2>7. c.handshake = "expecting_finished" => Hello.heartbeats /\ n = 4 /\ r.type = "heartbeat"
    BY <1>1, <1>3, <2>1 DEF ToClient, Wrote
  <2>8. c.handshake \in {"expecting_server_hello", "expecting_cipher_change",
                         "expecting_finished", "done"}
    BY <2>2, <2>6 DEF ClientStarted, ClientKeyed
  <2>9. /\ c.handshake = "expecting_server_hello" => r.type = "alert" /\ r.body = "fatal"
        /\ c.handshake = "expecting_cipher_change" => r.type = "alert" /\ r.body = "fatal"
    BY <2>4, <2>5 DEF Wrote
  <2> QED BY <1>1, <1>3, <2>3, <2>4, <2>5, <2>7, <2>8, <2>9, Zenon
<1> QED BY <1>2, <1>3, TwoEnds

\* An alert is the last record of its end: who handles it has nothing left to handle.
LEMMA LastRecord ==
    ASSUME IInv, NEW e \in Ends, NEW type, Handling(e, type), Incoming(e).type = "alert"
    PROVE  batch[e] - 1 = 0 /\ read[e] + 1 = Len(log[Peer(e)]) /\ ~ layer[Peer(e)].transport
<1> DEFINE p == Peer(e)
<1>1. p \in Ends
  BY TwoEnds
<1>2. Leaving(p, layer[p], log[p], batch[p])
  BY <1>1 DEF IInv, EndOK
<1>3. /\ batch[e] > 0 /\ read[e] + 1 \in 1..Len(log[p]) /\ read[e] \in Nat /\ batch[e] \in Nat
      /\ read[e] + batch[e] <= Len(log[p]) /\ Len(log[p]) \in Nat
  <2>1. batch[e] > 0
    BY Reading
  <2> QED BY <1>1, <2>1, ToRead DEF IInv, Shapes, IsSequence
<1>4. read[e] + 1 = Len(log[p]) /\ ~ layer[p].transport
  BY <1>2, <1>3 DEF Leaving, Incoming
<1> QED BY <1>3, <1>4

\* An end that is told of the end, with nothing left to handle, stays as it should be.
LEMMA EndsWell ==
    ASSUME NEW h, NEW e \in Ends, NEW c, NEW d, NEW l, NEW n, NEW b, EndOK(h, e, c, l, n, b), b = 0,
           DOMAIN d = Fields, d.state = c.state, d.handshake = c.handshake,
           d.transcript = c.transcript, d.expected = c.expected, d.hello = c.hello,
           d.version = c.version, d.read = c.read, d.write = c.write,
           d.pending_read = c.pending_read, d.pending_write = c.pending_write,
           d.receive_heartbeats = c.receive_heartbeats, d.send_heartbeats = c.send_heartbeats,
           d.connected = c.connected, d.ended = TRUE, d.transport = FALSE
    PROVE  EndOK(h, e, d, l, n, b)
<1>1. IsLayer(d)
  BY DEF EndOK, IsLayer
<1>2. Leaving(e, d, l, b)
  BY DEF EndOK, Leaving
<1>3. e = "client" => ClientLayer(h, d) /\ ClientLog(h, d, l) /\ ClientHeard(h, d, n)
  <2>1. ASSUME e = "client" PROVE ClientLayer(h, c) /\ ClientLog(h, c, l) /\ ClientHeard(h, c, n)
    BY <2>1 DEF EndOK
  <2>2. e = "client" => ClientLayer(h, d)
    BY <2>1 DEF ClientLayer
  <2>3. e = "client" => ClientLog(h, d, l)
    BY <2>1 DEF ClientLog
  <2>4. e = "client" => ClientHeard(h, d, n)
    BY <2>1 DEF ClientHeard
  <2> QED BY <2>2, <2>3, <2>4
<1>4. e = "server" => ServerLayer(h, d) /\ ServerLog(h, d, l) /\ ServerHeard(h, d, n)
  <2>1. ASSUME e = "server" PROVE ServerLayer(h, c) /\ ServerLog(h, c, l) /\ ServerHeard(h, c, n)
    BY <2>1 DEF EndOK
  <2>2. e = "server" => ServerLayer(h, d)
    BY <2>1 DEF ServerLayer
  <2>3. e = "server" => ServerLog(h, d, l)
    BY <2>1 DEF ServerLog
  <2>4. e = "server" => ServerHeard(h, d, n)
    BY <2>1 DEF ServerHeard
  <2> QED BY <2>2, <2>3, <2>4
<1> QED BY <1>1, <1>2, <1>3, <1>4 DEF EndOK

\* Records that are ignored before the session is connected move only the client.
LEMMA IgnoredEarly ==
    ASSUME IInv, NEW type, Handling("client", type),
           type \in {"alert", "heartbeat"}, layer["client"].handshake # "done"
    PROVE  EndOK(Hello, "client", layer["client"], log["client"],
                 read["client"] + 1, batch["client"] - 1)
<1> DEFINE c == layer["client"]
           l == log["client"]
           n == read["client"]
           b == batch["client"]
<1>1. \/ c.handshake = "expecting_server_hello" /\ n = 0 /\ Hello.version < Low
      \/ c.handshake = "expecting_cipher_change" /\ n = 3 /\ ~ Complies(Hello)
      \/ c.handshake = "expecting_finished" /\ n = 4 /\ Hello.heartbeats
  BY Arriving, TwoEnds
<1>2. /\ IsLayer(c) /\ IsSequence(l) /\ n \in Nat /\ b \in Nat
      /\ ClientLayer(Hello, c) /\ ClientLog(Hello, c, l) /\ ClientHeard(Hello, c, n)
      /\ Leaving("client", c, l, b)
  BY ClientOK
<1>3. c.state = "receiving" /\ b > 0
  BY TwoEnds, Reading
<1> HIDE DEF c, l, n, b
<1>4. ClientHeard(Hello, c, n + 1)
  <2>1. CASE c.handshake = "expecting_server_hello" /\ n = 0 /\ Hello.version < Low
    BY <2>1, <1>2 DEF ClientHeard
  <2>2. CASE c.handshake = "expecting_cipher_change" /\ n = 3 /\ ~ Complies(Hello)
    BY <2>2, <1>2 DEF ClientHeard
  <2>3. CASE c.handshake = "expecting_finished" /\ n = 4 /\ Hello.heartbeats
    BY <2>3, <1>2 DEF ClientHeard
  <2> QED BY <1>1, <2>1, <2>2, <2>3
<1>5. Leaving("client", c, l, b - 1)
  BY <1>2, <1>3 DEF Leaving
<1>6. EndOK(Hello, "client", c, l, n + 1, b - 1)
  BY <1>2, <1>3, <1>4, <1>5 DEF EndOK
<1> QED BY <1>6 DEF c, l, n, b

\* Both must close for an alert to crash one.
LEMMA AlertStep == \A e \in Ends : IInv /\ Alert(e) =>
    /\ IInv'
    /\ \/ UNCHANGED <<layer, log, fatal>>
       \/ Crash /\ Closers = Ends
       \/ ~ layer[e].ended /\ Shows(e, layer[e].connected, TRUE)
<1> SUFFICES ASSUME NEW e \in Ends, IInv, Alert(e)
             PROVE  /\ IInv'
                    /\ \/ UNCHANGED <<layer, log, fatal>>
                       \/ Crash /\ Closers = Ends
                       \/ ~ layer[e].ended /\ Shows(e, layer[e].connected, TRUE)
  OBVIOUS
<1>1. Handling(e, "alert")
  BY DEF Alert
<1>2. /\ layer[e].state = "receiving" /\ batch[e] > 0 /\ Incoming(e).type = "alert"
      /\ read[e] \in Nat /\ batch[e] \in Nat
  BY <1>1, Reading
<1>3. EndOK(Hello, e, layer[e], log[e], read[e] + 1, batch[e] - 1)
  <2>1. CASE layer[e].handshake = "done"
    BY <1>2, <2>1, ReadsOn
  <2>2. CASE layer[e].handshake # "done"
    <3>1. e = "client"
      BY <1>1, <2>2, Arriving
    <3> QED BY <1>1, <2>2, <3>1, IgnoredEarly
  <2> QED BY <2>1, <2>2
<1>4. fatal \in BOOLEAN
  BY DEF IInv, Shapes
<1>5. CASE UNCHANGED <<layer, log, fatal>>
  BY <1>1, <1>3, <1>4, <1>5, ReadOnly
<1>6. CASE Crash /\ Incoming(e).body = "close_notify" /\ ~ layer[e].transport
  <2> DEFINE p == Peer(e)
  <2>1. UNCHANGED <<layer, log>> /\ fatal' \in BOOLEAN
    BY <1>6 DEF Crash
  <2>2. IInv'
    BY <1>1, <1>3, <2>1, ReadOnly
  <2>3. e \in Closers
    <3>1. Leaving(e, layer[e], log[e], batch[e])
      BY DEF IInv, EndOK
    <3> QED BY <1>2, <1>6, <3>1 DEF Leaving
  <2>4. p \in Closers
    <3>1. p \in Ends /\ Leaving(p, layer[p], log[p], batch[p])
      BY TwoEnds DEF IInv, EndOK
    <3>2. read[e] + 1 \in 1..Len(log[p]) /\ Incoming(e) = log[p][read[e] + 1]
      BY <1>2, ToRead DEF Incoming
    <3> QED BY <1>2, <1>6, <3>1, <3>2 DEF Leaving
  <2>5. Closers = Ends
    BY <2>3, <2>4, TwoEnds
  <2> QED BY <1>6, <2>2, <2>5
<1>7. CASE /\ Incoming(e).body = "close_notify" /\ layer[e].transport
           /\ Become(e, [layer[e] EXCEPT !.ended = TRUE, !.transport = FALSE], <<>>)
  <2> DEFINE c == layer[e]
             l == log[e]
             n == read[e] + 1
             b == batch[e] - 1
             d == [c EXCEPT !.ended = TRUE, !.transport = FALSE]
  <2>1. c.handshake = "done"
    <3>1. Incoming(e).body # "fatal"
      BY <1>7
    <3> QED BY <1>1, <3>1, Arriving
  <2>2. b = 0
    BY <1>1, <1>2, LastRecord
  <2>3. EndOK(Hello, e, c, l, n, b)
    BY <1>3
  <2>4. /\ d.handshake = c.handshake /\ d.version = c.version /\ DOMAIN d = Fields
        /\ d.hello = c.hello /\ d.transcript = c.transcript /\ d.expected = c.expected
        /\ d.state = c.state /\ d.read = c.read /\ d.write = c.write
        /\ d.pending_read = c.pending_read /\ d.pending_write = c.pending_write
        /\ d.receive_heartbeats = c.receive_heartbeats /\ d.send_heartbeats = c.send_heartbeats
        /\ d.connected = c.connected /\ d.ended = TRUE /\ d.transport = FALSE
    BY <2>3 DEF EndOK, IsLayer, Fields, NewLayer
  <2> HIDE DEF c, d, l, n, b
  <2>5. EndOK(Hello, e, d, l, n, b)
    BY <2>2, <2>3, <2>4, EndsWell
  <2>6. IInv'
    BY <1>1, <1>7, <2>5, ReadThenBecome DEF c, d, l, n, b
  <2>7. ~ layer[e].ended
    BY <1>7, <2>3 DEF EndOK, Leaving, c
  <2>8. Shows(e, layer[e].connected, TRUE)
    BY <1>7, <2>4, ShownQuiet DEF c, d
  <2> QED BY <2>6, <2>7, <2>8
<1> QED BY <1>5, <1>6, <1>7 DEF Alert, Ignore

LEMMA HeartbeatStep == \A e \in Ends : IInv /\ Heartbeat(e) => IInv' /\ UNCHANGED <<layer, log, fatal>>
<1> SUFFICES ASSUME NEW e \in Ends, IInv, Heartbeat(e)
             PROVE  IInv' /\ UNCHANGED <<layer, log, fatal>>
  OBVIOUS
<1>1. Handling(e, "heartbeat")
  BY DEF Heartbeat
<1>2. e = "client" /\ Hello.heartbeats /\ layer[e].handshake = "expecting_finished"
  <2>1. Incoming(e).type = "heartbeat"
    BY <1>1, Reading
  <2>2. ~ Later(Hello, Incoming(e))
    BY <2>1 DEF Later
  <2> QED BY <1>1, <2>2, Arriving
<1>3. layer["client"].hello.heartbeats /\ ~ layer["client"].receive_heartbeats
  BY <1>2, ClientOK DEF ClientLayer, Hello
<1>4. UNCHANGED <<layer, log, fatal>>
  BY <1>2, <1>3 DEF Heartbeat, Ignore
<1>5. EndOK(Hello, e, layer[e], log[e], read[e] + 1, batch[e] - 1)
  BY <1>1, <1>2, IgnoredEarly
<1>6. fatal \in BOOLEAN
  BY DEF IInv, Shapes
<1> QED BY <1>1, <1>4, <1>5, <1>6, ReadOnly

\* A connected end adds a record of data, or its last: because its application closes,
\* or, at the server, fails on what it reads.
LEMMA AddsRecord ==
    ASSUME IInv, NEW e \in Ends, NEW d, NEW r, Later(Hello, r), NEW n, NEW b,
           EndOK(Hello, e, layer[e], log[e], n, b),
           layer[e].connected, layer[e].transport, ~ layer[e].ended,
           \/ d = layer[e]
           \/ d = [layer[e] EXCEPT !.transport = FALSE] /\ e \in Closers
           \/ /\ d = [layer[e] EXCEPT !.state = "failed", !.ended = TRUE, !.transport = FALSE]
              /\ e = "server" /\ Unparsed,
           r.type = "alert" => ~ d.transport /\ (r.body = "close_notify" => e \in Closers)
    PROVE  EndOK(Hello, e, d, log[e] \o <<r>>, n, b)
<1> DEFINE h == Hello
           c == layer[e]
           l == log[e]
           k == l \o <<r>>
<1>1. EndOK(h, e, c, l, n, b)
  OBVIOUS
<1>2. /\ IsSequence(k) /\ Len(k) = Len(l) + 1 /\ Len(l) \in Nat
      /\ \A i \in 1..Len(l) : k[i] = l[i]
      /\ k[Len(l) + 1] = r
  <2>1. IsSequence(l) /\ IsSequence(<<r>>) /\ Len(<<r>>) = 1 /\ <<r>>[1] = r
    BY <1>1, Tuples DEF EndOK
  <2> HIDE DEF l
  <2>2. /\ IsSequence(l \o <<r>>) /\ Len(l) \in Nat
        /\ Len(l \o <<r>>) = Len(l) + Len(<<r>>)
        /\ \A i \in 1..Len(l) : (l \o <<r>>)[i] = l[i]
        /\ Len(<<r>>) >= 1 => (l \o <<r>>)[Len(l) + 1] = <<r>>[1]
    BY <2>1, Added
  <2> QED BY <2>1, <2>2
<1>3. /\ d.handshake = c.handshake /\ d.version = c.version /\ DOMAIN d = Fields
      /\ d.hello = c.hello /\ d.transcript = c.transcript /\ d.expected = c.expected
      /\ d.read = c.read /\ d.write = c.write
      /\ d.pending_read = c.pending_read /\ d.pending_write = c.pending_write
      /\ d.receive_heartbeats = c.receive_heartbeats /\ d.send_heartbeats = c.send_heartbeats
      /\ d.connected = c.connected /\ d.transport \in BOOLEAN
      /\ \/ d.state = c.state /\ d.ended = c.ended /\ (d.transport \/ e \in Closers)
         \/ d.state = "failed" /\ d.ended = TRUE /\ ~ d.transport /\ e = "server" /\ Unparsed
  <2>1. IsLayer(c)
    BY <1>1 DEF EndOK
  <2> QED BY <2>1 DEF IsLayer, Fields, NewLayer
<1>4. c.connected /\ c.transport /\ ~ c.ended
  OBVIOUS
<1>5. h \in Hellos
  BY DEF IInv, Shapes
<1>11. r.type = "alert" => ~ d.transport /\ (r.body = "close_notify" => e \in Closers)
  OBVIOUS
<1> HIDE DEF c, l, k, h
<1>6. ASSUME e = "client"
      PROVE  ClientLayer(h, d) /\ ClientLog(h, d, k) /\ ClientHeard(h, d, n)
  <2>1. ClientLayer(h, c) /\ ClientLog(h, c, l) /\ ClientHeard(h, c, n)
    BY <1>1, <1>6 DEF EndOK
  <2>2. c.handshake = "done" /\ Len(l) >= 4
    BY <1>4, <2>1 DEF ClientLayer, ClientLog, ClientKeyed
  <2>3. ClientLayer(h, d)
    <3>1. d.state = c.state
      BY <1>3, <1>6
    <3> QED BY <1>3, <2>1, <3>1 DEF ClientLayer
  <2>4. \A i \in 1..Len(k) : ClientWrites(h, i, k[i])
    <3>1. \A i \in 1..Len(l) : ClientWrites(h, i, k[i])
      BY <1>2, <2>1 DEF ClientLog
    <3>2. ClientWrites(h, Len(l) + 1, r)
      BY <1>2, <2>2 DEF ClientWrites, h
    <3>3. \A i \in 1..Len(k) : i \in 1..Len(l) \/ i = Len(l) + 1
      BY <1>2
    <3> QED BY <1>2, <3>1, <3>2, <3>3
  <2>5. ClientLog(h, d, k)
    BY <1>2, <1>3, <2>2, <2>4 DEF ClientLog, ClientStarted
  <2>6. ClientHeard(h, d, n)
    BY <1>3, <2>1 DEF ClientHeard
  <2> QED BY <2>3, <2>5, <2>6
<1>7. ASSUME e = "server"
      PROVE  ServerLayer(h, d) /\ ServerLog(h, d, k) /\ ServerHeard(h, d, n)
  <2>1. ServerLayer(h, c) /\ ServerLog(h, c, l) /\ ServerHeard(h, c, n)
    BY <1>1, <1>7 DEF EndOK
  <2>2. c.handshake = "done" /\ Len(l) >= 5 + Beat(h)
    BY <1>4, <2>1 DEF ServerLayer, ServerLog
  <2>3. ServerLayer(h, d)
    <3>1. /\ d.state = "failed" => c.state = "failed" \/ Unparsed
          /\ d.state # "unconnected"
      BY <1>3, <2>1, <2>2 DEF ServerLayer
    <3> QED BY <1>3, <2>1, <2>2, <3>1 DEF ServerLayer
  <2>4. \A i \in 1..Len(k) : ServerWrites(h, i, k[i])
    <3>1. \A i \in 1..Len(l) : ServerWrites(h, i, k[i])
      BY <1>2, <2>1 DEF ServerLog
    <3>2. ServerWrites(h, Len(l) + 1, r)
      <4>1. (Beat(h) = 0 /\ ~ h.heartbeats) \/ Beat(h) = 1
        BY DEF Beat
      <4> QED BY <1>2, <2>2, <4>1 DEF ServerWrites, h
    <3>3. \A i \in 1..Len(k) : i \in 1..Len(l) \/ i = Len(l) + 1
      BY <1>2
    <3> QED BY <1>2, <3>1, <3>2, <3>3
  <2>5. ServerLog(h, d, k)
    <3>1. Beat(h) \in Nat
      BY DEF Beat
    <3> QED BY <1>2, <1>3, <2>2, <2>4, <3>1 DEF ServerLog, ServerFlown
  <2>6. ServerHeard(h, d, n)
    BY <1>3, <2>1, <2>2 DEF ServerHeard
  <2> QED BY <2>3, <2>5, <2>6
<1>8. Leaving(e, d, k, b)
  <2>1. Leaving(e, c, l, b)
    BY <1>1 DEF EndOK
  <2>2. c.handshake = "done" /\ c.state # "failed"
    BY <1>1, <1>4, <2>1, TwoEnds DEF EndOK, ClientLayer, ServerLayer, Leaving
  <2>5. /\ c.transport
        /\ \A i \in 1..Len(l) : l[i].type # "alert"
    BY <1>4, <2>1 DEF Leaving
  <2>3. \A i \in 1..Len(k) : i \in 1..Len(l) \/ i = Len(l) + 1
    BY <1>2
  <2>4. \A i \in 1..Len(k) : k[i].type = "alert" =>
            /\ i = Len(k) /\ ~ d.transport
            /\ k[i].body = "close_notify" => e \in Closers
    BY <1>2, <1>11, <2>3, <2>5
  <2> QED BY <1>3, <1>4, <2>2, <2>4 DEF Leaving
<1>9. IsLayer(d)
  BY <1>1, <1>3 DEF EndOK, IsLayer
<1>10. EndOK(h, e, d, k, n, b)
  BY <1>1, <1>2, <1>6, <1>7, <1>8, <1>9 DEF EndOK
<1> QED BY <1>10 DEF c, l, k, h

\* A server whose application has closed is brought down by more data.
LEMMA DataStep == \A e \in Ends : IInv /\ Data(e) =>
    /\ IInv'
    /\ \/ UNCHANGED <<layer, log, fatal>>
       \/ Crash /\ "server" \in Closers
       \/ ~ layer[e].ended /\ Shows(e, layer[e].connected, TRUE)
<1> SUFFICES ASSUME NEW e \in Ends, IInv, Data(e)
             PROVE  /\ IInv'
                    /\ \/ UNCHANGED <<layer, log, fatal>>
                       \/ Crash /\ "server" \in Closers
                       \/ ~ layer[e].ended /\ Shows(e, layer[e].connected, TRUE)
  OBVIOUS
<1>1. Handling(e, "application_data")
  BY DEF Data
<1>2. layer[e].handshake = "done"
  BY <1>1, Arriving
<1>3. layer[e].connected /\ layer[e].write = "keys" /\ layer[e].version = Chosen(Hello)
  BY <1>2, ClientOK, ServerOK, TwoEnds DEF ClientLayer, ServerLayer, ClientKeyed
<1>4. EndOK(Hello, e, layer[e], log[e], read[e] + 1, batch[e] - 1)
  BY <1>1, <1>2, Reading, ReadsOn
<1>5. fatal \in BOOLEAN
  BY DEF IInv, Shapes
<1>6. /\ IsLayer(layer[e]) /\ layer[e].state = "receiving" /\ batch[e] > 0
      /\ Leaving(e, layer[e], log[e], batch[e])
  BY <1>1, Reading DEF IInv, EndOK
<1>7. CASE UNCHANGED <<layer, log, fatal>>
  BY <1>1, <1>4, <1>5, <1>7, ReadOnly
<1>8. CASE Crash /\ e = "server" /\ ~ layer[e].transport
  <2>1. e \in Closers
    BY <1>6, <1>8 DEF Leaving
  <2>2. UNCHANGED <<layer, log>> /\ fatal' \in BOOLEAN
    BY <1>8 DEF Crash
  <2>3. IInv'
    BY <1>1, <1>4, <2>2, ReadOnly
  <2> QED BY <1>8, <2>1, <2>3
<1>9. CASE e = "server" /\ Unparsed /\ layer[e].transport /\ Fail(e, layer[e])
  <2> DEFINE d == [layer[e] EXCEPT !.state = "failed", !.ended = TRUE, !.transport = FALSE]
             r == Record(layer[e], "alert", "fatal")
  <2>1. Become(e, d, <<r>>)
    BY <1>9, Zenon DEF Fail
  <2>2. ~ layer[e].ended
    BY <1>6, <1>9 DEF Leaving, IsLayer
  <2>3. Later(Hello, r) /\ r.body # "close_notify" /\ r.type # "application_data"
    BY <1>3 DEF Later, Record
  <2>4. d.connected = layer[e].connected /\ d.ended = TRUE /\ d.transport = FALSE
    BY <1>6 DEF IsLayer, Fields, NewLayer
  <2>5. EndOK(Hello, e, d, log[e] \o <<r>>, read[e] + 1, batch[e] - 1)
    <3>1. \/ d = layer[e]
          \/ d = [layer[e] EXCEPT !.transport = FALSE] /\ e \in Closers
          \/ /\ d = [layer[e] EXCEPT !.state = "failed", !.ended = TRUE, !.transport = FALSE]
             /\ e = "server" /\ Unparsed
      BY <1>9
    <3>2. r.type = "alert" => ~ d.transport /\ (r.body = "close_notify" => e \in Closers)
      BY <2>3, <2>4
    <3>3. layer[e].connected /\ layer[e].transport /\ ~ layer[e].ended /\ Later(Hello, r)
      BY <1>3, <1>9, <2>2, <2>3
    <3> HIDE DEF d, r
    <3> QED BY <1>4, <3>1, <3>2, <3>3, AddsRecord
  <2> HIDE DEF d, r
  <2>6. IsSequence(<<r>>) /\ \A i \in 1..Len(<<r>>) : <<r>>[i].type # "application_data"
    BY <2>3, Tuples
  <2>7. IInv'
    BY <1>1, <2>1, <2>5, <2>6, ReadThenWrite
  <2>8. Shows(e, layer[e].connected, TRUE)
    BY <2>1, <2>4, <2>6, ShownWriting
  <2> QED BY <2>2, <2>7, <2>8
<1>10. \/ UNCHANGED <<layer, log, fatal>>
       \/ Crash /\ e = "server" /\ ~ layer[e].transport
       \/ e = "server" /\ Unparsed /\ layer[e].transport /\ Fail(e, layer[e])
  <2>1. layer[e].transport \in BOOLEAN
    BY <1>6 DEF IsLayer
  <2>2. CASE ~ Gone(e)
    BY <1>3, <2>1, <2>2 DEF Data, Ignore, Gone
  <2>3. CASE Gone(e)
    BY <2>3 DEF Data, Gone, Fail
  <2> QED BY <2>2, <2>3
<1> QED BY <1>7, <1>8, <1>9, <1>10

-------------------------------------------------------------------------------
(* The steps of the applications and of the connection.                        *)

LEMMA NothingRead ==
    ASSUME IInv, NEW e \in Ends, UNCHANGED <<read, batch, lost>>
    PROVE  /\ read' = [read EXCEPT ![e] = read[e]] /\ batch' = [batch EXCEPT ![e] = batch[e]]
           /\ lost' \in BOOLEAN
BY DEF IInv, Shapes

LEMMA WithoutReading ==
    ASSUME IInv, NEW e \in Ends, NEW c, NEW records, IsSequence(records),
           Become(e, c, records), read' = [read EXCEPT ![e] = read[e]],
           batch' = [batch EXCEPT ![e] = batch[e]], lost' \in BOOLEAN,
           EndOK(Hello, e, c, log[e] \o records, read[e], batch[e])
    PROVE  IInv'
<1>1. IsSequence(log[e]) /\ fatal \in BOOLEAN
  BY DEF IInv, EndOK, Shapes
<1>2. Len(log[e] \o records) >= Len(log[e])
  <2>1. Len(log[e] \o records) = Len(log[e]) + Len(records)
    BY <1>1, Concatenation
  <2> QED BY <1>1, <2>1 DEF IsSequence
<1>3. /\ layer' = [layer EXCEPT ![e] = c]
      /\ log' = [log EXCEPT ![e] = log[e] \o records]
      /\ fatal' \in BOOLEAN
  BY <1>1 DEF Become
<1>4. read[e] + batch[e] <= Len(log[Peer(e)])
  BY DEF IInv, Shapes
<1> QED BY <1>2, <1>3, <1>4, GoesOn

LEMMA EmptyAddition ==
    ASSUME NEW l, IsSequence(l)
    PROVE  l \o <<>> = l
BY SequenceSet, ConcatEmptySeq

LEMMA ConnectStep == \A e \in Ends : IInv /\ Connect(e) =>
    IInv' /\ Shows(e, layer[e].connected, layer[e].ended)
<1> SUFFICES ASSUME NEW e \in Ends, IInv, Connect(e)
             PROVE  IInv' /\ Shows(e, layer[e].connected, layer[e].ended)
  OBVIOUS
<1>1. layer[e].state = "unconnected" /\ layer[e].transport /\ UNCHANGED <<read, batch, lost>>
  BY DEF Connect, Alive
<1>2. CASE e = "client"
  <2> DEFINE h == Hello
             l == log["client"]
             c == layer["client"]
             d == InStateOf(Hearing([c EXCEPT !.state = "receiving"], Greeting(h)),
                            "expecting_server_hello")
             records == <<Wrote("handshake", "null", Unfinalized, Greeting(h))>>
  <2>1. /\ h \in Hellos /\ IsLayer(c) /\ IsSequence(l)
        /\ read["client"] \in Nat /\ batch["client"] \in Nat
        /\ ClientLayer(h, c) /\ ClientLog(h, c, l) /\ Leaving("client", c, l, batch["client"])
        /\ ClientHeard(h, c, read["client"]) /\ c.hello = h
    BY ClientOK
  <2>2. /\ c.handshake = "start" /\ c.version = Unfinalized /\ c.write = "null" /\ Len(l) = 0
        /\ c.transcript = <<>> /\ read["client"] = 0 /\ ~ c.connected /\ ~ c.ended
    BY <1>1, <1>2, <2>1 DEF ClientLayer, ClientLog, ClientHeard, ClientKeyed, Leaving, IsLayer
  <2>3. /\ d.handshake = "expecting_server_hello" /\ d.version = c.version
        /\ d.transcript = <<Greeting(h)>> /\ DOMAIN d = Fields
        /\ d.hello = c.hello /\ d.state = "receiving" /\ d.read = c.read /\ d.write = c.write
        /\ d.pending_read = c.pending_read /\ d.pending_write = c.pending_write
        /\ d.receive_heartbeats = c.receive_heartbeats /\ d.send_heartbeats = c.send_heartbeats
        /\ d.connected = c.connected /\ d.ended = c.ended /\ d.transport = c.transport
    <3>1. Append(<<>>, Greeting(h)) = <<Greeting(h)>>
      BY Transcripts
    <3> QED BY <2>1, <2>2, <3>1 DEF IsLayer, Fields, NewLayer, Hearing, InStateOf
  <2>4. Become("client", d, records)
    <3> DEFINE g == [c EXCEPT !.state = "receiving"]
    <3>1. g.write = "null" /\ g.version = Unfinalized /\ g.hello = h
      BY <2>1, <2>2 DEF IsLayer, Fields, NewLayer
    <3>2. Message("client_hello", g.hello) = Greeting(h)
      BY <3>1, Zenon DEF Greeting
    <3>3. Record(g, "handshake", Greeting(h)) = Wrote("handshake", "null", Unfinalized, Greeting(h))
      BY <3>1 DEF Record, Wrote
    <3> HIDE DEF g
    <3>4. Handshakes(g, <<Greeting(h)>>) = records
      BY <3>3, OneHandshake
    <3>5. Become("client", InStateOf(Hearing(g, Message("client_hello", g.hello)), "expecting_server_hello"),
                 Handshakes(g, <<Message("client_hello", g.hello)>>))
      BY <1>2, Zenon DEF Connect, g
    <3> QED BY <3>2, <3>4, <3>5, Zenon DEF g
  <2> HIDE DEF d
  <2>5. IsSequence(records) /\ Len(records) = 1
        /\ records[1] = Wrote("handshake", "null", Unfinalized, Greeting(h))
    BY Tuples
  <2>6. IsSequence(l \o records) /\ Len(l \o records) = 1 /\ (l \o records)[1] = records[1]
    <3> HIDE DEF l, records
    <3>1. /\ IsSequence(l \o records) /\ Len(l) \in Nat
          /\ Len(l \o records) = Len(l) + Len(records)
          /\ Len(records) >= 1 => (l \o records)[Len(l) + 1] = records[1]
      BY <2>1, <2>5, Added
    <3>2. Len(l) = 0 /\ Len(records) = 1
      BY <2>2, <2>5
    <3> QED BY <3>1, <3>2
  <2> HIDE DEF records
  <2>7. Leaving("client", d, l \o records, batch["client"])
    <3>1. records[1].type # "alert"
      BY <2>5 DEF Wrote
    <3>2. \A i \in 1..Len(l \o records) : (l \o records)[i].type # "alert"
      BY <2>6, <3>1
    <3> QED BY <1>1, <1>2, <2>2, <2>3, <3>2, StaysHere
  <2>8. IsLayer(d)
    BY <2>1, <2>3 DEF IsLayer
  <2>9. ClientLayer(h, d)
    BY <2>1, <2>2, <2>3 DEF ClientLayer, ClientStarted, ClientKeyed
  <2>10. ClientLog(h, d, l \o records)
    <3>1. ClientWrites(h, 1, records[1])
      BY <2>5 DEF ClientWrites
    <3>2. \A i \in 1..Len(l \o records) : ClientWrites(h, i, (l \o records)[i])
      BY <2>6, <3>1
    <3> QED BY <2>3, <2>6, <3>2 DEF ClientLog, ClientStarted, ClientKeyed
  <2>11. ClientHeard(h, d, read["client"])
    BY <2>2, <2>3 DEF ClientHeard
  <2>12. EndOK(h, "client", d, l \o records, read["client"], batch["client"])
    BY <2>1, <2>6, <2>7, <2>8, <2>9, <2>10, <2>11 DEF EndOK
  <2>13. IInv'
    BY <1>1, <1>2, <2>4, <2>5, <2>12, NothingRead, WithoutReading
  <2>14. Shows("client", c.connected, c.ended)
    <3>1. records[1].type # "application_data"
      BY <2>5 DEF Wrote
    <3>2. \A i \in 1..Len(records) : records[i].type # "application_data"
      BY <2>5, <3>1
    <3> QED BY <2>3, <2>4, <2>5, <3>2, ShownWriting
  <2> QED BY <1>2, <2>13, <2>14
<1>3. CASE e = "server"
  <2> DEFINE h == Hello
             l == log["server"]
             c == layer["server"]
             d == InStateOf([c EXCEPT !.state = "receiving"], "expecting_client_hello")
  <2>1. /\ h \in Hellos /\ IsLayer(c) /\ IsSequence(l)
        /\ read["server"] \in Nat /\ batch["server"] \in Nat
        /\ ServerLayer(h, c) /\ ServerLog(h, c, l) /\ Leaving("server", c, l, batch["server"])
        /\ ServerHeard(h, c, read["server"])
    BY ServerOK
  <2>2. /\ c.handshake = "start" /\ Len(l) = 0 /\ read["server"] = 0 /\ ~ c.connected /\ ~ c.ended
    BY <1>1, <1>3, <2>1 DEF ServerLayer, ServerLog, ServerHeard, Leaving, IsLayer
  <2>3. /\ d.handshake = "expecting_client_hello" /\ d.version = c.version
        /\ d.transcript = c.transcript /\ DOMAIN d = Fields
        /\ d.hello = c.hello /\ d.state = "receiving" /\ d.read = c.read /\ d.write = c.write
        /\ d.pending_read = c.pending_read /\ d.pending_write = c.pending_write
        /\ d.receive_heartbeats = c.receive_heartbeats /\ d.send_heartbeats = c.send_heartbeats
        /\ d.connected = c.connected /\ d.ended = c.ended /\ d.transport = c.transport
    BY <2>1 DEF IsLayer, Fields, NewLayer, InStateOf
  <2>4. Become("server", d, <<>>)
    BY <1>3 DEF Connect
  <2> HIDE DEF d
  <2>5. Leaving("server", d, l, batch["server"])
    <3>1. \A i \in 1..Len(l) : l[i].type # "alert"
      BY <2>2
    <3> QED BY <1>1, <1>3, <2>2, <2>3, <3>1, StaysHere
  <2>6. IsLayer(d)
    BY <2>1, <2>3 DEF IsLayer
  <2>7. ServerLayer(h, d)
    BY <1>1, <1>3, <2>1, <2>2, <2>3 DEF ServerLayer, ServerFlown
  <2>8. ServerLog(h, d, l) /\ ServerHeard(h, d, read["server"])
    BY <2>1, <2>2, <2>3 DEF ServerLog, ServerHeard, ServerFlown
  <2>9. EndOK(h, "server", d, l, read["server"], batch["server"])
    BY <2>1, <2>5, <2>6, <2>7, <2>8 DEF EndOK
  <2>10. l \o <<>> = l /\ IsSequence(<<>>)
    BY <2>1, EmptyAddition, Tuples
  <2>11. EndOK(h, "server", d, l \o <<>>, read["server"], batch["server"])
    BY <2>9, <2>10
  <2>12. IInv'
    BY <1>1, <1>3, <2>4, <2>10, <2>11, NothingRead, WithoutReading
  <2>13. Shows("server", c.connected, c.ended)
    BY <2>3, <2>4, ShownQuiet
  <2> QED BY <1>3, <2>12, <2>13
<1> QED BY <1>2, <1>3, TwoEnds

LEMMA ReceiveStep == \A e \in Ends : IInv /\ Receive(e) => IInv'
<1> SUFFICES ASSUME NEW e \in Ends, IInv, Receive(e) PROVE IInv'
  OBVIOUS
<1>1. PICK k \in 1..Batch : read[e] + k <= Len(log[Peer(e)]) /\ batch' = [batch EXCEPT ![e] = k]
  BY DEF Receive
<1>2. /\ UNCHANGED <<layer, log, read, lost, fatal>> /\ layer[e].transport
  BY DEF Receive, Alive
<1>3. EndOK(Hello, e, layer[e], log[e], read[e], batch[e])
  BY DEF IInv
<1>4. Leaving(e, layer[e], log[e], k)
  BY <1>2, <1>3 DEF EndOK, Leaving
<1>5. EndOK(Hello, e, layer[e], log[e], read[e], k)
  BY <1>3, <1>4 DEF EndOK
<1>6. /\ layer' = [layer EXCEPT ![e] = layer[e]] /\ log' = [log EXCEPT ![e] = log[e]]
      /\ read' = [read EXCEPT ![e] = read[e]]
      /\ lost' \in BOOLEAN /\ fatal' \in BOOLEAN
  BY <1>2 DEF IInv, Shapes
<1>7. Len(log[e]) >= Len(log[e])
  BY <1>3 DEF EndOK, IsSequence
<1> QED BY <1>1, <1>5, <1>6, <1>7, GoesOn

\* What a connected end writes its records with.
LEMMA ConnectedWrites ==
    ASSUME IInv, NEW e \in Ends, layer[e].connected
    PROVE  layer[e].write = "keys" /\ layer[e].version = Chosen(Hello)
BY ClientOK, ServerOK, TwoEnds DEF ClientLayer, ServerLayer, ClientKeyed

LEMMA WriteStep == \A e \in Ends : IInv /\ Write(e) => IInv'
<1> SUFFICES ASSUME NEW e \in Ends, IInv, Write(e) PROVE IInv'
  OBVIOUS
<1> DEFINE r == Record(layer[e], "application_data", Cardinality(DataOf(e)) + 1)
<1>1. /\ layer[e].connected /\ layer[e].transport /\ ~ layer[e].ended
      /\ Become(e, layer[e], <<r>>) /\ UNCHANGED <<read, batch, lost>>
  BY DEF Write, Alive
<1>2. Later(Hello, r) /\ r.type # "alert"
  BY <1>1, ConnectedWrites DEF Later, Record
<1> HIDE DEF r
<1>3. EndOK(Hello, e, layer[e], log[e] \o <<r>>, read[e], batch[e])
  <2>1. EndOK(Hello, e, layer[e], log[e], read[e], batch[e])
    BY DEF IInv
  <2> QED BY <1>1, <1>2, <2>1, AddsRecord
<1>4. IsSequence(<<r>>)
  BY Tuples
<1> QED BY <1>1, <1>3, <1>4, NothingRead, WithoutReading

LEMMA CloseStep == \A e \in Ends : IInv /\ Close(e) =>
    IInv' /\ Shows(e, layer[e].connected, layer[e].ended)
<1> SUFFICES ASSUME NEW e \in Ends, IInv, Close(e)
             PROVE  IInv' /\ Shows(e, layer[e].connected, layer[e].ended)
  OBVIOUS
<1> DEFINE r == Record(layer[e], "alert", "close_notify")
           d == [layer[e] EXCEPT !.transport = FALSE]
<1>1. /\ layer[e].connected /\ layer[e].transport /\ ~ layer[e].ended
      /\ Become(e, d, <<r>>) /\ UNCHANGED <<read, batch, lost>>
  BY DEF Close, Alive
<1>2. Later(Hello, r)
  BY <1>1, ConnectedWrites DEF Later, Record
<1>3. ~ d.transport /\ e \in Closers
  BY ClientOK, ServerOK, TwoEnds DEF IsLayer, Fields, NewLayer, Close
<1> HIDE DEF r
<1>4. EndOK(Hello, e, d, log[e] \o <<r>>, read[e], batch[e])
  <2>1. EndOK(Hello, e, layer[e], log[e], read[e], batch[e])
    BY DEF IInv
  <2> QED BY <1>1, <1>2, <1>3, <2>1, AddsRecord
<1>5. IsSequence(<<r>>)
  BY Tuples
<1>6. IInv'
  BY <1>1, <1>4, <1>5, NothingRead, WithoutReading
<1>7. Shows(e, layer[e].connected, layer[e].ended)
  <2>1. d.connected = layer[e].connected /\ d.ended = layer[e].ended
    BY ClientOK, ServerOK, TwoEnds DEF IsLayer, Fields, NewLayer
  <2>2. \A i \in 1..Len(<<r>>) : <<r>>[i].type # "application_data"
    BY DEF r, Record
  <2> QED BY <1>1, <1>5, <2>1, <2>2, ShownWriting
<1> QED BY <1>6, <1>7

LEMMA EndingStep == \A e \in Ends : IInv /\ Ending(e) =>
    IInv' /\ ~ layer[e].ended /\ Shows(e, layer[e].connected, TRUE)
<1> SUFFICES ASSUME NEW e \in Ends, IInv, Ending(e)
             PROVE  IInv' /\ ~ layer[e].ended /\ Shows(e, layer[e].connected, TRUE)
  OBVIOUS
<1> DEFINE c == layer[e]
           l == log[e]
           n == read[e]
           b == batch[e]
           d == [c EXCEPT !.ended = TRUE, !.transport = FALSE]
<1>1. b = 0 /\ Become(e, d, <<>>) /\ UNCHANGED <<read, batch, lost>>
  BY DEF Ending
<1>2. EndOK(Hello, e, c, l, n, b)
  BY DEF IInv
<1>3. /\ d.handshake = c.handshake /\ d.version = c.version /\ DOMAIN d = Fields
      /\ d.hello = c.hello /\ d.transcript = c.transcript /\ d.expected = c.expected
      /\ d.state = c.state /\ d.read = c.read /\ d.write = c.write
      /\ d.pending_read = c.pending_read /\ d.pending_write = c.pending_write
      /\ d.receive_heartbeats = c.receive_heartbeats /\ d.send_heartbeats = c.send_heartbeats
      /\ d.connected = c.connected /\ d.ended = TRUE /\ d.transport = FALSE
  BY <1>2 DEF EndOK, IsLayer, Fields, NewLayer
<1> HIDE DEF c, d, l, n, b
<1>4. EndOK(Hello, e, d, l, n, b)
  BY <1>1, <1>2, <1>3, EndsWell
<1>5. l \o <<>> = l /\ IsSequence(<<>>)
  BY <1>2, EmptyAddition, Tuples DEF EndOK
<1>6. EndOK(Hello, e, d, l \o <<>>, n, b)
  BY <1>4, <1>5
<1>7. IInv'
  BY <1>1, <1>5, <1>6, NothingRead, WithoutReading DEF l, n, b
<1>8. ~ layer[e].ended
  BY <1>2 DEF Ending, Alive, EndOK, Leaving, c
<1>9. Shows(e, layer[e].connected, TRUE)
  BY <1>1, <1>3, ShownQuiet DEF c
<1> QED BY <1>7, <1>8, <1>9

LEMMA LoseStep == IInv /\ Lose => IInv'
BY DEF Lose, IInv, Shapes, Hello, EndOK

-------------------------------------------------------------------------------
(* Theorems.                                                                   *)

LEMMA Step == IInv /\ [Next]_vars => IInv'
<1> SUFFICES ASSUME IInv, [Next]_vars PROVE IInv'
  OBVIOUS
<1>1. CASE UNCHANGED vars
  BY <1>1 DEF vars, IInv, Shapes, Hello, EndOK
<1>2. CASE Lose
  BY <1>2, LoseStep
<1>3. ASSUME NEW e \in Ends, Connect(e) \/ Receive(e) \/ Write(e) \/ Close(e) \/ Ending(e)
      PROVE  IInv'
  BY <1>3, ConnectStep, ReceiveStep, WriteStep, CloseStep, EndingStep
<1>4. ASSUME NEW e \in Ends, Handle(e) PROVE IInv'
  <2>1. Hello.version < Low \/ Hello.version >= Low
    BY ClientOK DEF Hellos, Low
  <2>2. CASE ClientHello \/ ClientKeyExchange \/ ClientFinished
    BY <2>1, <2>2, OldClientStep, ClientHelloStep, ClientKeyExchangeStep, ClientFinishedStep
  <2>3. CASE ServerHello \/ Certificate \/ ServerHelloDone \/ ServerFinished
    BY <2>3, ServerHelloStep, CertificateStep, ServerHelloDoneStep, ServerFinishedStep
  <2>4. CASE ChangeCipherSpec(e)
    BY <2>4, TwoEnds, ClientChangeStep, ServerChangeStep
  <2>5. CASE Alert(e) \/ Heartbeat(e) \/ Data(e)
    BY <2>5, AlertStep, HeartbeatStep, DataStep
  <2>6. CASE Unexpected(e) \/ Reject(e)
    BY <2>6, NothingUnexpected, RejectStep
  <2> QED BY <1>4, <2>2, <2>3, <2>4, <2>5, <2>6 DEF Handle
<1> QED BY <1>1, <1>2, <1>3, <1>4 DEF Next

\* The inductive invariant holds whatever the clients, receives, data and closers.
THEOREM Invariance == Spec => []IInv
<1> QED BY InductiveStart, Step, PTL DEF Spec

\* Every field of both layers keeps its type, and an end handles no more records
\* than its socket brought or the other end has written.
THEOREM TypeCorrect == Spec => []TypeOK
<1>1. IInv => TypeOK
  <2> SUFFICES ASSUME IInv PROVE TypeOK
    OBVIOUS
  <2>1. lost \in BOOLEAN /\ fatal \in BOOLEAN
    BY DEF IInv, Shapes
  <2>2. ASSUME NEW e \in Ends
        PROVE  /\ layer[e].state \in {"unconnected", "receiving", "failed"}
               /\ layer[e].handshake \in
                    DOMAIN Expected \cup {"start", "expecting_cipher_change", "done"}
               /\ {layer[e].read, layer[e].write, layer[e].pending_read,
                   layer[e].pending_write} \subseteq Ciphers
               /\ read[e] \in 0..Len(log[Peer(e)])
               /\ batch[e] \in 0..(Len(log[Peer(e)]) - read[e])
    <3>1. /\ read[e] \in Nat /\ batch[e] \in Nat /\ Len(log[Peer(e)]) \in Nat
          /\ read[e] + batch[e] <= Len(log[Peer(e)]) /\ IsLayer(layer[e])
      BY TwoEnds DEF IInv, Shapes, EndOK, IsSequence
    <3>2. CASE e = "client"
      <4>1. ClientLayer(Hello, layer[e])
        BY <3>2, ClientOK
      <4>2. layer[e].handshake \in DOMAIN Expected \cup {"start", "expecting_cipher_change", "done"}
        BY <4>1 DEF ClientLayer, ClientStarted, ClientKeyed, Expected
      <4>3. {layer[e].read, layer[e].write, layer[e].pending_read,
             layer[e].pending_write} \subseteq Ciphers
        BY <4>1 DEF ClientLayer, Ciphers
      <4> QED BY <3>1, <4>2, <4>3 DEF IsLayer
    <3>3. CASE e = "server"
      <4>1. ServerLayer(Hello, layer[e])
        BY <3>3, ServerOK
      <4>2. layer[e].handshake \in DOMAIN Expected \cup {"start", "expecting_cipher_change", "done"}
        BY <4>1 DEF ServerLayer, ServerFlown, Expected
      <4>3. {layer[e].read, layer[e].write, layer[e].pending_read,
             layer[e].pending_write} \subseteq Ciphers
        BY <4>1 DEF ServerLayer, ServerKeys, Ciphers
      <4> QED BY <3>1, <4>2, <4>3 DEF IsLayer
    <3> QED BY <3>2, <3>3, TwoEnds
  <2> QED BY <2>1, <2>2 DEF TypeOK
<1> QED BY <1>1, Invariance, PTL

LEMMA CompliantIs == Compliant <=> Complies(Hello)
BY DEF Compliant, Complies, Hello

\* Each end reads every record of a compliant peer with the cipher and the version
\* it was written with: the switches of ciphers never cross.
THEOREM StaysInStep == Spec => []InStep
<1>1. IInv => InStep
  BY CompliantIs, ClientReads, ServerReads, TwoEnds DEF InStep
<1> QED BY <1>1, Invariance, PTL

\* Two connected ends agree on the version, the hello and the keys, and the client's
\* secret named the version it offered: nothing was rolled back.
THEOREM Agree == Spec => []Agreement
<1>1. IInv => Agreement
  <2> SUFFICES ASSUME IInv, \A e \in Ends : layer[e].connected
               PROVE  /\ Compliant
                      /\ layer["client"].version = layer["server"].version
                      /\ layer["client"].hello = layer["server"].hello
                      /\ \A e \in Ends : layer[e].write = "keys" /\ layer[e].read = "keys"
    BY DEF Agreement
  <2>1. /\ ClientLayer(Hello, layer["client"]) /\ ServerLayer(Hello, layer["server"])
        /\ layer["client"].handshake = "done" /\ layer["server"].handshake = "done"
    BY ClientOK, ServerOK, TwoEnds DEF ClientLayer, ServerLayer
  <2>2. Complies(Hello) /\ ServerKeys(Hello) = "keys"
    BY <2>1 DEF ServerLayer, ServerKeys
  <2>3. /\ layer["client"].version = Chosen(Hello) /\ layer["client"].hello = Hello
        /\ layer["client"].write = "keys" /\ layer["client"].read = "keys"
    BY <2>1 DEF ClientLayer, ClientKeyed
  <2>4. /\ layer["server"].version = Chosen(Hello) /\ layer["server"].hello = Hello
        /\ layer["server"].write = "keys" /\ layer["server"].read = ServerKeys(Hello)
    BY <2>1 DEF ServerLayer
  <2> QED BY <2>2, <2>3, <2>4, CompliantIs, TwoEnds
<1> QED BY <1>1, Invariance, PTL

\* No end refuses a client that offers a version the server has and names it in its
\* secret: keys, transcripts and verify data come out the same at both ends, and only
\* a server's application that fails on what it reads makes a layer fail.
THEOREM NeverRefused == Spec => []Unrefused
<1>1. IInv => Unrefused
  <2> SUFFICES ASSUME IInv, Compliant, layer["client"].hello.version >= Low, NEW e \in Ends
               PROVE  layer[e].state = "failed" => Unparsed /\ layer[e].connected
    BY DEF Unrefused
  <2>1. Complies(Hello) /\ Hello.version >= Low /\ ~ (Hello.version < Low)
    BY CompliantIs, ClientOK DEF Hellos, Low
  <2>2. layer["client"].state # "failed"
    BY ClientOK DEF ClientLayer
  <2>3. layer["server"].state = "failed" => Unparsed /\ layer["server"].connected
    BY <2>1, ServerOK DEF ServerLayer
  <2> QED BY <2>2, <2>3, TwoEnds
<1> QED BY <1>1, Invariance, PTL

\* Nothing throws, and nothing uses a transport that was closed, unless the server's
\* application may close.
LEMMA NoneCrashes ==
    ASSUME "server" \notin Closers, IInv, [Next]_vars, ~ fatal
    PROVE  ~ fatal'
<1> USE DEF Shows, Become
<1>1. CASE UNCHANGED vars
  BY <1>1 DEF vars
<1>2. CASE Lose
  BY <1>2 DEF Lose
<1>3. ASSUME NEW e \in Ends, Receive(e) \/ Write(e)
      PROVE  ~ fatal'
  BY <1>3 DEF Receive, Write
<1>4. ASSUME NEW e \in Ends, Connect(e) \/ Close(e) \/ Ending(e)
      PROVE  ~ fatal'
  BY <1>4, ConnectStep, CloseStep, EndingStep
<1>5. ASSUME NEW e \in Ends, Handle(e) PROVE ~ fatal'
  <2>1. Hello.version < Low \/ Hello.version >= Low
    BY ClientOK DEF Hellos, Low
  <2>2. CASE ClientHello \/ ClientKeyExchange \/ ClientFinished
    BY <2>1, <2>2, OldClientStep, ClientHelloStep, ClientKeyExchangeStep, ClientFinishedStep
  <2>3. CASE ServerHello \/ Certificate \/ ServerHelloDone \/ ServerFinished
    BY <2>3, ServerHelloStep, CertificateStep, ServerHelloDoneStep, ServerFinishedStep
  <2>4. CASE ChangeCipherSpec(e)
    BY <2>4, TwoEnds, ClientChangeStep, ServerChangeStep
  <2>5. CASE Heartbeat(e) \/ Data(e)
    BY <2>5, HeartbeatStep, DataStep
  <2>6. CASE Alert(e)
    BY <2>6, AlertStep, TwoEnds
  <2>7. CASE Unexpected(e) \/ Reject(e)
    BY <2>7, NothingUnexpected, RejectStep
  <2> QED BY <1>5, <2>2, <2>3, <2>4, <2>5, <2>6, <2>7 DEF Handle
<1> QED BY <1>1, <1>2, <1>3, <1>4, <1>5 DEF Next

\* A session that the server's application does not close never brings the process
\* down: no record throws a FatalError or meets a transport that is gone, whether its
\* requests parse or not.
THEOREM NeverCrashes ==
    ASSUME "server" \notin Closers
    PROVE  Spec => []NoCrash
<1>1. Init => NoCrash
  BY DEF Init, NoCrash
<1>2. IInv /\ NoCrash /\ [Next]_vars => NoCrash'
  BY NoneCrashes DEF NoCrash
<1> QED BY <1>1, <1>2, Invariance, PTL DEF Spec

\* Among clients that offer no heartbeats, a Finished message always comes right
\* after the change of ciphers: only the heartbeat that the server queues before its
\* Finished comes between.
THEOREM FinishedFollows ==
    ASSUME \A h \in Clients : ~ h.heartbeats
    PROVE  Spec => []FinishedFollowsChange
<1>1. IInv => FinishedFollowsChange
  <2> SUFFICES ASSUME IInv, NEW e \in Ends, NEW i \in 1..Len(log[e]),
                      log[e][i].type = "change_cipher_spec"
               PROVE  /\ i < Len(log[e])
                      /\ log[e][i + 1].type = "handshake"
                      /\ log[e][i + 1].body.kind = "finished"
    BY DEF FinishedFollowsChange
  <2>1. ~ Hello.heartbeats /\ Beat(Hello) = 0
    BY DEF IInv, Shapes, Beat
  <2>2. Len(log[e]) \in Nat /\ i \in Nat /\ i >= 1 /\ i <= Len(log[e])
    BY DEF IInv, EndOK, IsSequence
  <2>3. CASE e = "client"
    <3> DEFINE l == log["client"]
    <3>1. ClientLog(Hello, layer["client"], l) /\ ClientLayer(Hello, layer["client"])
      BY ClientOK
    <3>2. ClientWrites(Hello, i, l[i]) /\ l[i].type = "change_cipher_spec"
      BY <2>3, <3>1 DEF ClientLog
    <3>3. i = 3
      <4>1. i = 1 \/ i = 2 \/ i = 3 \/ i = 4 \/ i > 4
        BY <2>2
      <4> QED BY <3>2, <4>1 DEF ClientWrites, Wrote, Later
    <3>4. Len(l) >= 4
      BY <2>2, <2>3, <3>1, <3>3 DEF ClientLog, ClientLayer
    <3>5. l[4] = Wrote("handshake", "keys", Chosen(Hello), ClientVerify(Hello))
      <4>1. 4 \in 1..Len(l)
        BY <2>2, <2>3, <3>4
      <4> QED BY <3>1, <4>1 DEF ClientLog, ClientWrites
    <3> QED BY <2>3, <3>3, <3>4, <3>5 DEF Wrote, ClientVerify, Finished, Message
  <2>4. CASE e = "server"
    <3> DEFINE l == log["server"]
    <3>1. ServerLog(Hello, layer["server"], l) /\ ServerLayer(Hello, layer["server"])
      BY ServerOK
    <3>2. ServerWrites(Hello, i, l[i]) /\ l[i].type = "change_cipher_spec"
      BY <2>4, <3>1 DEF ServerLog
    <3>3. i = 4 /\ Complies(Hello)
      <4>1. i = 1 \/ i = 2 \/ i = 3 \/ i = 4 \/ i = 5 \/ i > 5
        BY <2>2
      <4> QED BY <2>1, <3>2, <4>1 DEF ServerWrites, Wrote, Later
    <3>4. Len(l) >= 5
      BY <2>1, <2>2, <2>4, <3>1, <3>3 DEF ServerLog, ServerLayer, ServerFlown
    <3>5. l[5] = Wrote("handshake", "keys", Chosen(Hello), ServerVerify(Hello))
      <4>1. 5 \in 1..Len(l)
        BY <2>2, <2>4, <3>4
      <4> QED BY <2>1, <3>1, <4>1 DEF ServerLog, ServerWrites
    <3> QED BY <2>4, <3>3, <3>4, <3>5 DEF Wrote, ServerVerify, Finished, Message
  <2> QED BY <2>3, <2>4, TwoEnds
<1> QED BY <1>1, Invariance, PTL

-------------------------------------------------------------------------------
(* The session implements the channel its applications are promised.           *)

Up == [e \in Ends |-> layer[e].connected]
Told == [e \in Ends |-> layer[e].ended]
Written == [e \in Ends |-> Cardinality(DataOf(e))]
Got == [e \in Ends |-> Cardinality(Handled(e))]

LEMMA OneMore ==
    \A n \in Nat : \A i : i \in 1..(n + 1) <=> i \in 1..n \/ i = n + 1
OBVIOUS

LEMMA Counts ==
    ASSUME IInv, NEW e \in Ends
    PROVE  /\ IsFiniteSet(DataOf(e)) /\ Cardinality(DataOf(e)) \in Nat
           /\ IsFiniteSet(Handled(e)) /\ Cardinality(Handled(e)) \in Nat
           /\ Handled(e) \subseteq DataOf(Peer(e))
<1>1. /\ Len(log[e]) \in Nat /\ Len(log[Peer(e)]) \in Nat /\ read[e] \in Nat
      /\ batch[e] \in Nat /\ read[e] + batch[e] <= Len(log[Peer(e)])
  BY TwoEnds DEF IInv, Shapes, EndOK, IsSequence
<1>2. IsFiniteSet(1..Len(log[e])) /\ IsFiniteSet(1..read[e])
  <2>1. \A n \in Nat : IsFiniteSet(1..n)
    <3> SUFFICES ASSUME NEW n \in Nat PROVE IsFiniteSet(1..n)
      OBVIOUS
    <3>1. 1 \in Int /\ n \in Int
      OBVIOUS
    <3> QED BY <3>1, FS_Interval
  <2> QED BY <1>1, <2>1
<1>3. DataOf(e) \subseteq 1..Len(log[e]) /\ Handled(e) \subseteq 1..read[e]
  BY DEF DataOf, Handled
<1>4. IsFiniteSet(DataOf(e)) /\ IsFiniteSet(Handled(e))
  BY <1>2, <1>3, FS_Subset
<1>5. Handled(e) \subseteq DataOf(Peer(e))
  BY <1>1 DEF DataOf, Handled
<1> QED BY <1>4, <1>5, FS_CardinalityType

LEMMA Views ==
    ASSUME IInv
    PROVE  /\ Up = [e \in Ends |-> Up[e]] /\ Told = [e \in Ends |-> Told[e]]
           /\ Written = [e \in Ends |-> Written[e]] /\ Got = [e \in Ends |-> Got[e]]
           /\ \A e \in Ends : /\ Up[e] = layer[e].connected /\ Told[e] = layer[e].ended
                              /\ Written[e] = Cardinality(DataOf(e))
                              /\ Got[e] = Cardinality(Handled(e))
BY DEF Up, Told, Written, Got

\* A step that writes no data changes only what it shows, and adds to the logs.
LEMMA ShownViews ==
    ASSUME IInv, NEW e \in Ends, NEW x, NEW y, Shows(e, x, y)
    PROVE  /\ Up' = [Up EXCEPT ![e] = x] /\ Told' = [Told EXCEPT ![e] = y]
           /\ Written' = Written
           /\ \A f \in Ends : \A i \in 1..Len(log[f]) : log'[f][i] = log[f][i]
<1>1. PICK d, records :
          /\ Become(e, d, records) /\ IsSequence(records)
          /\ \A i \in 1..Len(records) : records[i].type # "application_data"
          /\ d.connected = x /\ d.ended = y
  BY DEF Shows
<1> DEFINE p == Peer(e)
           l == log[e]
           k == log[e] \o records
<1>2. p \in Ends /\ p # e /\ Peer(p) = e /\ \A f \in Ends : f = e \/ f = p
  BY DEF Peer, Ends
<1>3. /\ layer = [f \in Ends |-> layer[f]] /\ log = [f \in Ends |-> log[f]]
      /\ read = [f \in Ends |-> read[f]]
      /\ \A f \in Ends : /\ read[f] \in Nat /\ batch[f] \in Nat /\ IsSequence(log[f])
                         /\ read[f] + batch[f] <= Len(log[Peer(f)])
  BY DEF IInv, Shapes, EndOK
<1>4. /\ layer' = [layer EXCEPT ![e] = d] /\ log' = [log EXCEPT ![e] = k]
  BY <1>1 DEF Become
<1>5. /\ layer'[e] = d /\ layer'[p] = layer[p] /\ log'[e] = k /\ log'[p] = log[p]
  BY <1>2, <1>3, <1>4
<1>6. /\ IsSequence(k) /\ Len(k) = Len(l) + Len(records)
      /\ \A i \in 1..Len(l) : k[i] = l[i]
      /\ \A i \in 1..Len(records) : k[Len(l) + i] = records[i]
      /\ Len(l) \in Nat /\ Len(records) \in Nat
  <2>1. IsSequence(l) /\ IsSequence(records)
    BY <1>1, <1>3
  <2> HIDE DEF l
  <2>2. Len(l) \in Nat /\ Len(records) \in Nat
    BY <2>1 DEF IsSequence
  <2>3. k = l \o records
    BY DEF l
  <2> HIDE DEF k
  <2>4. /\ IsSequence(l \o records) /\ Len(l \o records) = Len(l) + Len(records)
        /\ \A i \in 1..Len(l) : (l \o records)[i] = l[i]
        /\ \A i \in 1..Len(records) : (l \o records)[Len(l) + i] = records[i]
    BY <2>1, Concatenation
  <2> QED BY <2>2, <2>3, <2>4
<1> HIDE DEF k
<1>7. \A f \in Ends : DataOf(f)' = DataOf(f)
  <2>1. DataOf(p)' = DataOf(p)
    BY <1>5 DEF DataOf
  <2>2. DataOf(e)' = DataOf(e)
    <3>1. \A i \in 1..Len(k) : i \in 1..Len(l) \/ k[i].type # "application_data"
      <4>1. ASSUME NEW i \in 1..Len(k), i \notin 1..Len(l) PROVE k[i].type # "application_data"
        <5>1. i - Len(l) \in 1..Len(records) /\ Len(l) + (i - Len(l)) = i
          BY <1>6, <4>1
        <5> QED BY <1>1, <1>6, <5>1
      <4> QED BY <4>1
    <3>2. \A i : i \in 1..Len(k) /\ k[i].type = "application_data"
                 <=> i \in 1..Len(l) /\ l[i].type = "application_data"
      BY <1>6, <3>1
    <3> QED BY <1>5, <3>2 DEF DataOf
  <2> QED BY <1>2, <2>1, <2>2
<1>8. \A f \in Ends : \A i \in 1..Len(log[f]) : log'[f][i] = log[f][i]
  BY <1>2, <1>5, <1>6
<1>9. Written' = Written
  BY <1>7 DEF Written
<1>10. Up' = [Up EXCEPT ![e] = x]
  <2>1. \A f \in Ends : Up'[f] = [Up EXCEPT ![e] = x][f]
    BY <1>1, <1>2, <1>5 DEF Up
  <2> QED BY <2>1 DEF Up
<1>11. Told' = [Told EXCEPT ![e] = y]
  <2>1. \A f \in Ends : Told'[f] = [Told EXCEPT ![e] = y][f]
    BY <1>1, <1>2, <1>5 DEF Told
  <2> QED BY <2>1 DEF Told
<1> QED BY <1>8, <1>9, <1>10, <1>11

\* When it handles none either, it changes nothing else.
LEMMA QuietStep ==
    ASSUME IInv, NEW e \in Ends, NEW x, NEW y, Shows(e, x, y),
           \/ read' = read
           \/ batch[e] > 0 /\ Incoming(e).type # "application_data"
              /\ read' = [read EXCEPT ![e] = read[e] + 1]
    PROVE  /\ Up' = [Up EXCEPT ![e] = x] /\ Told' = [Told EXCEPT ![e] = y]
           /\ Written' = Written /\ Got' = Got
<1> DEFINE p == Peer(e)
<1>1. /\ Up' = [Up EXCEPT ![e] = x] /\ Told' = [Told EXCEPT ![e] = y]
      /\ Written' = Written
      /\ \A f \in Ends : \A i \in 1..Len(log[f]) : log'[f][i] = log[f][i]
  BY ShownViews
<1>2. p \in Ends /\ p # e /\ Peer(p) = e /\ \A f \in Ends : f = e \/ f = p
  BY DEF Peer, Ends
<1>3. /\ read = [f \in Ends |-> read[f]]
      /\ \A f \in Ends : read[f] \in Nat /\ read[f] <= Len(log[Peer(f)])
                       /\ Len(log[Peer(f)]) \in Nat
  <2>1. /\ read = [f \in Ends |-> read[f]]
        /\ \A f \in Ends : /\ read[f] \in Nat /\ batch[f] \in Nat
                           /\ read[f] + batch[f] <= Len(log[Peer(f)])
    BY DEF IInv, Shapes, EndOK
  <2>2. \A f \in Ends : Len(log[Peer(f)]) \in Nat
    BY TwoEnds DEF IInv, EndOK, IsSequence
  <2> QED BY <2>1, <2>2
<1>4. \A f \in Ends : \A i \in 1..read[f] : log'[Peer(f)][i] = log[Peer(f)][i]
  BY <1>1, <1>2, <1>3
<1>5. Handled(e)' = Handled(e)
  <2>1. CASE read' = read
    BY <1>4, <2>1 DEF Handled
  <2>2. CASE /\ batch[e] > 0 /\ Incoming(e).type # "application_data"
             /\ read' = [read EXCEPT ![e] = read[e] + 1]
    <3>1. read'[e] = read[e] + 1 /\ log[p][read[e] + 1].type # "application_data"
      BY <1>3, <2>2 DEF Incoming
    <3>2. read[e] + 1 \in 1..Len(log[p])
      BY <2>2, ToRead
    <3>3. log'[p][read[e] + 1].type # "application_data"
      BY <1>1, <1>2, <3>1, <3>2
    <3>4. \A i : i \in 1..(read[e] + 1) <=> i \in 1..read[e] \/ i = read[e] + 1
      BY <1>3, OneMore
    <3>5. \A i : i \in 1..(read[e] + 1) /\ log'[p][i].type = "application_data"
                 <=> i \in 1..read[e] /\ log[p][i].type = "application_data"
      BY <1>4, <3>3, <3>4, Zenon
    <3> QED BY <3>1, <3>5 DEF Handled
  <2> QED BY <2>1, <2>2
<1>6. Handled(p)' = Handled(p)
  <2>1. read'[p] = read[p]
    BY <1>2, <1>3
  <2> QED BY <1>2, <1>4, <2>1 DEF Handled
<1>7. Got' = Got
  BY <1>2, <1>5, <1>6 DEF Got
<1> QED BY <1>1, <1>7

\* Nor does one that changes no layer and no log.
LEMMA StillStep ==
    ASSUME IInv, NEW e \in Ends, layer' = layer, log' = log,
           \/ read' = read
           \/ batch[e] > 0 /\ Incoming(e).type # "application_data"
              /\ read' = [read EXCEPT ![e] = read[e] + 1]
    PROVE  Up' = Up /\ Told' = Told /\ Written' = Written /\ Got' = Got
<1>1. Up' = Up /\ Told' = Told
  BY DEF Up, Told
<1>2. \A f \in Ends : DataOf(f)' = DataOf(f)
  BY DEF DataOf
<1>3. \A f \in Ends : Handled(f)' = Handled(f)
  <2>1. CASE read' = read
    BY <2>1 DEF Handled
  <2>2. CASE /\ batch[e] > 0 /\ Incoming(e).type # "application_data"
             /\ read' = [read EXCEPT ![e] = read[e] + 1]
    <3>1. read = [f \in Ends |-> read[f]] /\ read[e] \in Nat
      BY DEF IInv, Shapes, EndOK
    <3>2. read'[e] = read[e] + 1 /\ \A f \in Ends \ {e} : read'[f] = read[f]
      BY <2>2, <3>1
    <3>3. \A i : i \in 1..(read[e] + 1) /\ log[Peer(e)][i].type = "application_data"
                 <=> i \in 1..read[e] /\ log[Peer(e)][i].type = "application_data"
      <4>1. \A i : i \in 1..(read[e] + 1) <=> i \in 1..read[e] \/ i = read[e] + 1
        BY <3>1, OneMore
      <4>2. log[Peer(e)][read[e] + 1].type # "application_data"
        BY <2>2 DEF Incoming
      <4> QED BY <4>1, <4>2, Zenon
    <3>4. Handled(e)' = Handled(e)
      BY <3>2, <3>3 DEF Handled
    <3>5. \A f \in Ends \ {e} : Handled(f)' = Handled(f)
      BY <3>2 DEF Handled
    <3> QED BY <3>4, <3>5
  <2> QED BY <2>1, <2>2
<1> QED BY <1>1, <1>2, <1>3 DEF Written, Got

\* An application writes one more record.
LEMMA Writes == \A e \in Ends : IInv /\ Write(e) =>
    /\ Up[e] /\ ~ Told[e]
    /\ Written' = [Written EXCEPT ![e] = @ + 1]
    /\ Up' = Up /\ Told' = Told /\ Got' = Got
<1> SUFFICES ASSUME NEW e \in Ends, IInv, Write(e)
             PROVE  /\ Up[e] /\ ~ Told[e]
                    /\ Written' = [Written EXCEPT ![e] = Written[e] + 1]
                    /\ Up' = Up /\ Told' = Told /\ Got' = Got
  OBVIOUS
<1> DEFINE p == Peer(e)
           l == log[e]
           r == Record(layer[e], "application_data", Cardinality(DataOf(e)) + 1)
           k == l \o <<r>>
<1>1. /\ layer[e].connected /\ ~ layer[e].ended
      /\ layer' = [layer EXCEPT ![e] = layer[e]] /\ log' = [log EXCEPT ![e] = k]
      /\ read' = read
  BY DEF Write, Become
<1>2. p \in Ends /\ p # e /\ Peer(p) = e /\ \A f \in Ends : f = e \/ f = p
  BY DEF Peer, Ends
<1>3. /\ layer = [f \in Ends |-> layer[f]] /\ log = [f \in Ends |-> log[f]]
      /\ \A f \in Ends : /\ read[f] \in Nat /\ batch[f] \in Nat /\ IsSequence(log[f])
                         /\ read[f] + batch[f] <= Len(log[Peer(f)])
  BY DEF IInv, Shapes, EndOK
<1>4. layer' = layer /\ log'[e] = k /\ log'[p] = log[p]
  BY <1>1, <1>2, <1>3
<1>5. /\ Len(k) = Len(l) + 1 /\ Len(l) \in Nat
      /\ \A i \in 1..Len(l) : k[i] = l[i]
      /\ k[Len(l) + 1].type = "application_data"
  <2>1. IsSequence(l) /\ IsSequence(<<r>>) /\ Len(<<r>>) = 1
    BY <1>3, Tuples
  <2>2. r.type = "application_data" /\ <<r>>[1] = r
    BY DEF Record
  <2> HIDE DEF l, r
  <2> QED BY <2>1, <2>2, Added
<1> HIDE DEF k
<1>6. DataOf(p)' = DataOf(p) /\ DataOf(e)' = DataOf(e) \cup {Len(l) + 1}
  <2>1. DataOf(p)' = DataOf(p)
    BY <1>4 DEF DataOf
  <2>2. \A i : i \in 1..Len(k) <=> i \in 1..Len(l) \/ i = Len(l) + 1
    BY <1>5, OneMore
  <2>3. \A i : i \in 1..Len(k) /\ k[i].type = "application_data"
               <=> i \in DataOf(e) \/ i = Len(l) + 1
    BY <1>5, <2>2, Zenon DEF DataOf
  <2> QED BY <1>4, <2>1, <2>3 DEF DataOf
<1>7. Cardinality(DataOf(e))' = Cardinality(DataOf(e)) + 1
  <2>1. Len(l) + 1 \notin DataOf(e)
    BY <1>5 DEF DataOf
  <2>2. IsFiniteSet(DataOf(e))
    BY Counts
  <2> QED BY <1>6, <2>1, <2>2, FS_AddElement
<1>8. \A f \in Ends : Handled(f)' = Handled(f)
  <2>1. Handled(e)' = Handled(e)
    BY <1>1, <1>4 DEF Handled
  <2>2. Handled(p)' = Handled(p)
    <3>1. read[p] \in Nat /\ read[p] <= Len(l)
      <4>1. read[p] \in Nat /\ batch[p] \in Nat /\ read[p] + batch[p] <= Len(l)
        BY <1>2, <1>3
      <4> QED BY <1>5, <4>1
    <3>2. \A i \in 1..read[p] : k[i] = l[i]
      BY <1>5, <3>1
    <3> QED BY <1>1, <1>2, <1>4, <3>2 DEF Handled
  <2> QED BY <1>2, <2>1, <2>2
<1>9. Written' = [Written EXCEPT ![e] = Written[e] + 1]
  <2>1. \A f \in Ends : Written'[f] = [Written EXCEPT ![e] = Written[e] + 1][f]
    BY <1>2, <1>6, <1>7 DEF Written
  <2> QED BY <2>1 DEF Written
<1>10. Got' = Got /\ Up' = Up /\ Told' = Told
  BY <1>4, <1>8 DEF Got, Up, Told
<1>11. Up[e] /\ ~ Told[e]
  BY <1>1 DEF Up, Told
<1> QED BY <1>9, <1>10, <1>11

\* What an application gets the other has written, and it is not behind the end.
LEMMA Delivers == \A e \in Ends : IInv /\ Data(e) =>
    /\ Up[e] /\ ~ Told[e] /\ Got[e] < Written[Peer(e)]
    /\ Got' = [Got EXCEPT ![e] = @ + 1]
    /\ Told' \in {Told, [Told EXCEPT ![e] = TRUE]}
    /\ Up' = Up /\ Written' = Written
<1> SUFFICES ASSUME NEW e \in Ends, IInv, Data(e)
             PROVE  /\ Up[e] /\ ~ Told[e] /\ Got[e] < Written[Peer(e)]
                    /\ Got' = [Got EXCEPT ![e] = Got[e] + 1]
                    /\ Told' \in {Told, [Told EXCEPT ![e] = TRUE]}
                    /\ Up' = Up /\ Written' = Written
  OBVIOUS
<1> DEFINE p == Peer(e)
           n == read[e]
<1>1. Handling(e, "application_data")
  BY DEF Data
<1>12. /\ Up' = Up /\ Written' = Written /\ Told' \in {Told, [Told EXCEPT ![e] = TRUE]}
       /\ \A f \in Ends : \A i \in 1..Len(log[f]) : log'[f][i] = log[f][i]
  <2>1. CASE layer' = layer /\ log' = log
    BY <2>1 DEF Up, Told, Written, DataOf
  <2>2. CASE Shows(e, layer[e].connected, TRUE)
    <3>1. /\ Up' = [Up EXCEPT ![e] = layer[e].connected]
          /\ Told' = [Told EXCEPT ![e] = TRUE] /\ Written' = Written
          /\ \A f \in Ends : \A i \in 1..Len(log[f]) : log'[f][i] = log[f][i]
      BY <2>2, ShownViews
    <3>2. Up' = Up
      BY <3>1, Views
    <3> QED BY <3>1, <3>2
  <2>3. (layer' = layer /\ log' = log) \/ Shows(e, layer[e].connected, TRUE)
    BY DataStep DEF Crash
  <2> QED BY <2>1, <2>2, <2>3
<1>2. layer[e].connected /\ ~ layer[e].ended
  <2>1. layer[e].handshake = "done"
    BY <1>1, Arriving
  <2>2. layer[e].state = "receiving" /\ batch[e] > 0
    BY <1>1, Reading
  <2> QED BY <2>1, <2>2, ClientOK, ServerOK, TwoEnds
          DEF ClientLayer, ServerLayer, Leaving, IsLayer
<1>3. /\ n \in Nat /\ batch[e] \in Nat /\ batch[e] > 0
      /\ read' = [read EXCEPT ![e] = n + 1]
      /\ log[p][n + 1].type = "application_data"
      /\ n + 1 \in 1..Len(log[p])
  BY <1>1, Reading, ToRead DEF Incoming
<1>4. p \in Ends /\ p # e /\ read = [f \in Ends |-> read[f]] /\ \A f \in Ends : f = e \/ f = p
  BY DEF Peer, Ends, IInv, Shapes
<1>5. read'[e] = n + 1 /\ read'[p] = read[p]
  BY <1>3, <1>4
<1>6. Handled(p)' = Handled(p) /\ Handled(e)' = Handled(e) \cup {n + 1}
  <2>1. \A i : i \in 1..(n + 1) <=> i \in 1..n \/ i = n + 1
    BY <1>3, OneMore
  <2>2. \A i \in 1..(n + 1) : log'[p][i] = log[p][i]
    <3>1. \A i \in 1..(n + 1) : i \in 1..Len(log[p])
      <4>1. Len(log[p]) \in Nat
        BY <1>4 DEF IInv, EndOK, IsSequence
      <4> QED BY <1>3, <4>1
    <3> QED BY <1>4, <1>12, <3>1
  <2>3. \A i : i \in 1..(n + 1) /\ log'[p][i].type = "application_data"
               <=> i \in Handled(e) \/ i = n + 1
    BY <1>3, <2>1, <2>2, Zenon DEF Handled
  <2>4. Peer(p) = e /\ \A i \in 1..read[p] : log'[e][i] = log[e][i]
    <3>1. read[p] \in Nat /\ batch[p] \in Nat /\ read[p] + batch[p] <= Len(log[Peer(p)])
      BY <1>4 DEF IInv, Shapes, EndOK
    <3>2. Peer(p) = e /\ Len(log[e]) \in Nat
      BY TwoEnds DEF IInv, EndOK, IsSequence
    <3> QED BY <1>12, <3>1, <3>2
  <2> QED BY <1>5, <2>3, <2>4 DEF Handled
<1>7. n + 1 \notin Handled(e) /\ n + 1 \in DataOf(p)
  BY <1>3 DEF Handled, DataOf
<1>8. /\ IsFiniteSet(Handled(e)) /\ IsFiniteSet(DataOf(p)) /\ Handled(e) \subseteq DataOf(p)
      /\ Cardinality(Handled(e)) \in Nat /\ Cardinality(DataOf(p)) \in Nat
  BY <1>4, Counts
<1>9. Cardinality(Handled(e) \cup {n + 1}) = Cardinality(Handled(e)) + 1
  BY <1>7, <1>8, FS_AddElement
<1>10. Cardinality(Handled(e)) < Cardinality(DataOf(p))
  <2>1. Handled(e) \cup {n + 1} \subseteq DataOf(p)
    BY <1>7, <1>8
  <2>2. Cardinality(Handled(e) \cup {n + 1}) <= Cardinality(DataOf(p))
    BY <1>8, <2>1, FS_Subset
  <2> QED BY <1>8, <1>9, <2>2
<1>11. Got' = [Got EXCEPT ![e] = Got[e] + 1]
  <2>1. \A f \in Ends : Got'[f] = [Got EXCEPT ![e] = Got[e] + 1][f]
    BY <1>4, <1>6, <1>9 DEF Got
  <2> QED BY <2>1 DEF Got
<1>13. Up[e] /\ ~ Told[e] /\ Got[e] < Written[p]
  BY <1>2, <1>4, <1>10, Views
<1> QED BY <1>11, <1>12, <1>13

\* The steps of the channel, in these terms.
LEMMA ChannelSteps ==
    /\ \A e \in Ends :
         /\ /\ ~ Up[e] /\ ~ Told[e] /\ (e = "client" => Up["server"])
            /\ Up' = [Up EXCEPT ![e] = TRUE] /\ Told' = Told /\ Written' = Written /\ Got' = Got
            => Channel!Open(e)
         /\ /\ Up[e] /\ ~ Told[e]
            /\ Written' = [Written EXCEPT ![e] = @ + 1]
            /\ Up' = Up /\ Told' = Told /\ Got' = Got
            => Channel!Write(e)
         /\ /\ Up[e] /\ ~ Told[e] /\ Got[e] < Written[Peer(e)]
            /\ Got' = [Got EXCEPT ![e] = @ + 1]
            /\ Told' \in {Told, [Told EXCEPT ![e] = TRUE]}
            /\ Up' = Up /\ Written' = Written
            => Channel!Deliver(e)
         /\ /\ ~ Told[e]
            /\ Told' = [Told EXCEPT ![e] = TRUE]
            /\ Up' = Up /\ Written' = Written /\ Got' = Got
            => Channel!End(e)
    /\ Up' = Up /\ Told' = Told /\ Written' = Written /\ Got' = Got => UNCHANGED Channel!vars
    /\ (\E e \in Ends : Channel!Open(e) \/ Channel!Write(e) \/ Channel!Deliver(e) \/ Channel!End(e))
            => Channel!Next
<1>1. ASSUME NEW e \in Ends, ~ Up[e], ~ Told[e], e = "client" => Up["server"],
             Up' = [Up EXCEPT ![e] = TRUE], Told' = Told, Written' = Written, Got' = Got
      PROVE  Channel!Open(e)
  BY <1>1, Zenon DEF Channel!Open, Up, Told, Written, Got
<1>2. ASSUME NEW e \in Ends, Up[e], ~ Told[e], Written' = [Written EXCEPT ![e] = Written[e] + 1],
             Up' = Up, Told' = Told, Got' = Got
      PROVE  Channel!Write(e)
  BY <1>2, Zenon DEF Channel!Write, Up, Told, Written, Got
<1>3. ASSUME NEW e \in Ends, Up[e], ~ Told[e], Got[e] < Written[Peer(e)],
             Got' = [Got EXCEPT ![e] = Got[e] + 1], Up' = Up, Written' = Written,
             Told' \in {Told, [Told EXCEPT ![e] = TRUE]}
      PROVE  Channel!Deliver(e)
  BY <1>3, Zenon DEF Channel!Deliver, Channel!Peer, Peer, Up, Told, Written, Got
<1>4. ASSUME NEW e \in Ends, ~ Told[e], Told' = [Told EXCEPT ![e] = TRUE],
             Up' = Up, Written' = Written, Got' = Got
      PROVE  Channel!End(e)
  BY <1>4, Zenon DEF Channel!End, Up, Told, Written, Got
<1>5. Up' = Up /\ Told' = Told /\ Written' = Written /\ Got' = Got => UNCHANGED Channel!vars
  BY Zenon DEF Channel!vars, Up, Told, Written, Got
<1>6. (\E e \in Ends : Channel!Open(e) \/ Channel!Write(e) \/ Channel!Deliver(e) \/ Channel!End(e))
          => Channel!Next
  BY Zenon DEF Channel!Next, Channel!Ends, Ends
<1> QED BY <1>1, <1>2, <1>3, <1>4, <1>5, <1>6, Zenon

LEMMA ChannelStart == Init => Channel!Init
<1> SUFFICES ASSUME Init PROVE Channel!Init
  OBVIOUS
<1>1. \A e \in Ends : ~ layer[e].connected /\ ~ layer[e].ended /\ log[e] = <<>> /\ read[e] = 0
  BY DEF Init, NewLayer
<1>2. \A e \in Ends : DataOf(e) = {} /\ Handled(e) = {}
  BY <1>1, Tuples DEF DataOf, Handled
<1>3. \A e \in Ends : Cardinality(DataOf(e)) = 0 /\ Cardinality(Handled(e)) = 0
  BY <1>2, FS_EmptySet
<1>4. \A e \in Ends : layer[e].connected = FALSE /\ layer[e].ended = FALSE
  <2>1. \A e \in Ends : layer[e].connected \in BOOLEAN /\ layer[e].ended \in BOOLEAN
    BY InductiveStart, ClientOK, ServerOK, TwoEnds DEF IsLayer
  <2> QED BY <1>1, <2>1
<1> QED BY <1>3, <1>4 DEF Channel!Init, Channel!Ends, Ends

\* What a step of one end is of the channel: nothing, or the end, or its opening.
Keeps(e) ==
    \/ read' = read
    \/ batch[e] > 0 /\ Incoming(e).type # "application_data"
       /\ read' = [read EXCEPT ![e] = read[e] + 1]

LEMMA QuietKept ==
    ASSUME IInv, NEW e \in Ends, NEW x, NEW y, Shows(e, x, y), Keeps(e)
    PROVE  /\ Up' = [Up EXCEPT ![e] = x] /\ Told' = [Told EXCEPT ![e] = y]
           /\ Written' = Written /\ Got' = Got
<1>1. \/ read' = read
      \/ batch[e] > 0 /\ Incoming(e).type # "application_data"
         /\ read' = [read EXCEPT ![e] = read[e] + 1]
  BY Zenon DEF Keeps
<1> QED BY <1>1, QuietStep, ZenonT(30)

LEMMA HandlingKeeps ==
    ASSUME IInv, NEW e \in Ends, NEW type, Handling(e, type), type # "application_data"
    PROVE  Keeps(e)
BY Reading DEF Keeps

LEMMA Stutters ==
    ASSUME IInv, NEW e \in Ends, Keeps(e),
           \/ layer' = layer /\ log' = log
           \/ Shows(e, layer[e].connected, layer[e].ended)
    PROVE  UNCHANGED Channel!vars
<1>1. CASE layer' = layer /\ log' = log
  <2>1. Up' = Up /\ Told' = Told /\ Written' = Written /\ Got' = Got
    BY <1>1, StillStep DEF Keeps
  <2> QED BY <2>1, ChannelSteps
<1>2. CASE Shows(e, layer[e].connected, layer[e].ended)
  <2>1. /\ Up' = [Up EXCEPT ![e] = layer[e].connected]
        /\ Told' = [Told EXCEPT ![e] = layer[e].ended]
        /\ Written' = Written /\ Got' = Got
    BY <1>2, QuietStep, Zenon DEF Keeps
  <2>2. Up' = Up /\ Told' = Told
    BY <2>1, Views
  <2> QED BY <2>1, <2>2, ChannelSteps
<1> QED BY <1>1, <1>2

LEMMA TellsEnd ==
    ASSUME IInv, NEW e \in Ends, Keeps(e), ~ layer[e].ended,
           Shows(e, layer[e].connected, TRUE)
    PROVE  Channel!Next
<1>1. /\ Up' = [Up EXCEPT ![e] = layer[e].connected]
      /\ Told' = [Told EXCEPT ![e] = TRUE]
      /\ Written' = Written /\ Got' = Got
  BY QuietKept, Zenon
<1>2. Up' = Up /\ ~ Told[e]
  BY <1>1, Views
<1> QED BY <1>1, <1>2, ChannelSteps

LEMMA Opens ==
    ASSUME IInv, NEW e \in Ends, Keeps(e), layer[e].state = "receiving", batch[e] > 0,
           layer[e].handshake = "expecting_finished",
           e = "client" => layer["server"].connected,
           Shows(e, TRUE, layer[e].ended)
    PROVE  Channel!Next
<1>1. /\ Up' = [Up EXCEPT ![e] = TRUE]
      /\ Told' = [Told EXCEPT ![e] = layer[e].ended]
      /\ Written' = Written /\ Got' = Got
  BY QuietKept, Zenon
<1>2. ~ layer[e].connected /\ ~ layer[e].ended
  <2>1. ~ layer[e].connected
    BY ClientOK, ServerOK, TwoEnds DEF ClientLayer, ServerLayer
  <2>2. ~ layer[e].ended
    BY ClientOK, ServerOK, TwoEnds DEF Leaving, IsLayer
  <2> QED BY <2>1, <2>2
<1>3. ~ Up[e] /\ ~ Told[e] /\ Told' = Told /\ (e = "client" => Up["server"])
  BY <1>1, <1>2, Views, TwoEnds
<1> QED BY <1>1, <1>3, ChannelSteps

LEMMA ChannelStep == IInv /\ [Next]_vars => [Channel!Next]_(Channel!vars)
<1> SUFFICES ASSUME IInv, [Next]_vars
             PROVE  Channel!Next \/ UNCHANGED Channel!vars
  OBVIOUS
<1>1. CASE UNCHANGED vars \/ Lose
  <2>1. layer' = layer /\ log' = log /\ read' = read
    BY <1>1 DEF vars, Lose
  <2> QED BY <2>1, Stutters, TwoEnds DEF Keeps
<1>2. ASSUME NEW e \in Ends, Connect(e) \/ Receive(e) \/ Close(e)
      PROVE  UNCHANGED Channel!vars
  <2>1. Keeps(e)
    BY <1>2 DEF Keeps, Connect, Receive, Close
  <2>2. \/ layer' = layer /\ log' = log
        \/ Shows(e, layer[e].connected, layer[e].ended)
    BY <1>2, ConnectStep, CloseStep DEF Receive
  <2> QED BY <2>1, <2>2, Stutters
<1>3. ASSUME NEW e \in Ends, Write(e) PROVE Channel!Next
  BY <1>3, Writes, ChannelSteps
<1>4. ASSUME NEW e \in Ends, Ending(e) PROVE Channel!Next
  <2>1. Keeps(e)
    BY <1>4 DEF Keeps, Ending
  <2> QED BY <1>4, <2>1, EndingStep, TellsEnd
<1>5. ASSUME NEW e \in Ends, Handle(e) PROVE Channel!Next \/ UNCHANGED Channel!vars
  <2>1. Hello.version < Low \/ Hello.version >= Low
    BY ClientOK DEF Hellos, Low
  <2>2. CASE Data(e)
    BY <2>2, Delivers, ChannelSteps
  <2>3. CASE Heartbeat(e)
    <3>1. Keeps(e)
      BY <2>3, HandlingKeeps DEF Heartbeat
    <3> QED BY <2>3, <3>1, HeartbeatStep, Stutters
  <2>4. CASE Alert(e)
    <3>1. Keeps(e)
      BY <2>4, HandlingKeeps DEF Alert
    <3>2. \/ layer' = layer /\ log' = log
          \/ ~ layer[e].ended /\ Shows(e, layer[e].connected, TRUE)
      BY <2>4, AlertStep DEF Crash
    <3> QED BY <3>1, <3>2, Stutters, TellsEnd
  <2>5. CASE Reject(e)
    <3>1. PICK type : Handling(e, type) /\ ~ Readable(e)
      BY <2>5 DEF Reject
    <3>2. layer[e].handshake # "done"
      BY <3>1, Reading, ClientReads, ServerReads, TwoEnds
    <3>3. type # "application_data"
      BY <3>1, <3>2, Arriving
    <3>4. Keeps(e)
      BY <3>1, <3>3, HandlingKeeps
    <3> QED BY <2>5, <3>4, RejectStep, TellsEnd
  <2>6. CASE ChangeCipherSpec(e)
    <3>1. Keeps(e)
      BY <2>6, HandlingKeeps DEF ChangeCipherSpec
    <3>2. Shows(e, layer[e].connected, layer[e].ended)
      BY <2>6, TwoEnds, ClientChangeStep, ServerChangeStep
    <3> QED BY <3>1, <3>2, Stutters
  <2>7. CASE e = "server" /\ (ClientHello \/ ClientKeyExchange)
    <3>1. Keeps(e)
      BY <2>7, HandlingKeeps DEF ClientHello, ClientKeyExchange, ExchangeKeys, Arrives
    <3>2. \/ Shows(e, layer[e].connected, layer[e].ended)
          \/ ~ layer[e].ended /\ Shows(e, layer[e].connected, TRUE)
      BY <2>1, <2>7, OldClientStep, ClientHelloStep, ClientKeyExchangeStep
    <3> QED BY <3>1, <3>2, Stutters, TellsEnd
  <2>8. CASE e = "client" /\ (ServerHello \/ Certificate \/ ServerHelloDone)
    <3>1. Keeps(e)
      BY <2>8, HandlingKeeps
         DEF ServerHello, Certificate, ServerHelloDone, ServerHelloDoneAs, Arrives
    <3>2. Shows(e, layer[e].connected, layer[e].ended)
      BY <2>8, ServerHelloStep, CertificateStep, ServerHelloDoneStep
    <3> QED BY <3>1, <3>2, Stutters
  <2>9. CASE e = "server" /\ ClientFinished
    <3>1. Handling(e, "handshake") /\ layer[e].handshake = "expecting_finished"
      BY <2>9 DEF ClientFinished, Arrives
    <3>2. Keeps(e) /\ layer[e].state = "receiving" /\ batch[e] > 0
      BY <3>1, HandlingKeeps, Reading
    <3>3. Shows(e, TRUE, layer[e].ended)
      BY <2>9, ClientFinishedStep
    <3> QED BY <2>9, <3>1, <3>2, <3>3, Opens
  <2>10. CASE e = "client" /\ ServerFinished
    <3>1. Handling(e, "handshake") /\ layer[e].handshake = "expecting_finished"
      BY <2>10 DEF ServerFinished, Arrives
    <3>2. Keeps(e) /\ layer[e].state = "receiving" /\ batch[e] > 0
      BY <3>1, HandlingKeeps, Reading
    <3>3. layer["server"].connected /\ Shows(e, TRUE, layer[e].ended)
      BY <2>10, ServerFinishedStep
    <3> QED BY <3>1, <3>2, <3>3, Opens
  <2> QED BY <1>5, <2>2, <2>3, <2>4, <2>5, <2>6, <2>7, <2>8, <2>9, <2>10, NothingUnexpected
          DEF Handle
<1> QED BY <1>1, <1>2, <1>3, <1>4, <1>5 DEF Next

\* Whatever the clients, the interleaving and the losses, what the two applications
\* see of each other is what SecureChannel promises them.
THEOREM ImplementsChannel == Spec => ChannelSafety
<1>1. IInv /\ [Next]_vars => [Channel!Next]_(Channel!vars)
  BY ChannelStep
<1> QED BY <1>1, ChannelStart, Invariance, PTL DEF Spec, ChannelSafety, Channel!Spec

===============================================================================
