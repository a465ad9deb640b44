------------------------------ MODULE IdeProofs ------------------------------
(***************************************************************************)
(* What Ide promises, for every set of languages and of texts: the code of *)
(* a student is kept and every server has the document it should have.     *)
(***************************************************************************)
EXTENDS Ide, TLAPS

-----------------------------------------------------------------------------
(* Messages under way                                                      *)

\* f[i] is the document of the server after i messages of q.
Course(f, doc, q) ==
    f = [i \in 0..Len(q) |-> IF i = 0 THEN doc ELSE Receive(f[i - 1], q[i])]

\* The messages of q take doc to e.  A course exists for every queue the page
\* builds, message by message: this is what the invariant carries in place of
\* an induction over q.
LeadsTo(doc, q, e) ==
    /\ \E f : Course(f, doc, q)
    /\ \A f : Course(f, doc, q) => f[Len(q)] = e

LEMMA ReceiveAllLeads ==
    ASSUME NEW doc, NEW q, NEW e, LeadsTo(doc, q, e)
    PROVE  ReceiveAll(doc, q) = e
<1> DEFINE f == CHOOSE f : Course(f, doc, q)
<1>1. Course(f, doc, q)
  BY DEF LeadsTo
<1>2. ReceiveAll(doc, q) = f[Len(q)]
  BY DEF ReceiveAll, Course
<1> QED
  BY <1>1, <1>2 DEF LeadsTo

LEMMA LeadsNowhere == ASSUME NEW doc PROVE LeadsTo(doc, <<>>, doc)
<1>0. Len(<<>>) = 0 /\ 0..0 = {0}
  OBVIOUS
<1> DEFINE f == [i \in 0..Len(<<>>) |-> doc]
<1>1. Course(f, doc, <<>>)
  BY <1>0 DEF Course
<1>2. \A g : Course(g, doc, <<>>) => g[0] = doc
  BY <1>0 DEF Course
<1> QED
  BY <1>0, <1>1, <1>2 DEF LeadsTo

\* The page posts one more message.
LEMMA LeadsFurther ==
    ASSUME NEW doc, NEW e, NEW S, NEW q \in Seq(S), NEW m \in S, LeadsTo(doc, q, e)
    PROVE  LeadsTo(doc, Append(q, m), Receive(e, m))
<1> DEFINE n == Len(q)
           p == Append(q, m)
<1>0. n \in Nat /\ Len(p) = n + 1 /\ p[n + 1] = m /\ \A i \in 1..n : p[i] = q[i]
  OBVIOUS
<1> HIDE DEF n, p
<1>1. PICK f : Course(f, doc, q)
  BY DEF LeadsTo
<1>2. f = [i \in 0..n |-> IF i = 0 THEN doc ELSE Receive(f[i - 1], q[i])]
  BY <1>1 DEF Course, n
<1> DEFINE g == [i \in 0..(n + 1) |-> IF i = n + 1 THEN Receive(f[n], m) ELSE f[i]]
<1>3. \E h : Course(h, doc, p)
  <2>1. \A i \in 0..(n + 1) : g[i] = IF i = 0 THEN doc ELSE Receive(g[i - 1], p[i])
    <3> SUFFICES ASSUME NEW i \in 0..(n + 1)
                 PROVE  g[i] = IF i = 0 THEN doc ELSE Receive(g[i - 1], p[i])
      OBVIOUS
    <3>1. CASE i = 0
      BY <1>0, <1>2, <3>1
    <3>2. CASE i \in 1..n
      <4>1. g[i] = f[i] /\ g[i - 1] = f[i - 1] /\ p[i] = q[i] /\ i # 0 /\ i \in 0..n
        BY <1>0, <3>2
      <4>2. f[i] = Receive(f[i - 1], q[i])
        BY <1>2, <4>1
      <4> QED
        BY <4>1, <4>2
    <3>3. CASE i = n + 1
      <4>1. g[i] = Receive(f[n], m) /\ g[i - 1] = f[n] /\ p[i] = m /\ i # 0
        BY <1>0, <3>3
      <4> QED
        BY <4>1
    <3> QED
      BY <1>0, <3>1, <3>2, <3>3
  <2> HIDE DEF g
  <2>2. g = [i \in 0..(n + 1) |-> g[i]]
    BY DEF g
  <2>3. Course(g, doc, p)
    BY <1>0, <2>1, <2>2 DEF Course
  <2> QED
    BY <2>3
<1>4. ASSUME NEW h, Course(h, doc, p) PROVE h[Len(p)] = Receive(e, m)
  <2>1. h = [i \in 0..(n + 1) |-> IF i = 0 THEN doc ELSE Receive(h[i - 1], p[i])]
    BY <1>0, <1>4 DEF Course
  <2> DEFINE k == [i \in 0..n |-> h[i]]
  <2>2. \A i \in 0..n : k[i] = IF i = 0 THEN doc ELSE Receive(k[i - 1], q[i])
    <3> SUFFICES ASSUME NEW i \in 0..n
                 PROVE  k[i] = IF i = 0 THEN doc ELSE Receive(k[i - 1], q[i])
      OBVIOUS
    <3>1. CASE i = 0
      BY <1>0, <2>1, <3>1
    <3>2. CASE i # 0
      <4>1. /\ k[i] = h[i] /\ k[i - 1] = h[i - 1] /\ p[i] = q[i] /\ i \in 0..(n + 1)
        BY <1>0, <3>2
      <4>2. h[i] = Receive(h[i - 1], p[i])
        BY <2>1, <3>2, <4>1
      <4> QED
        BY <3>2, <4>1, <4>2
    <3> QED
      BY <3>1, <3>2
  <2>3. k[n] = h[n]
    BY <1>0
  <2> HIDE DEF k
  <2>4. k = [i \in 0..n |-> k[i]]
    BY DEF k
  <2>5. Course(k, doc, q)
    BY <2>2, <2>4 DEF Course, n
  <2>6. k[n] = e
    BY <2>5 DEF LeadsTo, n
  <2>7. h[n + 1] = Receive(h[n], m)
    BY <1>0, <2>1
  <2> QED
    BY <1>0, <2>3, <2>6, <2>7
<1> QED
  BY <1>3, <1>4 DEF LeadsTo, p

\* The server takes the first message.
LEMMA LeadsOn ==
    ASSUME NEW doc, NEW e, NEW S, NEW q \in Seq(S), q # <<>>, LeadsTo(doc, q, e)
    PROVE  LeadsTo(Receive(doc, Head(q)), Tail(q), e)
<1> DEFINE n == Len(q) - 1
           p == Tail(q)
           d == Receive(doc, Head(q))
<1>0. n \in Nat /\ Len(q) = n + 1 /\ Len(p) = n /\ (\A i \in 1..n : p[i] = q[i + 1])
      /\ d = Receive(doc, q[1])
  OBVIOUS
<1> HIDE DEF n, p, d
<1>1. PICK f : Course(f, doc, q)
  BY DEF LeadsTo
<1>2. f = [i \in 0..(n + 1) |-> IF i = 0 THEN doc ELSE Receive(f[i - 1], q[i])]
  BY <1>0, <1>1 DEF Course
<1> DEFINE g == [i \in 0..n |-> f[i + 1]]
<1>3. \E h : Course(h, d, p)
  <2>1. \A i \in 0..n : g[i] = IF i = 0 THEN d ELSE Receive(g[i - 1], p[i])
    <3> SUFFICES ASSUME NEW i \in 0..n
                 PROVE  g[i] = IF i = 0 THEN d ELSE Receive(g[i - 1], p[i])
      OBVIOUS
    <3>1. /\ i + 1 \in 0..(n + 1) /\ i + 1 # 0 /\ (i + 1) - 1 = i /\ g[i] = f[i + 1]
          /\ 0 \in 0..(n + 1)
      BY <1>0
    <3>2. f[i + 1] = Receive(f[i], q[i + 1]) /\ f[0] = doc
      BY <1>2, <3>1
    <3>3. CASE i = 0
      BY <1>0, <3>1, <3>2, <3>3
    <3>4. CASE i # 0
      <4>1. g[i - 1] = f[i] /\ p[i] = q[i + 1]
        BY <1>0, <3>4
      <4> QED
        BY <3>1, <3>2, <3>4, <4>1
    <3> QED
      BY <3>3, <3>4
  <2> HIDE DEF g
  <2>2. g = [i \in 0..n |-> g[i]]
    BY DEF g
  <2>3. Course(g, d, p)
    BY <1>0, <2>1, <2>2 DEF Course
  <2> QED
    BY <2>3
<1>4. ASSUME NEW h, Course(h, d, p) PROVE h[Len(p)] = e
  <2>1. h = [i \in 0..n |-> IF i = 0 THEN d ELSE Receive(h[i - 1], p[i])]
    BY <1>0, <1>4 DEF Course
  <2> DEFINE k == [i \in 0..(n + 1) |-> IF i = 0 THEN doc ELSE h[i - 1]]
  <2>2. \A i \in 0..(n + 1) : k[i] = IF i = 0 THEN doc ELSE Receive(k[i - 1], q[i])
    <3> SUFFICES ASSUME NEW i \in 0..(n + 1)
                 PROVE  k[i] = IF i = 0 THEN doc ELSE Receive(k[i - 1], q[i])
      OBVIOUS
    <3>1. CASE i = 0
      BY <1>0, <3>1
    <3>2. CASE i = 1
      <4>1. k[1] = h[0] /\ k[0] = doc /\ h[0] = d
        BY <1>0, <2>1
      <4> QED
        BY <1>0, <3>2, <4>1
    <3>3. CASE i # 0 /\ i # 1
      <4>1. /\ i - 1 \in 1..n /\ i - 1 \in 0..n /\ i - 1 # 0 /\ (i - 1) + 1 = i
            /\ k[i] = h[i - 1] /\ k[i - 1] = h[(i - 1) - 1]
        BY <1>0, <3>3
      <4>2. h[i - 1] = Receive(h[(i - 1) - 1], p[i - 1]) /\ p[i - 1] = q[i]
        BY <1>0, <2>1, <4>1
      <4> QED
        BY <3>3, <4>1, <4>2
    <3> QED
      BY <3>1, <3>2, <3>3
  <2>3. k[n + 1] = h[n]
    BY <1>0
  <2> HIDE DEF k
  <2>4. k = [i \in 0..(n + 1) |-> k[i]]
    BY DEF k
  <2>5. Course(k, doc, q)
    BY <1>0, <2>2, <2>4 DEF Course
  <2>6. k[n + 1] = e
    BY <1>0, <2>5 DEF LeadsTo
  <2> QED
    BY <1>0, <2>3, <2>6
<1> QED
  BY <1>3, <1>4 DEF LeadsTo, p, d

-----------------------------------------------------------------------------
(* The clients                                                             *)

LEMMA TextsFact == None \notin Bodies /\ Empty \in Texts /\ Starters \subseteq Texts /\ Bodies \subseteq Texts
  BY TextsAssumption DEF Texts

LEMMA NewClientType ==
    ASSUME NEW b \in {"off", "starting"} PROVE NewClient(b) \in Clients
<1>1. <<>> \in Seq(Messages)
  OBVIOUS
<1> QED
  BY <1>1 DEF NewClient, Clients

LEMMA NotifyType ==
    ASSUME NEW c \in Clients, NEW m \in Messages
    PROVE  /\ Notify(c, m) \in Clients
           /\ Notify(c, m) = [boot |-> c.boot, opened |-> c.opened, docVersion |-> c.docVersion,
                              lastSentText |-> c.lastSentText, toServer |-> Append(c.toServer, m),
                              markers |-> c.markers]
<1>1. c.toServer \in Seq(Messages) /\ Append(c.toServer, m) \in Seq(Messages)
  BY DEF Clients
<1>2. c = [boot |-> c.boot, opened |-> c.opened, docVersion |-> c.docVersion,
           lastSentText |-> c.lastSentText, toServer |-> c.toServer, markers |-> c.markers]
  BY DEF Clients
<1>3. Notify(c, m) = [boot |-> c.boot, opened |-> c.opened, docVersion |-> c.docVersion,
                      lastSentText |-> c.lastSentText, toServer |-> Append(c.toServer, m),
                      markers |-> c.markers]
  BY <1>2 DEF Notify
<1>4. [boot |-> c.boot, opened |-> c.opened, docVersion |-> c.docVersion,
       lastSentText |-> c.lastSentText, toServer |-> Append(c.toServer, m),
       markers |-> c.markers] \in Clients
  BY <1>1 DEF Clients
<1> QED
  BY <1>3, <1>4

\* What the calls of the client do, in the cases they tell apart.
LEMMA ChangeCases ==
    ASSUME NEW c \in Clients, NEW t \in Texts
    PROVE  /\ didChange(c, t) \in Clients
           /\ (~isReady(c) \/ ~c.opened \/ t = c.lastSentText) => didChange(c, t) = c
           /\ (isReady(c) /\ c.opened /\ t # c.lastSentText) =>
                 LET m == Message("change", c.docVersion + 1, t) IN
                 /\ m \in Messages
                 /\ didChange(c, t) = [boot |-> c.boot, opened |-> TRUE, docVersion |-> c.docVersion + 1,
                                       lastSentText |-> t, toServer |-> Append(c.toServer, m),
                                       markers |-> c.markers]
<1> DEFINE m == Message("change", c.docVersion + 1, t)
           b == [c EXCEPT !.lastSentText = t, !.docVersion = @ + 1]
<1>1. m \in Messages
  BY DEF Message, Messages, Clients
<1>2. b \in Clients
  <2>1. c.docVersion + 1 \in Nat /\ t \in Texts \cup {None}
    BY DEF Clients
  <2> QED
    BY <2>1 DEF Clients
<1>3. /\ b.boot = c.boot /\ b.opened = c.opened /\ b.docVersion = c.docVersion + 1
      /\ b.lastSentText = t /\ b.toServer = c.toServer /\ b.markers = c.markers
  BY DEF Clients
<1>4. c.opened \in BOOLEAN
  BY DEF Clients
<1> HIDE DEF b, m
<1>5. Notify(b, m) \in Clients
      /\ Notify(b, m) = [boot |-> c.boot, opened |-> c.opened, docVersion |-> c.docVersion + 1,
                         lastSentText |-> t, toServer |-> Append(c.toServer, m), markers |-> c.markers]
  BY <1>1, <1>2, <1>3, NotifyType
<1>6. CASE ~isReady(c) \/ ~c.opened \/ t = c.lastSentText
  BY <1>6 DEF didChange
<1>7. CASE isReady(c) /\ c.opened /\ t # c.lastSentText
  <2>1. didChange(c, t) = Notify(b, m)
    BY <1>7 DEF didChange, b, m
  <2>2. c.opened = TRUE
    BY <1>4, <1>7
  <2> QED
    BY <1>1, <1>5, <1>7, <2>1, <2>2 DEF m
<1> QED
  BY <1>6, <1>7

LEMMA OpenCases ==
    ASSUME NEW c \in Clients, NEW t \in Texts
    PROVE  /\ didOpen(c, t) \in Clients
           /\ ~isReady(c) => didOpen(c, t) = c
           /\ (isReady(c) /\ ~c.opened) =>
                 LET m == Message("open", 1, t) IN
                 /\ m \in Messages
                 /\ didOpen(c, t) = [boot |-> c.boot, opened |-> TRUE, docVersion |-> 1,
                                     lastSentText |-> t, toServer |-> Append(c.toServer, m),
                                     markers |-> c.markers]
<1> DEFINE m == Message("open", 1, t)
           b == [c EXCEPT !.opened = TRUE, !.docVersion = 1, !.lastSentText = t]
<1>1. m \in Messages
  BY DEF Message, Messages
<1>2. b \in Clients
  BY DEF Clients
<1>3. /\ b.boot = c.boot /\ b.opened = TRUE /\ b.docVersion = 1
      /\ b.lastSentText = t /\ b.toServer = c.toServer /\ b.markers = c.markers
  BY DEF Clients
<1> HIDE DEF b, m
<1>5. Notify(b, m) \in Clients
      /\ Notify(b, m) = [boot |-> c.boot, opened |-> TRUE, docVersion |-> 1,
                         lastSentText |-> t, toServer |-> Append(c.toServer, m), markers |-> c.markers]
  BY <1>1, <1>2, <1>3, NotifyType
<1>6. CASE ~isReady(c)
  BY <1>6 DEF didOpen
<1>7. CASE isReady(c) /\ c.opened
  BY <1>7, ChangeCases DEF didOpen
<1>8. CASE isReady(c) /\ ~c.opened
  <2>1. didOpen(c, t) = Notify(b, m)
    BY <1>8 DEF didOpen, b, m
  <2> QED
    BY <1>1, <1>5, <1>8, <2>1 DEF m
<1> QED
  BY <1>6, <1>7, <1>8

LEMMA CloseCases ==
    ASSUME NEW c \in Clients
    PROVE  /\ didClose(c) \in Clients
           /\ (~isReady(c) \/ ~c.opened) => didClose(c) = c
           /\ (isReady(c) /\ c.opened) =>
                 LET m == Message("close", 0, None) IN
                 /\ m \in Messages
                 /\ didClose(c) = [boot |-> c.boot, opened |-> FALSE, docVersion |-> c.docVersion,
                                   lastSentText |-> None, toServer |-> Append(c.toServer, m),
                                   markers |-> None]
<1> DEFINE m == Message("close", 0, None)
           b == [c EXCEPT !.opened = FALSE, !.lastSentText = None, !.markers = None]
<1>1. m \in Messages
  BY DEF Message, Messages
<1>2. b \in Clients
  BY DEF Clients
<1>3. /\ b.boot = c.boot /\ b.opened = FALSE /\ b.docVersion = c.docVersion
      /\ b.lastSentText = None /\ b.toServer = c.toServer /\ b.markers = None
  BY DEF Clients
<1> HIDE DEF b, m
<1>5. Notify(b, m) \in Clients
      /\ Notify(b, m) = [boot |-> c.boot, opened |-> FALSE, docVersion |-> c.docVersion,
                         lastSentText |-> None, toServer |-> Append(c.toServer, m), markers |-> None]
  BY <1>1, <1>2, <1>3, NotifyType
<1>6. CASE ~isReady(c) \/ ~c.opened
  BY <1>6 DEF didClose
<1>7. CASE isReady(c) /\ c.opened
  <2>1. didClose(c) = Notify(b, m)
    BY <1>7 DEF didClose, b, m
  <2> QED
    BY <1>1, <1>5, <1>7, <2>1 DEF m
<1> QED
  BY <1>6, <1>7

-----------------------------------------------------------------------------
(* Types                                                                   *)

LEMMA ConstantTypes ==
    /\ EarlierBody \in Bodies /\ AnyLang \in Langs /\ NoPage \in [Langs -> Starters]
    /\ NewServer \in [doc : Docs, toPage : Seq(Texts \cup {None})]
<1>1. EarlierBody \in Bodies /\ AnyLang \in Langs
  BY TextsAssumption, LangsAssumption DEF EarlierBody, AnyLang
<1>2. NoPage \in [Langs -> Starters]
  BY TextsAssumption DEF NoPage
<1>3. Closed \in Docs /\ <<>> \in Seq(Texts \cup {None})
  BY DEF Closed, Docs
<1> QED
  BY <1>1, <1>2, <1>3 DEF NewServer

\* Calls of loadCode and saveCode on localStorage.
LEMMA StorageTypes ==
    ASSUME TypeOK, NEW lang \in Langs
    PROVE  /\ loadCode(lang) \in Texts
           /\ \A s \in [Langs -> Texts \cup {None}], l \in Langs, t \in Texts :
                 /\ Put(s, l, t) \in [Langs -> Texts \cup {None}]
                 /\ Seeded(s, lang) \in [Langs -> Texts \cup {None}]
           /\ Seeded(seed, lang) \in [Langs -> Starters \cup {None}]
<1>1. starter[lang] \in Texts /\ starter[lang] \in Starters
  BY TextsFact DEF TypeOK
<1>2. loadCode(lang) \in Texts
  BY <1>1 DEF TypeOK, loadCode, TakesStarter
<1> QED
  BY <1>1, <1>2 DEF TypeOK, Put, Seeded

LEMMA TypeInit == Init => TypeOK
<1> SUFFICES ASSUME Init PROVE TypeOK
  OBVIOUS
<1> USE ConstantTypes, TextsFact
<1>1. saved \in [Langs -> Texts \cup {None}] /\ work \in [Langs -> Texts \cup {None}]
  BY DEF Init, Texts
<1>2. client \in [Langs -> Clients]
  BY NewClientType DEF Init
<1> QED
  BY <1>1, <1>2 DEF Init, TypeOK

LEMMA ReceiveType ==
    ASSUME NEW doc \in Docs, NEW m \in Messages PROVE Receive(doc, m) \in Docs
<1>1. [open |-> TRUE, version |-> m.version, text |-> m.text] \in Docs
  BY DEF Docs, Messages
<1>2. Closed \in Docs /\ Bad \in Docs
  BY DEF Docs, Closed, Bad, Texts
<1> QED
  BY <1>1, <1>2 DEF Receive

\* A server takes a message.
LEMMA ServerTypes ==
    ASSUME TypeOK, NEW l \in Langs, ServerStep(l)
    PROVE  client' \in [Langs -> Clients] /\ server' \in [Langs -> [doc : Docs, toPage : Seq(Texts \cup {None})]]
<1> DEFINE c == client[l]
           m == Head(c.toServer)
<1>1. c \in Clients /\ c.toServer \in Seq(Messages) /\ c.toServer # <<>>
  BY DEF TypeOK, ServerStep, Clients
<1>2. m \in Messages /\ Tail(c.toServer) \in Seq(Messages)
  BY <1>1
<1>3. [c EXCEPT !.toServer = Tail(c.toServer)] \in Clients
  BY <1>1, <1>2 DEF Clients
<1>4. client' = [client EXCEPT ![l] = [c EXCEPT !.toServer = Tail(c.toServer)]]
  BY DEF ServerStep, TypeOK
<1>5. Publishes(m) \in Seq(Texts \cup {None})
  <2>1. m.text \in Texts \cup {None}
    BY <1>2 DEF Messages
  <2>2. <<m.text>> \in Seq(Texts \cup {None}) /\ <<None>> \in Seq(Texts \cup {None})
        /\ <<>> \in Seq(Texts \cup {None})
    BY <2>1
  <2> QED
    BY <2>2 DEF Publishes
<1> DEFINE s == server[l]
<1>6. s.doc \in Docs /\ s.toPage \in Seq(Texts \cup {None}) /\ s \in [doc : Docs, toPage : Seq(Texts \cup {None})]
  BY DEF TypeOK
<1>7. Receive(s.doc, m) \in Docs /\ s.toPage \o Publishes(m) \in Seq(Texts \cup {None})
  BY <1>2, <1>5, <1>6, ReceiveType
<1>8. server' = [server EXCEPT ![l] = [doc |-> Receive(s.doc, m), toPage |-> s.toPage \o Publishes(m)]]
  <2>1. server' = [server EXCEPT ![l].doc = Receive(server[l].doc, m),
                                 ![l].toPage = server[l].toPage \o Publishes(m)]
    BY DEF ServerStep, TypeOK
  <2> HIDE DEF m
  <2>2. server'[l] = [doc |-> Receive(s.doc, m), toPage |-> s.toPage \o Publishes(m)]
    BY <1>6, <2>1 DEF TypeOK
  <2>3. server' = [x \in Langs |-> server'[x]] /\ \A x \in Langs \ {l} : server'[x] = server[x]
    BY <2>1 DEF TypeOK
  <2> QED
    BY <2>2, <2>3 DEF TypeOK
<1> HIDE DEF c, m, s
<1>9. [doc |-> Receive(s.doc, m), toPage |-> s.toPage \o Publishes(m)]
         \in [doc : Docs, toPage : Seq(Texts \cup {None})]
  BY <1>7
<1> QED
  BY <1>3, <1>4, <1>8, <1>9 DEF TypeOK

\* The page takes what a server published.
LEMMA DiagnosticsTypes ==
    ASSUME TypeOK, NEW l \in Langs, applyDiagnostics(l)
    PROVE  client' \in [Langs -> Clients] /\ server' \in [Langs -> [doc : Docs, toPage : Seq(Texts \cup {None})]]
<1> DEFINE c == client[l]
           s == server[l]
<1>1. /\ s \in [doc : Docs, toPage : Seq(Texts \cup {None})] /\ s.toPage \in Seq(Texts \cup {None})
      /\ s.toPage # <<>> /\ c \in Clients
  BY DEF TypeOK, applyDiagnostics
<1>2. Head(s.toPage) \in Texts \cup {None} /\ Tail(s.toPage) \in Seq(Texts \cup {None})
  BY <1>1
<1>3. [c EXCEPT !.markers = Head(s.toPage)] \in Clients
  BY <1>1, <1>2 DEF Clients
<1>4. [s EXCEPT !.toPage = Tail(s.toPage)] \in [doc : Docs, toPage : Seq(Texts \cup {None})]
  BY <1>1, <1>2
<1>5. /\ client' = [client EXCEPT ![l] = [c EXCEPT !.markers = Head(s.toPage)]]
      /\ server' = [server EXCEPT ![l] = [s EXCEPT !.toPage = Tail(s.toPage)]]
  BY DEF applyDiagnostics, TypeOK
<1> HIDE DEF c, s
<1> QED
  BY <1>3, <1>4, <1>5 DEF TypeOK

LEMMA TypeStep == TypeOK /\ [Next]_vars => TypeOK'
<1> SUFFICES ASSUME TypeOK, [Next]_vars PROVE TypeOK'
  OBVIOUS
<1> USE ConstantTypes, TextsFact
<1>0. currentLang \in Langs /\ text \in Texts
  BY DEF TypeOK
<1>1. CASE Load
  BY <1>1 DEF Load, TypeOK, storage, lsp
<1>2. CASE CreateEditor
  <2>1. text' \in Texts /\ saved' \in [Langs -> Texts \cup {None}] /\ seed' \in [Langs -> Starters \cup {None}]
    <3>1. saved \in [Langs -> Texts \cup {None}]
      BY DEF TypeOK
    <3> QED
      BY <1>0, <1>2, <3>1, StorageTypes DEF CreateEditor
  <2>2. client' \in [Langs -> Clients] /\ server' \in [Langs -> [doc : Docs, toPage : Seq(Texts \cup {None})]]
    BY <1>2, NewClientType DEF CreateEditor, setupLsp
  <2> QED
    BY <1>2, <2>1, <2>2 DEF CreateEditor, TypeOK
<1>3. ASSUME NEW t \in Texts, Edit(t) PROVE TypeOK'
  <2>1. didChange(client[currentLang], t) \in Clients
    BY <1>0, ChangeCases DEF TypeOK
  <2>2. client' \in [Langs -> Clients]
    BY <1>0, <1>3, <2>1 DEF Edit, TypeOK
  <2>3. saved' \in [Langs -> Texts \cup {None}]
    BY <1>0, <1>3 DEF Edit, TypeOK, Put
  <2> QED
    BY <1>0, <1>3, <2>2, <2>3 DEF Edit, TypeOK
<1>4. ASSUME NEW l \in Langs, SwitchLanguage(l) PROVE TypeOK'
  <2>1. text' \in Texts /\ text' = loadCode(l) /\ seed' \in [Langs -> Starters \cup {None}]
    BY <1>4, StorageTypes DEF SwitchLanguage, applyLanguage
  <2>2. saved' \in [Langs -> Texts \cup {None}]
    <3>1. Saved \in [Langs -> Texts \cup {None}]
      BY <1>0 DEF Saved, Put, TypeOK
    <3>2. Seeded(Saved, l) \in [Langs -> Texts \cup {None}]
      BY <1>0, <3>1, StorageTypes
    <3>3. saved' = Put(Seeded(Saved, l), l, text')
      BY <1>4 DEF SwitchLanguage, applyLanguage
    <3> QED
      BY <2>1, <3>2, <3>3 DEF Put
  <2>3. client' \in [Langs -> Clients]
    <3>1. didClose(client[currentLang]) \in Clients
      BY <1>0, CloseCases DEF TypeOK
    <3>2. client[l] \in Clients
      BY DEF TypeOK
    <3>3. didOpen(didChange(client[l], text'), text') \in Clients
      BY <2>1, <3>2, ChangeCases, OpenCases
    <3>4. client' = [client EXCEPT ![currentLang] = didClose(client[currentLang]),
                                   ![l] = didOpen(didChange(client[l], text'), text')]
      BY <1>0, <1>4 DEF SwitchLanguage, applyLanguage, TypeOK
    <3> QED
      BY <3>1, <3>3, <3>4 DEF TypeOK
  <2> QED
    BY <1>4, <2>1, <2>2, <2>3 DEF SwitchLanguage, TypeOK
<1>5. ASSUME NEW l \in Langs, SwitchEarly(l) PROVE TypeOK'
  BY <1>5 DEF SwitchEarly, TypeOK, storage, lsp
<1>6. ASSUME Gone, saved' \in [Langs -> Texts \cup {None}] PROVE TypeOK'
  <2>1. client' \in [Langs -> Clients] /\ server' \in [Langs -> [doc : Docs, toPage : Seq(Texts \cup {None})]]
    BY <1>6, NewClientType DEF Gone
  <2> QED
    BY <1>6, <2>1 DEF Gone, TypeOK
<1>7. CASE Submit \/ Leave
  BY <1>0, <1>6, <1>7 DEF Submit, Leave, Saved, Put, TypeOK
<1>8. ASSUME NEW l \in Langs, Initialized(l) PROVE TypeOK'
  <2> DEFINE c == [client[l] EXCEPT !.boot = "ready"]
  <2>1. c \in Clients
    <3>1. client[l] \in Clients
      BY DEF TypeOK
    <3> QED
      BY <3>1 DEF Clients
  <2>2. client' \in [Langs -> Clients]
    BY <1>0, <1>8, <2>1, OpenCases DEF Initialized, onReady, TypeOK
  <2> QED
    BY <1>8, <2>2 DEF Initialized, TypeOK, storage, editor
<1>9. ASSUME NEW l \in Langs, ServerStep(l) \/ applyDiagnostics(l) PROVE TypeOK'
  <2>1. client' \in [Langs -> Clients] /\ server' \in [Langs -> [doc : Docs, toPage : Seq(Texts \cup {None})]]
    BY <1>9, ServerTypes, DiagnosticsTypes
  <2> QED
    BY <1>9, <2>1 DEF ServerStep, applyDiagnostics, TypeOK, storage, editor
<1>10. CASE UNCHANGED vars
  BY <1>10 DEF vars, storage, editor, lsp, TypeOK
<1> QED
  BY <1>1, <1>2, <1>3, <1>4, <1>5, <1>7, <1>8, <1>9, <1>10 DEF Next, Student

\* The page, localStorage and the language servers stay in their types: the
\* editor never holds null, and a client talks to its server in messages of the
\* protocol only.
THEOREM TypeCorrect == Safety => []TypeOK
  BY TypeInit, TypeStep, PTL DEF Safety

-----------------------------------------------------------------------------
(* The code of a student                                                   *)

\* loadCode returns a student's code without a marker in it, and writes nothing.
LEMMA CodeReturned ==
    ASSUME TypeOK, NEW l \in Langs, saved[l] \in Bodies \ Marked
    PROVE  ~TakesStarter(l) /\ loadCode(l) = saved[l]
<1>1. seed[l] \in Starters \cup {None}
  BY DEF TypeOK
<1> QED
  BY <1>1, TextsAssumption DEF TakesStarter, looksStaleAutoGenerated, loadCode

LEMMA WorkStep ==
    StorageWorks /\ TypeOK /\ WorkKept /\ [Next]_vars => WorkKept'
<1> SUFFICES ASSUME StorageWorks, TypeOK, WorkKept, [Next]_vars,
                    NEW l \in Langs, work'[l] \in Bodies \ Marked
             PROVE  /\ saved'[l] = work'[l]
                    /\ (page' = "editing" /\ currentLang' = l) => text' = work'[l]
  BY DEF WorkKept, Kept
<1>0. currentLang \in Langs
  BY DEF TypeOK
<1>1. ASSUME UNCHANGED work PROVE /\ saved[l] = work'[l] /\ work[l] \in Bodies \ Marked
                                  /\ (page = "editing" /\ currentLang = l) => text = work'[l]
  BY <1>1 DEF WorkKept, Kept
<1>2. CASE Load \/ Leave \/ \E x \in Langs : SwitchEarly(x)
  BY <1>1, <1>2 DEF Load, Leave, Gone, SwitchEarly, storage
<1>3. CASE CreateEditor
  <2>1. saved[l] = work'[l] /\ saved[l] \in Bodies \ Marked
    BY <1>1, <1>3 DEF CreateEditor
  <2>2. saved'[l] = saved[l]
    BY <1>0, <1>3, <2>1, CodeReturned DEF CreateEditor, Seeded, Put, TypeOK
  <2> QED
    BY <1>3, <2>1, <2>2, CodeReturned DEF CreateEditor
<1>4. ASSUME NEW t \in Texts, Edit(t)
      PROVE  /\ saved'[l] = work'[l]
             /\ (page' = "editing" /\ currentLang' = l) => text' = work'[l]
  BY <1>0, <1>4 DEF Edit, Put, TypeOK, WorkKept, Kept
<1>5. ASSUME NEW x \in Langs, SwitchLanguage(x)
      PROVE  /\ saved'[l] = work'[l]
             /\ (page' = "editing" /\ currentLang' = l) => text' = work'[l]
  <2>1. /\ saved[l] = work'[l] /\ saved[l] \in Bodies \ Marked
        /\ currentLang = l => text = work'[l]
    BY <1>1, <1>5 DEF SwitchLanguage
  <2>2. saved' = Put(Seeded(Saved, x), x, text') /\ text' = loadCode(x) /\ currentLang' = x
    BY <1>5 DEF SwitchLanguage, applyLanguage
  <2>3. Saved \in [Langs -> Texts \cup {None}] /\ Saved[l] = work'[l]
    BY <1>0, <2>1 DEF Saved, Put, TypeOK
  <2>4. Seeded(Saved, x) \in [Langs -> Texts \cup {None}]
    BY <1>0, <2>3, StorageTypes DEF TypeOK
  <2>5. CASE x = l
    BY <2>1, <2>2, <2>4, <2>5, CodeReturned DEF Put
  <2>6. CASE x # l
    <3>1. Seeded(Saved, x)[l] = Saved[l]
      BY <2>3, <2>6 DEF Seeded, Put
    <3> QED
      BY <2>2, <2>3, <2>4, <2>6, <3>1 DEF Put
  <2> QED
    BY <2>5, <2>6
<1>6. CASE Submit
  BY <1>0, <1>1, <1>6 DEF Submit, Gone, Saved, Put, TypeOK
<1>7. CASE \/ UNCHANGED vars
           \/ \E x \in Langs : Initialized(x) \/ ServerStep(x) \/ applyDiagnostics(x)
  BY <1>1, <1>7 DEF Initialized, ServerStep, applyDiagnostics, vars, storage, editor
<1> QED
  BY <1>2, <1>3, <1>4, <1>5, <1>6, <1>7 DEF Next, Student

\* As long as localStorage accepts writes, code a student typed survives edits,
\* switches of language, reloads, submissions and new starters, unless one of
\* the lines looksStaleAutoGenerated looks for was left in it; for any number of
\* languages and texts (problem_ide.js:297-374).
THEOREM WorkAlwaysKept == StorageWorks => (Safety => []WorkKept)
<1> SUFFICES ASSUME StorageWorks PROVE Safety => []WorkKept
  OBVIOUS
<1>1. Init => WorkKept
  BY TextsFact DEF Init, WorkKept, Kept
<1>2. TypeOK /\ WorkKept /\ [Next]_vars => WorkKept'
  BY WorkStep
<1> QED
  BY <1>1, <1>2, TypeCorrect, PTL DEF Safety

-----------------------------------------------------------------------------
(* The documents at the servers                                            *)

\* The document a server is to end up with.
Target(c, t) == IF c.opened THEN [open |-> TRUE, version |-> c.docVersion, text |-> t] ELSE Closed

\* Client c, whose language is the one in the editor exactly when b, and a
\* server that has doc agree on the text t of the editor.
InStep(c, doc, b, t) ==
    /\ c.opened <=> (b /\ isReady(c))
    /\ c.opened => c.lastSentText = t
    /\ LeadsTo(doc, c.toServer, Target(c, t))

Editing(l) == page = "editing" /\ l = currentLang

\* Every client is in step with its server; none is up unless there is an editor.
SyncInv ==
    \A l \in Langs :
        /\ InStep(client[l], server[l].doc, Editing(l), text)
        /\ client[l].boot # "off" => page = "editing"

LEMMA NewInStep ==
    ASSUME NEW b \in {"off", "starting"}, NEW e \in BOOLEAN, NEW t
    PROVE  InStep(NewClient(b), Closed, e, t) /\ NewClient(b).boot = b
  BY LeadsNowhere DEF InStep, NewClient, isReady, Target

\* A client that has nothing open does not depend on the text.
LEMMA OtherText ==
    ASSUME NEW c, NEW doc, NEW b \in BOOLEAN, NEW t, NEW u, InStep(c, doc, b, t), ~c.opened
    PROVE  InStep(c, doc, b, u)
  BY DEF InStep, Target

LEMMA OpenInStep ==
    ASSUME NEW c \in Clients, NEW doc, NEW t, NEW u \in Texts, InStep(c, doc, FALSE, t)
    PROVE  InStep(didOpen(c, u), doc, TRUE, u) /\ didOpen(c, u).boot = c.boot
<1>0. ~c.opened /\ c.toServer \in Seq(Messages) /\ LeadsTo(doc, c.toServer, Closed)
  BY DEF InStep, Target, Clients
<1>1. CASE ~isReady(c)
  BY <1>0, <1>1, OpenCases DEF InStep, Target
<1>2. CASE isReady(c)
  <2> DEFINE m == Message("open", 1, u)
             d == didOpen(c, u)
  <2>1. m \in Messages /\ d = [boot |-> c.boot, opened |-> TRUE, docVersion |-> 1, lastSentText |-> u,
                               toServer |-> Append(c.toServer, m), markers |-> c.markers]
    BY <1>0, <1>2, OpenCases
  <2>2. Receive(Closed, m) = [open |-> TRUE, version |-> 1, text |-> u]
    BY DEF Receive, Closed, Message
  <2>3. LeadsTo(doc, Append(c.toServer, m), [open |-> TRUE, version |-> 1, text |-> u])
    <3>1. LeadsTo(doc, Append(c.toServer, m), Receive(Closed, m))
      BY <1>0, <2>1, LeadsFurther
    <3> QED
      BY <2>2, <3>1
  <2> HIDE DEF m, d
  <2>4. /\ d.opened /\ d.lastSentText = u /\ d.toServer = Append(c.toServer, m) /\ d.boot = c.boot
        /\ Target(d, u) = [open |-> TRUE, version |-> 1, text |-> u]
    BY <2>1 DEF Target
  <2>5. InStep(d, doc, TRUE, u) /\ d.boot = c.boot
    BY <1>2, <2>3, <2>4 DEF InStep, isReady
  <2> QED
    BY <2>5 DEF d
<1> QED
  BY <1>1, <1>2

LEMMA ChangeInStep ==
    ASSUME NEW c \in Clients, NEW doc, NEW t, NEW u \in Texts, InStep(c, doc, TRUE, t)
    PROVE  InStep(didChange(c, u), doc, TRUE, u) /\ didChange(c, u).boot = c.boot
<1>0. /\ c.toServer \in Seq(Messages) /\ c.docVersion \in Nat
      /\ (c.opened <=> isReady(c)) /\ (c.opened => c.lastSentText = t)
      /\ LeadsTo(doc, c.toServer, Target(c, t))
  BY DEF InStep, Clients
<1>1. CASE ~c.opened
  BY <1>0, <1>1, ChangeCases DEF InStep, Target
<1>2. CASE c.opened /\ u = c.lastSentText
  BY <1>0, <1>2, ChangeCases DEF InStep
<1>3. CASE c.opened /\ u # c.lastSentText
  <2> DEFINE v == c.docVersion + 1
             m == Message("change", v, u)
             d == didChange(c, u)
  <2>1. m \in Messages /\ d = [boot |-> c.boot, opened |-> TRUE, docVersion |-> v, lastSentText |-> u,
                               toServer |-> Append(c.toServer, m), markers |-> c.markers]
    BY <1>0, <1>3, ChangeCases
  <2>2. Receive(Target(c, t), m) = [open |-> TRUE, version |-> v, text |-> u]
    BY <1>0, <1>3 DEF Receive, Target, Message
  <2>3. LeadsTo(doc, Append(c.toServer, m), [open |-> TRUE, version |-> v, text |-> u])
    <3>1. LeadsTo(doc, Append(c.toServer, m), Receive(Target(c, t), m))
      BY <1>0, <2>1, LeadsFurther
    <3> QED
      BY <2>2, <3>1
  <2> HIDE DEF m, d, v
  <2>4. /\ d.opened /\ d.lastSentText = u /\ d.toServer = Append(c.toServer, m) /\ d.boot = c.boot
        /\ Target(d, u) = [open |-> TRUE, version |-> v, text |-> u]
    BY <2>1 DEF Target
  <2>5. InStep(d, doc, TRUE, u) /\ d.boot = c.boot
    BY <1>0, <1>3, <2>3, <2>4 DEF InStep, isReady
  <2> QED
    BY <2>5 DEF d
<1> QED
  BY <1>1, <1>2, <1>3

LEMMA CloseInStep ==
    ASSUME NEW c \in Clients, NEW doc, NEW t, NEW u, InStep(c, doc, TRUE, t)
    PROVE  InStep(didClose(c), doc, FALSE, u) /\ didClose(c).boot = c.boot
<1>0. /\ c.toServer \in Seq(Messages) /\ c.docVersion \in Nat
      /\ (c.opened <=> isReady(c)) /\ LeadsTo(doc, c.toServer, Target(c, t))
  BY DEF InStep, Clients
<1>1. CASE ~c.opened
  BY <1>0, <1>1, CloseCases DEF InStep, Target
<1>2. CASE c.opened
  <2> DEFINE m == Message("close", 0, None)
             d == didClose(c)
  <2>1. m \in Messages /\ d = [boot |-> c.boot, opened |-> FALSE, docVersion |-> c.docVersion,
                               lastSentText |-> None, toServer |-> Append(c.toServer, m),
                               markers |-> None]
    BY <1>0, <1>2, CloseCases
  <2>2. Receive(Target(c, t), m) = Closed
    BY <1>2 DEF Receive, Target, Message
  <2>3. LeadsTo(doc, Append(c.toServer, m), Closed)
    <3>1. LeadsTo(doc, Append(c.toServer, m), Receive(Target(c, t), m))
      BY <1>0, <2>1, LeadsFurther
    <3> QED
      BY <2>2, <3>1
  <2> HIDE DEF m, d
  <2>4. ~d.opened /\ d.toServer = Append(c.toServer, m) /\ d.boot = c.boot
    BY <2>1
  <2>5. InStep(d, doc, FALSE, u) /\ d.boot = c.boot
    BY <1>0, <2>3, <2>4 DEF InStep, isReady, Target
  <2> QED
    BY <2>5 DEF d
<1> QED
  BY <1>1, <1>2

LEMMA SyncStep == TypeOK /\ SyncInv /\ [Next]_vars => SyncInv'
<1> SUFFICES ASSUME TypeOK, SyncInv, [Next]_vars, NEW l \in Langs
             PROVE  /\ InStep(client'[l], server'[l].doc, Editing(l)', text')
                    /\ client'[l].boot # "off" => page' = "editing"
  BY DEF SyncInv
<1> DEFINE Goal == /\ InStep(client'[l], server'[l].doc, Editing(l)', text')
                   /\ client'[l].boot # "off" => page' = "editing"
<1>0. /\ currentLang \in Langs /\ text \in Texts /\ client[l] \in Clients
      /\ client[currentLang] \in Clients /\ Editing(l) \in BOOLEAN
      /\ InStep(client[l], server[l].doc, Editing(l), text)
      /\ client[l].boot # "off" => page = "editing"
  BY DEF TypeOK, SyncInv, Editing
<1>1. ASSUME client[l].boot = "off", UNCHANGED <<client, server>>
      PROVE  Goal
  <2>1. ~client[l].opened
    BY <1>0, <1>1 DEF InStep, isReady
  <2> QED
    BY <1>0, <1>1, <2>1 DEF InStep, Target, isReady
<1>2. CASE Load \/ \E x \in Langs : SwitchEarly(x)
  <2>1. page # "editing" /\ UNCHANGED <<client, server>>
    BY <1>2 DEF Load, SwitchEarly, lsp
  <2> QED
    BY <1>0, <1>1, <2>1
<1>3. CASE CreateEditor \/ Submit \/ Leave
  <2>1. PICK b \in {"off", "starting"} :
           client'[l] = NewClient(b) /\ (page' = "editing" \/ b = "off")
    <3>1. CASE CreateEditor
      BY <3>1 DEF CreateEditor, setupLsp
    <3>2. CASE Submit \/ Leave
      BY <3>2 DEF Submit, Leave, Gone
    <3> QED
      BY <1>3, <3>1, <3>2
  <2>2. server'[l] = NewServer
    BY <1>3 DEF CreateEditor, setupLsp, Submit, Leave, Gone
  <2>3. server'[l].doc = Closed /\ Editing(l)' \in BOOLEAN
    BY <2>2 DEF NewServer, Editing
  <2> QED
    BY <2>1, <2>3, NewInStep
<1>4. ASSUME NEW t \in Texts, Edit(t) PROVE Goal
  <2>1. /\ server' = server /\ text' = t /\ page' = page /\ page = "editing"
        /\ client' = [client EXCEPT ![currentLang] = didChange(client[currentLang], t)]
        /\ Editing(l)' = Editing(l)
    BY <1>0, <1>4 DEF Edit, TypeOK, Editing
  <2>2. CASE l = currentLang
    <3>1. Editing(l) = TRUE /\ client'[l] = didChange(client[l], t)
      BY <1>0, <2>1, <2>2 DEF Editing, TypeOK
    <3>5. InStep(client[l], server[l].doc, TRUE, text)
      BY <1>0, <3>1
    <3>6. InStep(didChange(client[l], t), server[l].doc, TRUE, t) /\ didChange(client[l], t).boot = client[l].boot
      BY <1>0, <2>1, <3>5, ChangeInStep
    <3> QED
      BY <1>0, <2>1, <3>1, <3>6
  <2>3. CASE l # currentLang
    <3>1. client'[l] = client[l] /\ ~client[l].opened
      BY <1>0, <2>1, <2>3 DEF Editing, TypeOK, InStep
    <3> QED
      BY <1>0, <2>1, <3>1, OtherText
  <2> QED
    BY <2>2, <2>3
<1>5. ASSUME NEW x \in Langs, SwitchLanguage(x) PROVE Goal
  <2>1. /\ server' = server /\ page' = page /\ page = "editing" /\ currentLang' = x
        /\ x # currentLang /\ text' = loadCode(x)
        /\ client' = [client EXCEPT ![currentLang] = didClose(client[currentLang]),
                                    ![x] = didOpen(didChange(client[x], text'), text')]
    BY <1>0, <1>5 DEF SwitchLanguage, applyLanguage, TypeOK
  <2>2. text' \in Texts
    BY <2>1, StorageTypes
  <2>3. CASE l = currentLang
    <3>1. Editing(l) = TRUE /\ Editing(l)' = FALSE /\ client'[l] = didClose(client[l])
      BY <1>0, <2>1, <2>3 DEF Editing, TypeOK
    <3>5. InStep(client[l], server[l].doc, TRUE, text)
      BY <1>0, <3>1
    <3>6. InStep(didClose(client[l]), server[l].doc, FALSE, text') /\ didClose(client[l]).boot = client[l].boot
      BY <1>0, <2>1, <3>5, CloseInStep
    <3> QED
      BY <1>0, <2>1, <3>1, <3>6
  <2>4. CASE l = x
    <3>1. /\ Editing(l) = FALSE /\ Editing(l)' = TRUE
          /\ client'[l] = didOpen(didChange(client[l], text'), text')
      BY <1>0, <2>1, <2>4 DEF Editing, TypeOK
    <3>2. ~client[l].opened
      BY <1>0, <3>1 DEF InStep
    <3>3. didChange(client[l], text') = client[l]
      BY <1>0, <2>2, <3>2, ChangeCases
    <3>5. InStep(client[l], server[l].doc, FALSE, text)
      BY <1>0, <3>1
    <3>6. InStep(didOpen(client[l], text'), server[l].doc, TRUE, text') /\ didOpen(client[l], text').boot = client[l].boot
      BY <1>0, <2>1, <2>2, <3>5, OpenInStep
    <3> QED
      BY <1>0, <2>1, <3>1, <3>3, <3>6
  <2>5. CASE l # x /\ l # currentLang
    <3>1. Editing(l) = FALSE /\ Editing(l)' = FALSE /\ client'[l] = client[l] /\ ~client[l].opened
      BY <1>0, <2>1, <2>5 DEF Editing, TypeOK, InStep
    <3> QED
      BY <1>0, <2>1, <3>1, OtherText
  <2> QED
    BY <2>3, <2>4, <2>5
<1>6. ASSUME NEW x \in Langs, Initialized(x) PROVE Goal
  <2> DEFINE c == [client[x] EXCEPT !.boot = "ready"]
  <2>1. /\ server' = server /\ page' = page /\ text' = text /\ Editing(l)' = Editing(l)
        /\ client[x].boot = "starting"
        /\ client' = [client EXCEPT ![x] = IF currentLang = x THEN didOpen(c, text) ELSE c]
    BY <1>6 DEF Initialized, onReady, editor, Editing
  <2>2. CASE l # x
    <3>1. client'[l] = client[l]
      BY <2>1, <2>2 DEF TypeOK
    <3> QED
      BY <1>0, <2>1, <3>1
  <2>3. CASE l = x
    <3>1. page = "editing" /\ ~client[l].opened
      BY <1>0, <2>1, <2>3 DEF InStep, isReady
    <3>2. /\ c \in Clients /\ c.opened = client[l].opened /\ c.toServer = client[l].toServer
          /\ c.docVersion = client[l].docVersion
      BY <1>0, <2>3 DEF Clients
    <3>3. client'[l] = IF currentLang = l THEN didOpen(c, text) ELSE c
      BY <2>1, <2>3 DEF TypeOK
    <3> HIDE DEF c
    <3>4. InStep(c, server[l].doc, FALSE, text)
      BY <1>0, <3>1, <3>2 DEF InStep, Target
    <3>5. CASE currentLang = l
      <4>1. Editing(l) = TRUE
        BY <3>1, <3>5 DEF Editing
      <4> QED
        BY <1>0, <2>1, <3>1, <3>2, <3>3, <3>4, <3>5, <4>1, OpenInStep
    <3>6. CASE currentLang # l
      <4>1. Editing(l) = FALSE
        BY <3>6 DEF Editing
      <4> QED
        BY <2>1, <3>1, <3>3, <3>4, <3>6, <4>1
    <3> QED
      BY <3>5, <3>6
  <2> QED
    BY <2>2, <2>3
<1>7. ASSUME NEW x \in Langs, ServerStep(x) PROVE Goal
  <2>1. page' = page /\ text' = text /\ Editing(l)' = Editing(l)
    BY <1>7 DEF ServerStep, editor, Editing
  <2>2. CASE l # x
    <3>1. client'[l] = client[l] /\ server'[l] = server[l]
      BY <1>7, <2>2 DEF ServerStep, TypeOK
    <3> QED
      BY <1>0, <2>1, <3>1
  <2>3. CASE l = x
    <3> DEFINE q == client[l].toServer
    <3>1. q \in Seq(Messages) /\ q # <<>>
      BY <1>0, <1>7, <2>3 DEF ServerStep, Clients
    <3>2. client'[l] = [client[l] EXCEPT !.toServer = Tail(q)]
      BY <1>7, <2>3 DEF ServerStep, TypeOK
    <3>3. server'[l].doc = Receive(server[l].doc, Head(q))
      BY <1>7, <2>3 DEF ServerStep, TypeOK
    <3>4. /\ client'[l].toServer = Tail(q) /\ client'[l].opened = client[l].opened
          /\ client'[l].boot = client[l].boot /\ client'[l].docVersion = client[l].docVersion
          /\ client'[l].lastSentText = client[l].lastSentText
      BY <1>0, <3>2 DEF Clients
    <3>5. LeadsTo(server'[l].doc, Tail(q), Target(client[l], text))
      <4>1. LeadsTo(server[l].doc, q, Target(client[l], text))
        BY <1>0 DEF InStep
      <4> HIDE DEF q
      <4> QED
        BY <3>1, <3>3, <4>1, LeadsOn
    <3> QED
      BY <1>0, <2>1, <3>4, <3>5 DEF InStep, Target, isReady
  <2> QED
    BY <2>2, <2>3
<1>8. ASSUME NEW x \in Langs, applyDiagnostics(x) PROVE Goal
  <2>1. page' = page /\ text' = text /\ Editing(l)' = Editing(l)
    BY <1>8 DEF applyDiagnostics, editor, Editing
  <2>2. /\ client'[l].toServer = client[l].toServer /\ client'[l].opened = client[l].opened
        /\ client'[l].boot = client[l].boot /\ client'[l].docVersion = client[l].docVersion
        /\ client'[l].lastSentText = client[l].lastSentText /\ server'[l].doc = server[l].doc
    BY <1>0, <1>8 DEF applyDiagnostics, TypeOK, Clients
  <2> QED
    BY <1>0, <2>1, <2>2 DEF InStep, Target, isReady
<1>9. CASE UNCHANGED vars
  BY <1>0, <1>9 DEF vars, editor, lsp, Editing
<1> QED
  BY <1>2, <1>3, <1>4, <1>5, <1>6, <1>7, <1>8, <1>9 DEF Next, Student

\* Once a server has taken what was posted to it, its document is the text in the
\* editor if its language is current and closed otherwise, and no message breaks
\* the protocol, however late servers start and answer and however often the
\* language is switched meanwhile (lsp-monaco.js:132-160, problem_ide.js:360-374,
\* 420-426).
THEOREM AlwaysSynced == Safety => []Synced
<1>1. Init => SyncInv
  <2> SUFFICES ASSUME Init, NEW l \in Langs
               PROVE  /\ InStep(client[l], server[l].doc, Editing(l), text)
                      /\ client[l].boot # "off" => page = "editing"
    BY DEF SyncInv
  <2>1. client[l] = NewClient("off") /\ server[l].doc = Closed /\ Editing(l) \in BOOLEAN
    BY DEF Init, NewServer, Editing
  <2> QED
    BY <2>1, NewInStep
<1>2. TypeOK /\ SyncInv => Synced
  <2> SUFFICES ASSUME TypeOK, SyncInv, NEW l \in Langs
               PROVE  ReceiveAll(server[l].doc, client[l].toServer) =
                         IF l = currentLang /\ isReady(client[l])
                         THEN [open |-> TRUE, version |-> client[l].docVersion, text |-> text]
                         ELSE Closed
    BY DEF Synced
  <2>1. ReceiveAll(server[l].doc, client[l].toServer) = Target(client[l], text)
    BY ReceiveAllLeads DEF SyncInv, InStep
  <2>2. client[l].opened <=> (l = currentLang /\ isReady(client[l]))
    BY DEF SyncInv, InStep, Editing, isReady
  <2> QED
    BY <2>1, <2>2 DEF Target
<1> QED
  BY <1>1, <1>2, SyncStep, TypeCorrect, PTL DEF Safety
=============================================================================
