---------------------------- MODULE DocSyncProofs ----------------------------
(* What holds of open documents (DocSync) for any number of documents, texts *)
(* of any length and notifications on their way: the server is asked to open *)
(* what it does not have, to change what it has, sees the versions increase, *)
(* and ends up with the manager's texts, but for changes that the manager    *)
(* passes on and ignores itself.                                             *)
(*                                                                           *)
(* What the server will have when it has read what is on its way is not to   *)
(* be seen in one notification. SyncInv speaks of sessions, from a document's*)
(* open to its close, which lie one after another in what the server has and *)
(* what it will read; TextInv of what the server makes of its copy when it   *)
(* reads all that is on its way. The latter rests on EditIsSplice: keeping   *)
(* the lines around a range, as the server does, and splicing at the offsets *)
(* of its ends, as the manager does, come to the same text.                  *)
EXTENDS DocSync, SequenceTheorems, FiniteSetTheorems, TLAPS

\* The sequence of notifications on their way is one, and each is about a
\* document; an open and a change have a version.
Wired ==
  /\ Len(wire) \in Nat /\ wire = [i \in 1 .. Len(wire) |-> wire[i]]
  /\ \A i \in 1 .. Len(wire) :
       /\ wire[i].doc \in Docs /\ wire[i].op \in {"open", "change", "close", "save"}
       /\ wire[i].op \in {"open", "change"} => wire[i].version \in Nat \ {0}

\* Both sides have records for all documents, and what they have open has a
\* version.
Versioned(table) ==
  /\ table = [d \in Docs |-> table[d]]
  /\ \A d \in Docs : /\ table[d].version \in Nat
                     /\ table[d] # Absent => table[d].version # 0

\* The server's copy counts as what was read before the first notification.
Opens(d, i) == i \in 1 .. Len(wire) /\ wire[i].op = "open" /\ wire[i].doc = d
Changes(d, i) == i \in 1 .. Len(wire) /\ wire[i].op = "change" /\ wire[i].doc = d
Closes(d, i) == i \in 1 .. Len(wire) /\ wire[i].op = "close" /\ wire[i].doc = d
Has(d, i) == (i = 0 /\ server[d] # Absent) \/ Opens(d, i)
Touches(d, i) == Has(d, i) \/ Changes(d, i)
Version(d, i) == IF i = 0 THEN server[d].version ELSE wire[i].version

Between(d, i, j) == \E k \in 1 .. Len(wire) : i < k /\ k < j /\ Closes(d, k)
After(d, i) == \E k \in 1 .. Len(wire) : i < k /\ Closes(d, k)

\* Between two sessions of a document stands a close; in a session versions
\* increase.
Sessions(d) ==
  \A i \in 0 .. Len(wire) : \A j \in 1 .. Len(wire) :
    i < j /\ Touches(d, i) /\ ~Between(d, i, j) =>
      /\ ~Opens(d, j)
      /\ Changes(d, j) => Version(d, i) < Version(d, j)

\* What is not open any more is to be closed; what is open has the latest
\* version; what is open and sound is open at the server when all is read.
Latest(d) ==
  /\ \A i \in 0 .. Len(wire) : Touches(d, i) /\ ~After(d, i) =>
       Known(d) /\ Version(d, i) <= documents[d].version
  /\ d \in sound => \E i \in 0 .. Len(wire) : Has(d, i) /\ ~After(d, i)

SyncInv ==
  /\ Wired /\ Versioned(documents) /\ Versioned(server)
  /\ link \in {"new", "initialized", "closed"}
  /\ link = "closed" => wire = <<>>
  /\ \A d \in Docs : Sessions(d)
  /\ link # "closed" => \A d \in Docs : Latest(d)

----------------------------------------------------------------------------
\* Nothing is open and nothing is on its way when the manager is made.
LEMMA SyncInit == Init => SyncInv
<1> SUFFICES ASSUME Init PROVE SyncInv OBVIOUS
<1>1. wire = <<>> /\ Len(wire) = 0 BY DEF Init
<1>2. Wired BY <1>1 DEF Wired
<1>3. Versioned(documents) /\ Versioned(server) BY DEF Init, Versioned, Absent
<1>4. ASSUME NEW d \in Docs PROVE Sessions(d) /\ Latest(d)
  <2>1. server[d] = Absent /\ d \notin sound BY DEF Init
  <2>2. \A i : ~Touches(d, i) BY <1>1, <2>1 DEF Touches, Has, Opens, Changes
  <2> QED BY <1>1, <2>1, <2>2 DEF Sessions, Latest
<1> QED BY <1>1, <1>2, <1>3, <1>4 DEF SyncInv, Init

\* A function on 1 .. n is a sequence.
LEMMA IsSequence ==
  ASSUME NEW n \in Nat, NEW s, s = [i \in 1 .. n |-> s[i]]
  PROVE  s \in Seq({s[i] : i \in 1 .. n})
<1>1. s \in [1 .. n -> {s[i] : i \in 1 .. n}] OBVIOUS
<1> QED BY <1>1, SeqDef

\* What is sent comes last.
LEMMA Appended ==
  ASSUME Wired, NEW m, m.doc \in Docs, m.op \in {"open", "change", "close", "save"},
         m.op \in {"open", "change"} => m.version \in Nat \ {0},
         wire' = Append(wire, m)
  PROVE  /\ Wired' /\ Len(wire) \in Nat /\ Len(wire') = Len(wire) + 1
         /\ \A i \in 1 .. Len(wire) : wire'[i] = wire[i]
         /\ wire'[Len(wire) + 1] = m
<1> DEFINE S == {wire[i] : i \in 1 .. Len(wire)} \cup {m}
<1>1. Len(wire) \in Nat /\ wire = [i \in 1 .. Len(wire) |-> wire[i]] BY DEF Wired
<1>2. wire \in Seq({wire[i] : i \in 1 .. Len(wire)}) BY <1>1, IsSequence
<1>3. wire \in Seq(S) BY <1>2, SeqMonotonic
<1>4. m \in S OBVIOUS
<1> HIDE DEF S
<1>5. /\ wire' \in Seq(S) /\ Len(wire') = Len(wire) + 1
      /\ \A i \in 1 .. Len(wire) : wire'[i] = wire[i]
      /\ wire'[Len(wire) + 1] = m
  BY <1>3, <1>4
<1>6. wire' = [i \in 1 .. Len(wire') |-> wire'[i]] BY <1>5, LenProperties
<1>7. ASSUME NEW i \in 1 .. Len(wire')
      PROVE  /\ wire'[i].doc \in Docs /\ wire'[i].op \in {"open", "change", "close", "save"}
             /\ wire'[i].op \in {"open", "change"} => wire'[i].version \in Nat \ {0}
  <2>1. CASE i \in 1 .. Len(wire) BY <1>5, <2>1 DEF Wired
  <2>2. CASE i = Len(wire) + 1 BY <1>5, <2>2
  <2> QED BY <1>1, <1>5, <2>1, <2>2
<1> QED BY <1>1, <1>5, <1>6, <1>7 DEF Wired

\* What is read was the first, and the others move up.
LEMMA Taken ==
  ASSUME Wired, wire # <<>>, wire' = Tail(wire)
  PROVE  /\ Wired' /\ Len(wire) \in Nat \ {0} /\ Len(wire') = Len(wire) - 1
         /\ \A i \in 1 .. Len(wire') : wire'[i] = wire[i + 1]
         /\ Head(wire) = wire[1]
<1> DEFINE S == {wire[i] : i \in 1 .. Len(wire)}
<1>1. Len(wire) \in Nat /\ wire = [i \in 1 .. Len(wire) |-> wire[i]] BY DEF Wired
<1>3. wire \in Seq(S) BY <1>1, IsSequence
<1> HIDE DEF S
<1>4. Len(wire) # 0 /\ Head(wire) = wire[1] BY <1>3
<1>5. /\ wire' \in Seq(S) /\ Len(wire') = Len(wire) - 1
      /\ \A i \in 1 .. Len(wire') : wire'[i] = wire[i + 1]
  BY <1>3, <1>4
<1>6. wire' = [i \in 1 .. Len(wire') |-> wire'[i]] BY <1>5, LenProperties
<1>7. ASSUME NEW i \in 1 .. Len(wire')
      PROVE  /\ wire'[i].doc \in Docs /\ wire'[i].op \in {"open", "change", "close", "save"}
             /\ wire'[i].op \in {"open", "change"} => wire'[i].version \in Nat \ {0}
  <2>1. i + 1 \in 1 .. Len(wire) /\ wire'[i] = wire[i + 1] BY <1>1, <1>5
  <2> QED BY <2>1 DEF Wired
<1> QED BY <1>1, <1>4, <1>5, <1>6, <1>7 DEF Wired

\* How a document's sessions look after something was sent.
LEMMA AppendedViews ==
  ASSUME Wired, NEW m, m.doc \in Docs, m.op \in {"open", "change", "close", "save"},
         m.op \in {"open", "change"} => m.version \in Nat \ {0},
         wire' = Append(wire, m), server' = server, NEW d \in Docs,
         NEW n, n = Len(wire) + 1
  PROVE  /\ \A i \in 0 .. Len(wire) :
              /\ Opens(d, i)' = Opens(d, i) /\ Changes(d, i)' = Changes(d, i)
              /\ Closes(d, i)' = Closes(d, i) /\ Has(d, i)' = Has(d, i)
              /\ Touches(d, i)' = Touches(d, i) /\ Version(d, i)' = Version(d, i)
              /\ \A j \in 0 .. Len(wire) + 1 : Between(d, i, j) => Between(d, i, j)'
              /\ After(d, i) <=> Between(d, i, n)'
              /\ After(d, i)' <=> After(d, i) \/ (m.op = "close" /\ m.doc = d)
         /\ Opens(d, n)' <=> m.op = "open" /\ m.doc = d
         /\ Changes(d, n)' <=> m.op = "change" /\ m.doc = d
         /\ Has(d, n)' <=> m.op = "open" /\ m.doc = d
         /\ Touches(d, n)' <=> m.op \in {"open", "change"} /\ m.doc = d
         /\ Version(d, n)' = m.version
         /\ ~After(d, n)'
         /\ \A i, j \in 0 .. Len(wire) : Between(d, i, j)' = Between(d, i, j)
<1>1. /\ Wired' /\ Len(wire) \in Nat /\ Len(wire') = Len(wire) + 1
      /\ \A i \in 1 .. Len(wire) : wire'[i] = wire[i]
      /\ wire'[Len(wire) + 1] = m
  BY Appended
<1>2. \A i \in 1 .. Len(wire) : Closes(d, i)' = Closes(d, i) BY <1>1 DEF Closes
<1>3. Closes(d, n)' <=> m.op = "close" /\ m.doc = d BY <1>1 DEF Closes
<1>4. \A i : Closes(d, i)' => i \in 1 .. Len(wire) + 1 BY <1>1 DEF Closes
<1>5. \A i : Closes(d, i) => i \in 1 .. Len(wire) BY DEF Closes
<1>6. ASSUME NEW i \in 0 .. Len(wire)
      PROVE  /\ Opens(d, i)' = Opens(d, i) /\ Changes(d, i)' = Changes(d, i)
             /\ Closes(d, i)' = Closes(d, i) /\ Has(d, i)' = Has(d, i)
             /\ Version(d, i)' = Version(d, i)
  <2>1. i \in 1 .. Len(wire') <=> i \in 1 .. Len(wire) BY <1>1
  <2>2. i \in 1 .. Len(wire) => wire'[i] = wire[i] BY <1>1
  <2>3. /\ Opens(d, i)' = Opens(d, i) /\ Changes(d, i)' = Changes(d, i)
        /\ Closes(d, i)' = Closes(d, i)
    BY <2>1, <2>2 DEF Opens, Changes, Closes
  <2>4. Has(d, i)' = Has(d, i) BY <2>3 DEF Has
  <2>5. i # 0 => wire'[i] = wire[i] BY <1>1, <2>2
  <2>6. Version(d, i)' = Version(d, i) BY <2>5 DEF Version
  <2> QED BY <2>3, <2>4, <2>6
<1>7. \A i \in 0 .. Len(wire) : Touches(d, i)' = Touches(d, i) BY <1>6 DEF Touches
<1>8. \A i \in 0 .. Len(wire) :
        /\ \A j \in 0 .. Len(wire) + 1 : Between(d, i, j) => Between(d, i, j)'
        /\ After(d, i) <=> Between(d, i, n)'
        /\ After(d, i)' <=> After(d, i) \/ (m.op = "close" /\ m.doc = d)
  <2> SUFFICES ASSUME NEW i \in 0 .. Len(wire)
               PROVE  /\ \A j \in 0 .. Len(wire) + 1 : Between(d, i, j) => Between(d, i, j)'
                      /\ After(d, i) <=> Between(d, i, n)'
                      /\ After(d, i)' <=> After(d, i) \/ (m.op = "close" /\ m.doc = d)
    OBVIOUS
  <2>1. \A j \in 0 .. Len(wire) + 1 : Between(d, i, j) => Between(d, i, j)'
    BY <1>1, <1>2 DEF Between
  <2>2. After(d, i) => Between(d, i, n)' BY <1>1, <1>2 DEF Between, After
  <2>3. Between(d, i, n)' => After(d, i) BY <1>1, <1>2 DEF Between, After
  <2>4. After(d, i) => After(d, i)' BY <1>1, <1>2 DEF After
  <2>5. m.op = "close" /\ m.doc = d => After(d, i)' BY <1>1, <1>3 DEF After
  <2>6. After(d, i)' => After(d, i) \/ (m.op = "close" /\ m.doc = d)
    BY <1>1, <1>2, <1>3 DEF After
  <2> QED BY <2>1, <2>2, <2>3, <2>4, <2>5, <2>6
<1>9. /\ Opens(d, n)' <=> m.op = "open" /\ m.doc = d
      /\ Changes(d, n)' <=> m.op = "change" /\ m.doc = d
      /\ Version(d, n)' = m.version
  BY <1>1 DEF Opens, Changes, Version
<1>10. /\ Has(d, n)' <=> m.op = "open" /\ m.doc = d
       /\ Touches(d, n)' <=> m.op \in {"open", "change"} /\ m.doc = d
  BY <1>1, <1>9 DEF Has, Touches
<1>11. ~After(d, n)' BY <1>1 DEF After
<1>12. \A i, j \in 0 .. Len(wire) : Between(d, i, j)' = Between(d, i, j)
  BY <1>1, <1>2, <1>4, <1>5 DEF Between
<1> QED BY <1>6, <1>7, <1>8, <1>9, <1>10, <1>11, <1>12

\* Sending keeps sessions apart: an open of what is closed, a change of what is
\* open, with a new version.
LEMMA SendsInTurn ==
  ASSUME SyncInv, link # "closed", NEW m, m.doc \in Docs,
         m.op \in {"open", "change", "close", "save"},
         m.op \in {"open", "change"} => m.version \in Nat \ {0},
         m.op = "open" => ~Known(m.doc),
         m.op = "change" => Known(m.doc) /\ m.version > documents[m.doc].version,
         wire' = Append(wire, m), server' = server, NEW d \in Docs
  PROVE  Sessions(d)'
<1>1. /\ Wired /\ Wired' /\ Len(wire) \in Nat /\ Len(wire') = Len(wire) + 1
      /\ Sessions(d) /\ Latest(d) /\ Versioned(documents) /\ Versioned(server)
  BY Appended DEF SyncInv
<1> SUFFICES ASSUME NEW i \in 0 .. Len(wire) + 1, NEW j \in 1 .. Len(wire) + 1,
                    i < j, Touches(d, i)', ~Between(d, i, j)'
             PROVE  ~Opens(d, j)' /\ (Changes(d, j)' => Version(d, i)' < Version(d, j)')
  BY <1>1 DEF Sessions
<1>2. i \in 0 .. Len(wire) BY <1>1
<1>3. Touches(d, i) /\ ~Between(d, i, j) /\ Version(d, i)' = Version(d, i)
  BY <1>1, <1>2, AppendedViews
<1>4. CASE j \in 1 .. Len(wire)
  <2>1. /\ Opens(d, j)' = Opens(d, j) /\ Changes(d, j)' = Changes(d, j)
        /\ Version(d, j)' = Version(d, j)
    BY <1>1, <1>4, AppendedViews
  <2> QED BY <1>1, <1>2, <1>3, <1>4, <2>1 DEF Sessions
<1>5. CASE j = Len(wire) + 1
  <2>1. ~After(d, i) BY <1>1, <1>2, <1>5, AppendedViews
  <2>2. Known(d) /\ Version(d, i) <= documents[d].version BY <1>1, <1>2, <1>3, <2>1 DEF Latest
  <2>3. /\ Opens(d, j)' <=> m.op = "open" /\ m.doc = d
        /\ Changes(d, j)' <=> m.op = "change" /\ m.doc = d
        /\ Version(d, j)' = m.version
    BY <1>1, <1>5, AppendedViews
  <2>4. Version(d, i) \in Nat
    <3>1. CASE i = 0 BY <1>1, <3>1 DEF Version, Versioned
    <3>2. CASE i # 0
      <4>1. wire[i].op \in {"open", "change"} /\ i \in 1 .. Len(wire)
        BY <1>2, <1>3, <3>2 DEF Touches, Has, Opens, Changes
      <4> QED BY <1>1, <3>2, <4>1 DEF Version, Wired
    <3> QED BY <3>1, <3>2
  <2>5. documents[d].version \in Nat BY <1>1 DEF Versioned
  <2>6. m.op = "change" => m.version \in Nat OBVIOUS
  <2> QED BY <1>3, <2>2, <2>3, <2>4, <2>5, <2>6
<1> QED BY <1>1, <1>4, <1>5

\* Of documents that a notification is not about, nothing is new.
LEMMA OthersLatest ==
  ASSUME SyncInv, link # "closed", NEW m, m.doc \in Docs,
         m.op \in {"open", "change", "close", "save"},
         m.op \in {"open", "change"} => m.version \in Nat \ {0},
         wire' = Append(wire, m), server' = server,
         NEW d \in Docs, d # m.doc \/ m.op = "save",
         documents'[d] = documents[d], d \in sound' => d \in sound
  PROVE  Latest(d)'
<1>1. /\ Wired /\ Wired' /\ Len(wire) \in Nat /\ Len(wire') = Len(wire) + 1
      /\ Latest(d)
  BY Appended DEF SyncInv
<1>2. Known(d)' = Known(d) BY DEF Known
<1>3. PICK n : n = Len(wire) + 1 OBVIOUS
<1>4. \A i \in 0 .. Len(wire) :
        /\ Has(d, i)' = Has(d, i) /\ Touches(d, i)' = Touches(d, i)
        /\ Version(d, i)' = Version(d, i)
        /\ After(d, i)' <=> After(d, i) \/ (m.op = "close" /\ m.doc = d)
  BY <1>1, <1>3, AppendedViews
<1>7. Touches(d, n)' <=> m.op \in {"open", "change"} /\ m.doc = d
  BY <1>1, <1>3, AppendedViews
<1>8. ~(m.op \in {"open", "change", "close"} /\ m.doc = d) OBVIOUS
<1>5. ASSUME NEW i \in 0 .. Len(wire'), Touches(d, i)', ~After(d, i)'
      PROVE  Known(d)' /\ Version(d, i)' <= documents'[d].version
  <2>1. i \in 0 .. Len(wire) BY <1>1, <1>3, <1>5, <1>7, <1>8
  <2> QED BY <1>1, <1>2, <1>4, <1>5, <1>8, <2>1 DEF Latest
<1>6. ASSUME d \in sound' PROVE \E i \in 0 .. Len(wire') : Has(d, i)' /\ ~After(d, i)'
  <2>1. PICK i \in 0 .. Len(wire) : Has(d, i) /\ ~After(d, i) BY <1>1, <1>6 DEF Latest
  <2>2. i \in 0 .. Len(wire') BY <1>1
  <2> QED BY <1>4, <1>8, <2>1, <2>2
<1> QED BY <1>5, <1>6 DEF Latest

----------------------------------------------------------------------------
\* What has been sent stays in session as the manager's copy changes.
LEMMA SessionsStay ==
  ASSUME wire' = wire, server' = server, NEW d \in Docs, Sessions(d)
  PROVE  Sessions(d)'
BY DEF Sessions, Touches, Has, Opens, Changes, Closes, Version, Between

\* When nothing is sent about a document, its copy may only get a later version.
LEMMA LatestStays ==
  ASSUME wire' = wire, server' = server, NEW d \in Docs, Latest(d),
         Versioned(documents), Versioned(server), Wired,
         Known(d) => Known(d)' /\ documents'[d].version \in Nat
                       /\ documents'[d].version >= documents[d].version,
         d \in sound' => d \in sound
  PROVE  Latest(d)'
<1>1. \A i : /\ Touches(d, i)' = Touches(d, i) /\ After(d, i)' = After(d, i)
             /\ Has(d, i)' = Has(d, i) /\ Version(d, i)' = Version(d, i)
  BY DEF Touches, Has, Opens, Changes, Closes, Version, After
<1>2. ASSUME NEW i \in 0 .. Len(wire), Touches(d, i)
      PROVE  Version(d, i) \in Nat
  <2>1. CASE i = 0 BY <2>1 DEF Version, Versioned
  <2>2. CASE i # 0
    <3>1. wire[i].op \in {"open", "change"} /\ i \in 1 .. Len(wire)
      BY <1>2, <2>2 DEF Touches, Has, Opens, Changes
    <3> QED BY <2>2, <3>1 DEF Version, Wired
  <2> QED BY <2>1, <2>2
<1>3. documents[d].version \in Nat BY DEF Versioned
<1>4. ASSUME NEW i \in 0 .. Len(wire'), Touches(d, i)', ~After(d, i)'
      PROVE  Known(d)' /\ Version(d, i)' <= documents'[d].version
  <2>1. i \in 0 .. Len(wire) /\ Touches(d, i) /\ ~After(d, i) BY <1>1, <1>4
  <2>2. Known(d) /\ Version(d, i) <= documents[d].version BY <2>1 DEF Latest
  <2> QED BY <1>1, <1>2, <1>3, <2>1, <2>2
<1>5. d \in sound' => \E i \in 0 .. Len(wire') : Has(d, i)' /\ ~After(d, i)'
  BY <1>1 DEF Latest
<1> QED BY <1>4, <1>5 DEF Latest

\* A call that sends nothing, or whose notification fails.
LEMMA NotSent ==
  ASSUME SyncInv, wire' = wire, server' = server, link' = link,
         Versioned(documents)', sound' \subseteq sound,
         link # "closed" => \A d \in Docs : Known(d) =>
           Known(d)' /\ documents'[d].version >= documents[d].version
  PROVE  SyncInv'
<1>1. Wired' /\ Versioned(server)' BY DEF SyncInv, Wired, Versioned
<1>2. ASSUME NEW d \in Docs PROVE Sessions(d)' BY SessionsStay DEF SyncInv
<1>3. ASSUME NEW d \in Docs, link # "closed" PROVE Latest(d)'
  <2>1. documents'[d].version \in Nat BY DEF Versioned
  <2> QED BY <1>3, <2>1, LatestStays DEF SyncInv
<1> QED BY <1>1, <1>2, <1>3 DEF SyncInv

\* A notification that is sent.
LEMMA IsSent ==
  ASSUME SyncInv, link # "closed", NEW m, m.doc \in Docs,
         m.op \in {"open", "change", "close", "save"},
         m.op \in {"open", "change"} => m.version \in Nat \ {0},
         m.op = "open" => ~Known(m.doc),
         m.op = "change" => Known(m.doc) /\ m.version > documents[m.doc].version,
         wire' = Append(wire, m), server' = server, link' = link,
         Versioned(documents)',
         \A d \in Docs : d # m.doc => documents'[d] = documents[d],
         \A d \in Docs : d # m.doc /\ d \in sound' => d \in sound,
         Latest(m.doc)'
  PROVE  SyncInv'
<1>1. Wired' BY Appended DEF SyncInv
<1>2. Versioned(server)' BY DEF SyncInv, Versioned
<1>3. ASSUME NEW d \in Docs PROVE Sessions(d)' BY SendsInTurn
<1>4. ASSUME NEW d \in Docs PROVE Latest(d)'
  <2>1. CASE d = m.doc BY <2>1
  <2>2. CASE d # m.doc BY <2>2, OthersLatest
  <2> QED BY <2>1, <2>2
<1> QED BY <1>1, <1>2, <1>3, <1>4 DEF SyncInv

\* A document is opened (TextDocumentSyncManager.Open).
LEMMA OpenKeeps ==
  ASSUME SyncInv, NEW d \in Docs, NEW text, Open(d, text)
  PROVE  SyncInv'
<1> DEFINE new == [version |-> 1, text |-> text]
<1>1. PICK m : m = [op |-> "open", doc |-> d, version |-> 1, text |-> text] OBVIOUS
<1>2. /\ m.op = "open" /\ m.doc = d /\ m.version = 1 BY <1>1
<1>3. /\ ~Known(d) /\ Sent(m, TRUE) /\ server' = server /\ link' = link
      /\ documents' = [documents EXCEPT ![d] = new]
  BY <1>1 DEF Open
<1>4. /\ new # Absent /\ new.version = 1 BY DEF Absent
<1> HIDE DEF new
<1>5. /\ documents = [e \in Docs |-> documents[e]]
      /\ \A e \in Docs : documents[e].version \in Nat
                         /\ (documents[e] # Absent => documents[e].version # 0)
  BY DEF SyncInv, Versioned
<1>6. documents'[d] = new /\ \A e \in Docs : e # d => documents'[e] = documents[e]
  BY <1>3, <1>5
<1>7. Versioned(documents)'
  <2>1. documents' = [e \in Docs |-> documents'[e]] BY <1>3, <1>5
  <2> QED BY <1>4, <1>5, <1>6, <2>1 DEF Versioned
<1>8. CASE wire' = wire /\ sound' = sound \ {d}
  <2>1. \A e \in Docs : Known(e) => Known(e)' /\ documents'[e].version >= documents[e].version
    BY <1>3, <1>5, <1>6 DEF Known
  <2> QED BY <1>3, <1>7, <1>8, <2>1, NotSent
<1>9. CASE link # "closed" /\ wire' = Append(wire, m) /\ sound' = sound \cup {d}
  <2>1. Latest(d)'
    <3>1. PICK n : n = Len(wire) + 1 OBVIOUS
    <3>2. Wired /\ Len(wire) \in Nat /\ Len(wire') = n /\ Latest(d)
      BY <1>2, <1>9, <3>1, Appended DEF SyncInv
    <3>3. /\ \A i \in 0 .. Len(wire) :
               Touches(d, i)' = Touches(d, i) /\ (After(d, i) => After(d, i)')
          /\ Has(d, n)' /\ ~After(d, n)' /\ Version(d, n)' = 1
      BY <1>2, <1>3, <1>9, <3>1, <3>2, AppendedViews
    <3>4. ASSUME NEW i \in 0 .. n, Touches(d, i)', ~After(d, i)' PROVE i = n
      BY <1>3, <3>1, <3>2, <3>3, <3>4 DEF Latest
    <3>5. Known(d)' /\ documents'[d].version = 1 BY <1>4, <1>6 DEF Known
    <3>6. ASSUME NEW i \in 0 .. n, Touches(d, i)', ~After(d, i)'
          PROVE  Known(d)' /\ Version(d, i)' <= documents'[d].version
      BY <3>3, <3>4, <3>5, <3>6
    <3>7. n \in 0 .. n BY <3>1, <3>2
    <3> QED BY <3>2, <3>3, <3>6, <3>7 DEF Latest
  <2>2. \A e \in Docs : e # m.doc => documents'[e] = documents[e] BY <1>2, <1>6
  <2>3. \A e \in Docs : e # m.doc /\ e \in sound' => e \in sound BY <1>2, <1>9
  <2>4. /\ m.doc \in Docs /\ m.op \in {"open", "change", "close", "save"}
        /\ m.op \in {"open", "change"} => m.version \in Nat \ {0}
        /\ m.op = "open" => ~Known(m.doc)
        /\ m.op # "change"
    BY <1>2, <1>3
  <2>5. Latest(m.doc)' BY <1>2, <2>1
  <2> QED BY <1>3, <1>7, <1>9, <2>2, <2>3, <2>4, <2>5, IsSent
<1>10. \/ wire' = wire /\ sound' = sound \ {d}
       \/ link # "closed" /\ wire' = Append(wire, m) /\ sound' = sound \cup {d}
  BY <1>2, <1>3 DEF Sent
<1> QED BY <1>8, <1>9, <1>10

\* A changed document is known, and its version is the next.
LEMMA Changed ==
  ASSUME SyncInv, NEW d \in Docs, Known(d), NEW text,
         documents' = [documents EXCEPT ![d] = [version |-> @.version + 1, text |-> text]]
  PROVE  /\ Versioned(documents)' /\ documents[d].version \in Nat
         /\ Known(d)' /\ documents'[d].version = documents[d].version + 1
         /\ \A e \in Docs : e # d => documents'[e] = documents[e]
<1>1. /\ documents = [e \in Docs |-> documents[e]]
      /\ \A e \in Docs : documents[e].version \in Nat
                         /\ (documents[e] # Absent => documents[e].version # 0)
  BY DEF SyncInv, Versioned
<1>2. PICK new : new = [version |-> documents[d].version + 1, text |-> text] OBVIOUS
<1>3. /\ documents' = [documents EXCEPT ![d] = new]
      /\ new.version = documents[d].version + 1
  BY <1>1, <1>2
<1>4. new # Absent /\ new.version \in Nat /\ new.version # 0 BY <1>1, <1>2 DEF Absent
<1>5. documents'[d] = new /\ \A e \in Docs : e # d => documents'[e] = documents[e]
  BY <1>1, <1>3
<1>6. documents' = [e \in Docs |-> documents'[e]] BY <1>1, <1>3
<1> QED BY <1>1, <1>3, <1>4, <1>5, <1>6 DEF Versioned, Known

\* A change that is applied (Change, when no event of it is refused).
LEMMA ApplyKeeps ==
  ASSUME SyncInv, NEW d \in Docs, Known(d), NEW text, NEW edits,
         Apply(d, text, edits), UNCHANGED <<kind, link, server>>
  PROVE  SyncInv'
<1>1. PICK m : m = [op |-> "change", doc |-> d, version |-> documents[d].version + 1,
                    edits |-> edits]
  OBVIOUS
<1>2. m.op = "change" /\ m.doc = d /\ m.version = documents[d].version + 1 BY <1>1
<1>3. /\ Sent(m, TRUE) /\ server' = server /\ link' = link
      /\ documents' = [documents EXCEPT ![d] = [version |-> @.version + 1, text |-> text]]
  BY <1>1 DEF Apply
<1>4. /\ Versioned(documents)' /\ documents[d].version \in Nat
      /\ Known(d)' /\ documents'[d].version = documents[d].version + 1
      /\ \A e \in Docs : e # d => documents'[e] = documents[e]
  BY <1>3, Changed
<1>5. CASE wire' = wire /\ sound' = sound \ {d}
  <2>1. \A e \in Docs : Known(e) => Known(e)' /\ documents'[e].version >= documents[e].version
    <3> SUFFICES ASSUME NEW e \in Docs, Known(e)
                 PROVE  Known(e)' /\ documents'[e].version >= documents[e].version
      OBVIOUS
    <3>1. documents[e].version \in Nat BY DEF SyncInv, Versioned
    <3> QED BY <1>4, <3>1 DEF Known
  <2> QED BY <1>3, <1>4, <1>5, <2>1, NotSent
<1>6. CASE link # "closed" /\ wire' = Append(wire, m) /\ sound' = sound
  <2>1. m.version \in Nat \ {0} /\ m.version > documents[d].version BY <1>2, <1>4
  <2>2. Latest(d)'
    <3>1. PICK n : n = Len(wire) + 1 OBVIOUS
    <3>2. Wired /\ Len(wire) \in Nat /\ Len(wire') = n /\ Latest(d)
      BY <1>2, <1>6, <2>1, <3>1, Appended DEF SyncInv
    <3>3. /\ \A i \in 0 .. Len(wire) :
               /\ Touches(d, i)' = Touches(d, i) /\ Has(d, i)' = Has(d, i)
               /\ After(d, i)' <=> After(d, i) \/ (m.op = "close" /\ m.doc = d)
               /\ Version(d, i)' = Version(d, i)
          /\ Version(d, n)' = m.version
      BY <1>2, <1>3, <1>6, <2>1, <3>1, <3>2, AppendedViews
    <3>4. ASSUME NEW i \in 0 .. n, Touches(d, i)', ~After(d, i)'
          PROVE  Version(d, i)' <= documents'[d].version
      <4>1. CASE i = n BY <1>2, <1>4, <3>3, <4>1
      <4>2. CASE i \in 0 .. Len(wire)
        <5>1. Version(d, i) <= documents[d].version BY <3>2, <3>3, <3>4, <4>2 DEF Latest
        <5>2. Version(d, i) \in Nat
          <6>1. Touches(d, i) /\ Wired /\ Versioned(server) BY <3>3, <3>4, <4>2 DEF SyncInv
          <6>2. i # 0 => i \in 1 .. Len(wire) /\ wire[i].op \in {"open", "change"}
            BY <4>2, <6>1 DEF Touches, Has, Opens, Changes
          <6>3. i # 0 => wire[i].version \in Nat BY <6>1, <6>2 DEF Wired
          <6>4. server[d].version \in Nat BY <6>1 DEF Versioned
          <6> QED BY <6>3, <6>4 DEF Version
        <5> QED BY <1>4, <3>3, <4>2, <5>1, <5>2
      <4> QED BY <3>1, <3>2, <4>1, <4>2
    <3>5. d \in sound' => \E i \in 0 .. n : Has(d, i)' /\ ~After(d, i)'
      <4> SUFFICES ASSUME d \in sound PROVE \E i \in 0 .. n : Has(d, i)' /\ ~After(d, i)'
        BY <1>6
      <4>1. PICK i \in 0 .. Len(wire) : Has(d, i) /\ ~After(d, i) BY <3>2 DEF Latest
      <4>2. i \in 0 .. n BY <3>1, <3>2
      <4> QED BY <1>2, <3>3, <4>1, <4>2
    <3> QED BY <1>4, <3>2, <3>4, <3>5 DEF Latest
  <2>3. \A e \in Docs : e # m.doc => documents'[e] = documents[e] BY <1>2, <1>4
  <2>4. \A e \in Docs : e # m.doc /\ e \in sound' => e \in sound BY <1>6
  <2>5. /\ m.doc \in Docs /\ m.op \in {"open", "change", "close", "save"}
        /\ m.op \in {"open", "change"} => m.version \in Nat \ {0}
        /\ m.op # "open"
        /\ m.op = "change" => Known(m.doc) /\ m.version > documents[m.doc].version
    BY <1>2, <2>1
  <2>6. Latest(m.doc)' BY <1>2, <2>2
  <2> QED BY <1>3, <1>4, <1>6, <2>3, <2>4, <2>5, <2>6, IsSent
<1>7. \/ wire' = wire /\ sound' = sound \ {d}
      \/ link # "closed" /\ wire' = Append(wire, m) /\ sound' = sound
  BY <1>2, <1>3 DEF Sent
<1> QED BY <1>5, <1>6, <1>7

\* A change of several events (TextDocumentSyncManager.Change). When one of
\* them is refused, the manager's text is changed but its version is not.
LEMMA ChangePartsKeeps ==
  ASSUME SyncInv, NEW d \in Docs, NEW edits, ChangeParts(d, edits)
  PROVE  SyncInv'
<1>1. PICK after : after = AppliedInTurn(documents[d].text, edits) OBVIOUS
<1>2. /\ Known(d) /\ UNCHANGED <<kind, link, server>>
      /\ IF after.ok THEN Apply(d, after.text, edits)
         ELSE /\ documents' = [documents EXCEPT ![d].text = after.text]
              /\ sound' = sound \ {d}
              /\ UNCHANGED wire
  BY <1>1 DEF ChangeParts
<1>3. CASE after.ok BY <1>2, <1>3, ApplyKeeps
<1>4. CASE ~after.ok
  <2>1. /\ documents = [e \in Docs |-> documents[e]]
        /\ \A e \in Docs : documents[e].version \in Nat
                           /\ (documents[e] # Absent => documents[e].version # 0)
    BY DEF SyncInv, Versioned
  <2>2. documents' = [documents EXCEPT ![d].text = after.text] BY <1>2, <1>4
  <2>3. documents'[d] = [documents[d] EXCEPT !.text = after.text] BY <2>1, <2>2
  <2>4. documents[d].version # 0 BY <1>2, <2>1 DEF Known
  <2>5. documents'[d].version = documents[d].version
    BY <2>3
  <2>6. documents'[d] # Absent BY <2>4, <2>5 DEF Absent
  <2>7. documents' = [e \in Docs |-> documents'[e]] BY <2>1, <2>2
  <2>8. \A e \in Docs : e # d => documents'[e] = documents[e] BY <2>1, <2>2
  <2>9. Versioned(documents)' BY <2>1, <2>4, <2>5, <2>7, <2>8 DEF Versioned
  <2>10. \A e \in Docs : Known(e) => Known(e)' /\ documents'[e].version >= documents[e].version
    BY <2>1, <2>5, <2>6, <2>8 DEF Known
  <2> QED BY <1>2, <1>4, <2>9, <2>10, NotSent
<1> QED BY <1>3, <1>4

\* A document is closed (TextDocumentSyncManager.Close).
LEMMA CloseKeeps == ASSUME SyncInv, NEW d \in Docs, Close(d) PROVE SyncInv'
<1>1. PICK m : m = [op |-> "close", doc |-> d] OBVIOUS
<1>2. m.op = "close" /\ m.doc = d BY <1>1
<1>3. /\ documents' = [documents EXCEPT ![d] = Absent]
      /\ link' = link /\ server' = server /\ sound' = sound \ {d}
      /\ \/ link = "closed" /\ wire' = wire
         \/ link # "closed" /\ wire' = Append(wire, m)
  BY <1>1 DEF Close
<1>4. /\ documents = [e \in Docs |-> documents[e]]
      /\ \A e \in Docs : documents[e].version \in Nat
                         /\ (documents[e] # Absent => documents[e].version # 0)
  BY DEF SyncInv, Versioned
<1>5. documents'[d] = Absent /\ \A e \in Docs : e # d => documents'[e] = documents[e]
  BY <1>3, <1>4
<1>6. Versioned(documents)'
  <2>1. documents' = [e \in Docs |-> documents'[e]] BY <1>3, <1>4
  <2>2. Absent.version = 0 BY DEF Absent
  <2> QED BY <1>4, <1>5, <2>1, <2>2 DEF Versioned
<1>7. CASE link = "closed" /\ wire' = wire BY <1>3, <1>6, <1>7, NotSent
<1>8. CASE link # "closed" /\ wire' = Append(wire, m)
  <2>1. Latest(d)'
    <3>1. PICK n : n = Len(wire) + 1 OBVIOUS
    <3>2. Wired /\ Len(wire) \in Nat /\ Len(wire') = n
      BY <1>2, <1>8, <3>1, Appended DEF SyncInv
    <3>3. /\ \A i \in 0 .. Len(wire) :
               After(d, i)' <=> After(d, i) \/ (m.op = "close" /\ m.doc = d)
          /\ Touches(d, n)' <=> m.op \in {"open", "change"} /\ m.doc = d
      BY <1>2, <1>3, <1>8, <3>1, <3>2, AppendedViews
    <3>4. \A i \in 0 .. n : Touches(d, i)' => After(d, i)' BY <1>2, <3>1, <3>2, <3>3
    <3>5. d \notin sound' BY <1>3
    <3> QED BY <3>2, <3>4, <3>5 DEF Latest
  <2>2. \A e \in Docs : e # m.doc => documents'[e] = documents[e] BY <1>2, <1>5
  <2>3. \A e \in Docs : e # m.doc /\ e \in sound' => e \in sound BY <1>3
  <2>4. m.doc \in Docs /\ m.op \in {"open", "change", "close", "save"}
        /\ m.op \notin {"open", "change"}
    BY <1>2
  <2>5. Latest(m.doc)' BY <1>2, <2>1
  <2> QED BY <1>3, <1>6, <1>8, <2>2, <2>3, <2>4, <2>5, IsSent
<1> QED BY <1>3, <1>7, <1>8

\* A document is saved (TextDocumentSyncManager.Save).
LEMMA SaveKeeps == ASSUME SyncInv, NEW d \in Docs, Save(d) PROVE SyncInv'
<1>1. PICK m : m = [op |-> "save", doc |-> d, text |-> documents[d].text] OBVIOUS
<1>2. m.op = "save" /\ m.doc = d BY <1>1
<1>3. /\ Sent(m, FALSE) /\ documents' = documents /\ server' = server /\ link' = link
  BY <1>1 DEF Save
<1>4. Versioned(documents)' BY <1>3 DEF SyncInv, Versioned
<1>5. CASE wire' = wire /\ sound' = sound \ {d}
  <2>1. \A e \in Docs : Known(e) => Known(e)' /\ documents'[e].version >= documents[e].version
    BY <1>3 DEF Known, SyncInv, Versioned
  <2> QED BY <1>3, <1>4, <1>5, <2>1, NotSent
<1>6. CASE link # "closed" /\ wire' = Append(wire, m) /\ sound' = sound
  <2>1. /\ m.doc \in Docs /\ m.op \in {"open", "change", "close", "save"}
        /\ m.op \notin {"open", "change"}
    BY <1>2
  <2>2. Latest(d)' BY <1>2, <1>3, <1>6, <2>1, OthersLatest
  <2>3. Latest(m.doc)' BY <1>2, <2>2
  <2> QED BY <1>3, <1>4, <1>6, <2>1, <2>3, IsSent
<1>7. \/ wire' = wire /\ sound' = sound \ {d}
      \/ link # "closed" /\ wire' = Append(wire, m) /\ sound' = sound
  BY <1>2, <1>3 DEF Sent
<1> QED BY <1>5, <1>6, <1>7

\* The client is initialized, or its connection ends.
LEMMA LinkKeeps == ASSUME SyncInv, Initialize \/ Lose PROVE SyncInv'
<1>1. Versioned(documents)' /\ Versioned(server)' BY DEF Initialize, Lose, SyncInv, Versioned
<1>2. CASE Initialize
  <2>1. Wired' BY <1>2 DEF Initialize, SyncInv, Wired
  <2>2. ASSUME NEW d \in Docs PROVE Sessions(d)' /\ Latest(d)'
    <3>1. Sessions(d) /\ Latest(d) BY <1>2 DEF SyncInv, Initialize
    <3>2. Sessions(d)' BY <1>2, <3>1, SessionsStay DEF Initialize
    <3>3. Known(d)' = Known(d) /\ documents' = documents BY <1>2 DEF Initialize, Known
    <3>4. documents[d].version \in Nat BY DEF SyncInv, Versioned
    <3>5. Latest(d)' BY <1>2, <3>1, <3>3, <3>4, LatestStays DEF Initialize, SyncInv
    <3> QED BY <3>2, <3>5
  <2> QED BY <1>1, <1>2, <2>1, <2>2 DEF Initialize, SyncInv
<1>3. CASE Lose
  <2>1. wire' = <<>> /\ Len(wire') = 0 /\ link' = "closed" BY <1>3 DEF Lose
  <2>2. Wired' BY <2>1 DEF Wired
  <2>3. \A d \in Docs : Sessions(d)' BY <2>1 DEF Sessions
  <2> QED BY <1>1, <2>1, <2>2, <2>3 DEF SyncInv
<1> QED BY <1>2, <1>3

----------------------------------------------------------------------------
\* How a document's sessions look after the first notification was read.
LEMMA TakenViews ==
  ASSUME Wired, wire # <<>>, wire' = Tail(wire), NEW d \in Docs
  PROVE  /\ \A i \in 1 .. Len(wire') :
              /\ Opens(d, i)' = Opens(d, i + 1) /\ Changes(d, i)' = Changes(d, i + 1)
              /\ Closes(d, i)' = Closes(d, i + 1) /\ Version(d, i)' = Version(d, i + 1)
              /\ Has(d, i)' = Has(d, i + 1) /\ Touches(d, i)' = Touches(d, i + 1)
         /\ \A i, j \in 0 .. Len(wire') :
              Between(d, i, j)' = Between(d, i + 1, j + 1)
         /\ \A i \in 0 .. Len(wire') : After(d, i)' = After(d, i + 1)
<1>1. /\ Len(wire) \in Nat \ {0} /\ Len(wire') = Len(wire) - 1
      /\ \A i \in 1 .. Len(wire') : wire'[i] = wire[i + 1]
  BY Taken
<1>2. ASSUME NEW i \in 1 .. Len(wire')
      PROVE  /\ Opens(d, i)' = Opens(d, i + 1) /\ Changes(d, i)' = Changes(d, i + 1)
             /\ Closes(d, i)' = Closes(d, i + 1) /\ Version(d, i)' = Version(d, i + 1)
             /\ Has(d, i)' = Has(d, i + 1) /\ Touches(d, i)' = Touches(d, i + 1)
  <2>1. i + 1 \in 1 .. Len(wire) /\ i # 0 /\ i + 1 # 0 /\ wire'[i] = wire[i + 1] BY <1>1
  <2>2. /\ Opens(d, i)' = Opens(d, i + 1) /\ Changes(d, i)' = Changes(d, i + 1)
        /\ Closes(d, i)' = Closes(d, i + 1) /\ Version(d, i)' = Version(d, i + 1)
    BY <2>1 DEF Opens, Changes, Closes, Version
  <2>3. Has(d, i)' = Has(d, i + 1) BY <2>1, <2>2 DEF Has
  <2> QED BY <2>2, <2>3 DEF Touches
<1>3. \A k \in 1 .. Len(wire) : k # 1 => k - 1 \in 1 .. Len(wire') BY <1>1
<1>4. ASSUME NEW i \in 0 .. Len(wire') PROVE After(d, i)' = After(d, i + 1)
  <2>1. ASSUME After(d, i)' PROVE After(d, i + 1)
    <3>1. PICK k \in 1 .. Len(wire') : i < k /\ Closes(d, k)' BY <2>1 DEF After
    <3>2. k + 1 \in 1 .. Len(wire) /\ Closes(d, k + 1) /\ i + 1 < k + 1
      BY <1>1, <1>2, <3>1
    <3> QED BY <3>2 DEF After
  <2>2. ASSUME After(d, i + 1) PROVE After(d, i)'
    <3>1. PICK k \in 1 .. Len(wire) : i + 1 < k /\ Closes(d, k) BY <2>2 DEF After
    <3>2. PICK l : l = k - 1 OBVIOUS
    <3>3. l \in 1 .. Len(wire') /\ l + 1 = k /\ i < l BY <1>1, <3>1, <3>2
    <3>4. Closes(d, l)' BY <1>2, <3>1, <3>3
    <3> QED BY <3>3, <3>4 DEF After
  <2>3. After(d, i)' \in BOOLEAN /\ After(d, i + 1) \in BOOLEAN BY DEF After
  <2> QED BY <2>1, <2>2, <2>3
<1>5. ASSUME NEW i \in 0 .. Len(wire'), NEW j \in 0 .. Len(wire')
      PROVE  Between(d, i, j)' = Between(d, i + 1, j + 1)
  <2>1. ASSUME Between(d, i, j)' PROVE Between(d, i + 1, j + 1)
    <3>1. PICK k \in 1 .. Len(wire') : i < k /\ k < j /\ Closes(d, k)' BY <2>1 DEF Between
    <3>2. k + 1 \in 1 .. Len(wire) /\ Closes(d, k + 1) /\ i + 1 < k + 1 /\ k + 1 < j + 1
      BY <1>1, <1>2, <3>1
    <3> QED BY <3>2 DEF Between
  <2>2. ASSUME Between(d, i + 1, j + 1) PROVE Between(d, i, j)'
    <3>1. PICK k \in 1 .. Len(wire) : i + 1 < k /\ k < j + 1 /\ Closes(d, k)
      BY <2>2 DEF Between
    <3>2. PICK l : l = k - 1 OBVIOUS
    <3>3. l \in 1 .. Len(wire') /\ l + 1 = k /\ i < l /\ l < j BY <1>1, <3>1, <3>2
    <3>4. Closes(d, l)' BY <1>2, <3>1, <3>3
    <3> QED BY <3>3, <3>4 DEF Between
  <2>3. Between(d, i, j)' \in BOOLEAN /\ Between(d, i + 1, j + 1) \in BOOLEAN
    BY DEF Between
  <2> QED BY <2>1, <2>2, <2>3
<1> QED BY <1>2, <1>4, <1>5

\* What the server has of a document after it has read a notification: what it
\* had, nothing after a close, or the version that was sent.
LEMMA ReadEffect ==
  ASSUME SyncInv, Read
  PROVE  /\ Wired /\ wire # <<>> /\ wire' = Tail(wire) /\ Versioned(server)'
         /\ link' = link /\ documents' = documents /\ sound' = sound
         /\ \A d \in Docs :
              \/ /\ server'[d] = server[d]
                 /\ ~Opens(d, 1) /\ (Changes(d, 1) => server[d] = Absent)
                 /\ (Closes(d, 1) => server[d] = Absent)
              \/ Closes(d, 1) /\ server'[d] = Absent
              \/ /\ Opens(d, 1) \/ (Changes(d, 1) /\ server[d] # Absent)
                 /\ server'[d] # Absent /\ server'[d].version = wire[1].version
<1>1. /\ Wired /\ wire # <<>> /\ wire' = Tail(wire) /\ Versioned(server)
      /\ link' = link /\ documents' = documents /\ sound' = sound
  BY DEF Read, SyncInv
<1>2. PICK m : m = Head(wire) OBVIOUS
<1>3. /\ m = wire[1] /\ 1 \in 1 .. Len(wire) /\ Len(wire) \in Nat BY <1>1, <1>2, Taken
<1>4. /\ m.doc \in Docs /\ m.op \in {"open", "change", "close", "save"}
      /\ m.op \in {"open", "change"} => m.version \in Nat \ {0}
  BY <1>1, <1>3 DEF Wired
<1>5. /\ server = [d \in Docs |-> server[d]]
      /\ \A d \in Docs : server[d].version \in Nat
                         /\ (server[d] # Absent => server[d].version # 0)
  BY <1>1 DEF Versioned
<1>6. \A d \in Docs : /\ Opens(d, 1) <=> m.op = "open" /\ m.doc = d
                      /\ Changes(d, 1) <=> m.op = "change" /\ m.doc = d
                      /\ Closes(d, 1) <=> m.op = "close" /\ m.doc = d
  BY <1>3 DEF Opens, Changes, Closes
<1>7. CASE m.op = "open" \/ (m.op = "change" /\ server[m.doc] # Absent)
  <2>1. PICK new : /\ server' = [server EXCEPT ![m.doc] = new] /\ new.version = m.version
                   /\ new # Absent
    <3>1. CASE m.op = "open"
      <4>1. PICK new : new = [version |-> m.version, text |-> m.text] OBVIOUS
      <4>2. new.version = m.version BY <4>1
      <4>3. new # Absent BY <1>4, <3>1, <4>2 DEF Absent
      <4>4. server' = [server EXCEPT ![m.doc] = new] BY <1>2, <3>1, <4>1 DEF Read
      <4> QED BY <4>2, <4>3, <4>4
    <3>2. CASE m.op = "change" /\ server[m.doc] # Absent
      <4>1. PICK new : new = [version |-> m.version,
                              text |-> EditedInTurn(server[m.doc].text, m.edits)]
        OBVIOUS
      <4>2. new.version = m.version BY <4>1
      <4>3. new # Absent BY <1>4, <3>2, <4>2 DEF Absent
      <4>4. server' = [server EXCEPT ![m.doc] = new]
        BY <1>2, <1>4, <1>5, <3>2, <4>1 DEF Read
      <4> QED BY <4>2, <4>3, <4>4
    <3> QED BY <1>7, <3>1, <3>2
  <2>2. /\ server'[m.doc] = new /\ \A d \in Docs : d # m.doc => server'[d] = server[d]
        /\ server' = [d \in Docs |-> server'[d]]
    BY <1>4, <1>5, <2>1
  <2>3. Versioned(server)' BY <1>4, <1>5, <1>7, <2>1, <2>2 DEF Versioned
  <2> QED BY <1>1, <1>3, <1>6, <1>7, <2>1, <2>2, <2>3
<1>8. CASE m.op = "close"
  <2>1. server' = [server EXCEPT ![m.doc] = Absent] BY <1>2, <1>8 DEF Read
  <2>2. /\ server'[m.doc] = Absent /\ \A d \in Docs : d # m.doc => server'[d] = server[d]
        /\ server' = [d \in Docs |-> server'[d]]
    BY <1>4, <1>5, <2>1
  <2>3. Absent.version = 0 BY DEF Absent
  <2>4. Versioned(server)' BY <1>5, <2>2, <2>3 DEF Versioned
  <2> QED BY <1>1, <1>6, <1>8, <2>2, <2>4
<1>9. CASE m.op = "save" \/ (m.op = "change" /\ server[m.doc] = Absent)
  <2>1. server' = server BY <1>2, <1>9 DEF Read
  <2>2. Versioned(server)' BY <1>5, <2>1 DEF Versioned
  <2> QED BY <1>1, <1>6, <1>9, <2>1, <2>2
<1> QED BY <1>4, <1>7, <1>8, <1>9

\* The server has a document after reading if it had it or opens it, and only
\* what is not closed by what it read.
LEMMA HadBefore ==
  ASSUME SyncInv, Read, NEW d \in Docs
  PROVE  /\ Has(d, 0)' => \E i \in 0 .. 1 : /\ Touches(d, i) /\ Version(d, 0)' = Version(d, i)
                                            /\ i = 0 => ~Closes(d, 1)
         /\ \A i \in 0 .. 1 : Has(d, i) /\ ~Closes(d, 1) => Has(d, 0)'
         /\ ~Changes(d, 0)'
<1>1. Wired /\ wire # <<>> /\ Len(wire) \in Nat \ {0} BY Taken, ReadEffect
<1>2. /\ Has(d, 0) <=> server[d] # Absent
      /\ Has(d, 0)' <=> server'[d] # Absent
      /\ Has(d, 1) <=> Opens(d, 1)
      /\ ~Changes(d, 0) /\ ~Changes(d, 0)' /\ ~Opens(d, 0) /\ ~Opens(d, 0)'
  BY DEF Has, Opens, Changes
<1>3. /\ Version(d, 0) = server[d].version /\ Version(d, 0)' = server'[d].version
      /\ Version(d, 1) = wire[1].version
  BY DEF Version
<1>4. ~(Opens(d, 1) /\ Closes(d, 1)) /\ ~(Changes(d, 1) /\ Closes(d, 1))
  BY DEF Opens, Changes, Closes
<1>5. \/ /\ server'[d] = server[d]
         /\ ~Opens(d, 1) /\ (Changes(d, 1) => server[d] = Absent)
         /\ (Closes(d, 1) => server[d] = Absent)
      \/ Closes(d, 1) /\ server'[d] = Absent
      \/ /\ Opens(d, 1) \/ (Changes(d, 1) /\ server[d] # Absent)
         /\ server'[d] # Absent /\ server'[d].version = wire[1].version
  BY ReadEffect
<1>6. Has(d, 0)' => \E i \in 0 .. 1 : /\ Touches(d, i) /\ Version(d, 0)' = Version(d, i)
                                      /\ i = 0 => ~Closes(d, 1)
  BY <1>2, <1>3, <1>4, <1>5 DEF Touches
<1>7. \A i \in 0 .. 1 : Has(d, i) /\ ~Closes(d, 1) => Has(d, 0)'
  BY <1>2, <1>5
<1> QED BY <1>2, <1>6, <1>7

\* The server reads a notification.
LEMMA ReadKeeps == ASSUME SyncInv, Read PROVE SyncInv'
<1>1. /\ Wired /\ wire # <<>> /\ wire' = Tail(wire) /\ Versioned(server)'
      /\ link' = link /\ documents' = documents /\ sound' = sound /\ link # "closed"
  BY ReadEffect DEF SyncInv
<1>2. /\ Wired' /\ Len(wire) \in Nat \ {0} /\ Len(wire') = Len(wire) - 1
  BY <1>1, Taken
<1>3. ASSUME NEW d \in Docs PROVE Sessions(d)'
  <2>1. Sessions(d) BY DEF SyncInv
  <2> SUFFICES ASSUME NEW i \in 0 .. Len(wire'), NEW j \in 1 .. Len(wire'),
                      i < j, Touches(d, i)', ~Between(d, i, j)'
               PROVE  ~Opens(d, j)' /\ (Changes(d, j)' => Version(d, i)' < Version(d, j)')
    BY DEF Sessions
  <2>2. /\ Opens(d, j)' = Opens(d, j + 1) /\ Changes(d, j)' = Changes(d, j + 1)
        /\ Version(d, j)' = Version(d, j + 1) /\ ~Between(d, i + 1, j + 1)
        /\ j + 1 \in 1 .. Len(wire)
    BY <1>1, <1>2, TakenViews
  <2>3. CASE i \in 1 .. Len(wire')
    <3>1. /\ Touches(d, i + 1) /\ Version(d, i)' = Version(d, i + 1)
          /\ i + 1 \in 0 .. Len(wire) /\ i + 1 < j + 1
      BY <1>1, <1>2, <2>3, TakenViews
    <3> QED BY <2>1, <2>2, <3>1 DEF Sessions
  <2>4. CASE i = 0
    <3>1. Has(d, 0)' BY <2>4, HadBefore DEF Touches
    <3>2. PICK h \in 0 .. 1 : /\ Touches(d, h) /\ Version(d, 0)' = Version(d, h)
                              /\ h = 0 => ~Closes(d, 1)
      BY <3>1, HadBefore
    <3>3. ~Between(d, h, j + 1)
      <4>1. ~Between(d, 1, j + 1) BY <2>2, <2>4
      <4>2. \A k \in 1 .. Len(wire) : 0 < k /\ k # 1 => 1 < k BY <1>2
      <4> QED BY <3>2, <4>1, <4>2 DEF Between
    <3>4. h \in 0 .. Len(wire) /\ h < j + 1 BY <1>2
    <3> QED BY <2>1, <2>2, <2>4, <3>2, <3>3, <3>4 DEF Sessions
  <2> QED BY <1>2, <2>3, <2>4
<1>4. ASSUME NEW d \in Docs PROVE Latest(d)'
  <2>1. Latest(d) /\ Known(d)' = Known(d) BY <1>1 DEF SyncInv, Known
  <2>2. ASSUME NEW i \in 0 .. Len(wire'), Touches(d, i)', ~After(d, i)'
        PROVE  Known(d)' /\ Version(d, i)' <= documents'[d].version
    <3>1. ~After(d, i + 1) BY <1>1, <2>2, TakenViews
    <3>2. CASE i \in 1 .. Len(wire')
      <4>1. /\ Touches(d, i + 1) /\ Version(d, i)' = Version(d, i + 1)
            /\ i + 1 \in 0 .. Len(wire)
        BY <1>1, <1>2, <2>2, <3>2, TakenViews
      <4> QED BY <1>1, <2>1, <3>1, <4>1 DEF Latest
    <3>3. CASE i = 0
      <4>1. Has(d, 0)' BY <2>2, <3>3, HadBefore DEF Touches
      <4>2. PICK h \in 0 .. 1 : /\ Touches(d, h) /\ Version(d, 0)' = Version(d, h)
                                /\ h = 0 => ~Closes(d, 1)
        BY <4>1, HadBefore
      <4>3. ~After(d, h)
        <5>1. ~After(d, 1) BY <3>1, <3>3
        <5>2. \A k \in 1 .. Len(wire) : 0 < k /\ k # 1 => 1 < k BY <1>2
        <5> QED BY <4>2, <5>1, <5>2 DEF After
      <4>4. h \in 0 .. Len(wire) BY <1>2
      <4> QED BY <1>1, <2>1, <3>3, <4>2, <4>3, <4>4 DEF Latest
    <3> QED BY <1>2, <3>2, <3>3
  <2>3. ASSUME d \in sound' PROVE \E i \in 0 .. Len(wire') : Has(d, i)' /\ ~After(d, i)'
    <3>1. PICK i \in 0 .. Len(wire) : Has(d, i) /\ ~After(d, i) BY <1>1, <2>1, <2>3 DEF Latest
    <3>2. CASE i \in 2 .. Len(wire)
      <4>1. PICK h : h = i - 1 OBVIOUS
      <4>2. h \in 1 .. Len(wire') /\ h + 1 = i /\ h \in 0 .. Len(wire') BY <1>2, <3>2, <4>1
      <4>3. Has(d, h)' /\ ~After(d, h)' BY <1>1, <3>1, <4>2, TakenViews
      <4> QED BY <4>2, <4>3
    <3>3. CASE i \in 0 .. 1
      <4>1. ~Closes(d, 1)
        <5>1. CASE i = 0 BY <1>2, <3>1, <5>1 DEF After
        <5>2. CASE i = 1 BY <3>1, <5>2 DEF Has, Opens, Closes
        <5> QED BY <3>3, <5>1, <5>2
      <4>2. Has(d, 0)' BY <3>1, <3>3, <4>1, HadBefore
      <4>3. ~After(d, 1)
        <5>1. \A k \in 1 .. Len(wire) : 1 < k => i < k BY <3>3
        <5> QED BY <3>1, <5>1 DEF After
      <4>4. 0 \in 0 .. Len(wire') /\ 0 + 1 = 1 BY <1>2
      <4>5. ~After(d, 0)' BY <1>1, <4>3, <4>4, TakenViews
      <4> QED BY <4>2, <4>4, <4>5
    <3> QED BY <1>2, <3>2, <3>3
  <2> QED BY <2>2, <2>3 DEF Latest
<1>5. Versioned(documents)' BY <1>1 DEF SyncInv, Versioned
<1> QED BY <1>1, <1>2, <1>3, <1>4, <1>5 DEF SyncInv

----------------------------------------------------------------------------
\* Every step preserves the invariant.
LEMMA SyncNext == SyncInv /\ [Next]_vars => SyncInv'
<1> SUFFICES ASSUME SyncInv, [Next]_vars PROVE SyncInv' OBVIOUS
<1>1. CASE UNCHANGED vars
  <2>1. Wired' /\ Versioned(documents)' /\ Versioned(server)'
    BY <1>1 DEF vars, SyncInv, Wired, Versioned
  <2>2. ASSUME NEW d \in Docs PROVE Sessions(d)' /\ (link # "closed" => Latest(d)')
    <3>1. Sessions(d)' BY <1>1, SessionsStay DEF vars, SyncInv
    <3>2. Known(d)' = Known(d) /\ documents[d].version \in Nat
      BY <1>1 DEF vars, Known, SyncInv, Versioned
    <3>3. link # "closed" => Latest(d)' BY <1>1, <3>2, LatestStays DEF vars, SyncInv
    <3> QED BY <3>1, <3>3
  <2> QED BY <1>1, <2>1, <2>2 DEF vars, SyncInv
<1>2. ASSUME NEW d \in Docs, NEW text, Open(d, text) PROVE SyncInv' BY <1>2, OpenKeeps
<1>3. ASSUME NEW d \in Docs, NEW changes, ChangeWhole(d, changes) PROVE SyncInv'
  BY <1>3, ApplyKeeps DEF ChangeWhole
<1>4. ASSUME NEW d \in Docs, NEW edits, ChangeParts(d, edits) PROVE SyncInv'
  BY <1>4, ChangePartsKeeps
<1>5. ASSUME NEW d \in Docs, Close(d) \/ Save(d) PROVE SyncInv'
  BY <1>5, CloseKeeps, SaveKeeps
<1>6. ASSUME NEW d \in Docs, ChangeNothing(d) PROVE SyncInv' BY <1>1, <1>6 DEF ChangeNothing
<1>7. CASE Initialize \/ Lose BY <1>7, LinkKeeps
<1>8. CASE Read BY <1>8, ReadKeeps
<1> QED BY <1>1, <1>2, <1>3, <1>4, <1>5, <1>6, <1>7, <1>8 DEF Next

\* The invariant holds for every number of documents and notifications.
THEOREM SyncInvariant == Spec => []SyncInv
<1> QED BY SyncInit, SyncNext, PTL DEF Spec

\* The server is never asked to open a document that it has, nor to change one
\* that it does not have while the manager has it open and no call has failed
\* (Open, Change and Close, which forget or keep the document first and notify
\* the server second).
THEOREM DocumentsOpenOnce == Spec => []OpenedOnce
<1>1. SyncInv => OpenedOnce
  <2> SUFFICES ASSUME SyncInv, wire # <<>>
               PROVE  LET m == Head(wire)
                      IN  /\ m.op = "open" => server[m.doc] = Absent
                          /\ m.op = "change" /\ m.doc \in sound /\ ~ClosedAfter(m.doc, 1)
                               => server[m.doc] # Absent
    BY DEF OpenedOnce
  <2>1. PICK m : m = Head(wire) OBVIOUS
  <2>2. Wired /\ link # "closed" BY DEF SyncInv
  <2>3. m = wire[1] /\ Len(wire) \in Nat \ {0}
    <3> DEFINE S == {wire[i] : i \in 1 .. Len(wire)}
    <3>1. wire \in Seq(S) BY <2>2, IsSequence DEF Wired
    <3> HIDE DEF S
    <3> QED BY <2>1, <3>1
  <2>4. 1 \in 1 .. Len(wire) /\ 0 \in 0 .. Len(wire) BY <2>3
  <2>5. PICK d \in Docs : d = m.doc BY <2>2, <2>3, <2>4 DEF Wired
  <2>6. Sessions(d) /\ Latest(d) BY <2>2 DEF SyncInv
  <2>7. ASSUME m.op = "open", server[d] # Absent PROVE FALSE
    <3>1. Touches(d, 0) /\ Opens(d, 1) BY <2>3, <2>4, <2>5, <2>7 DEF Touches, Has, Opens
    <3>2. ~Between(d, 0, 1) BY <2>3 DEF Between
    <3> QED BY <2>4, <2>6, <3>1, <3>2 DEF Sessions
  <2>8. ASSUME m.op = "change", d \in sound, ~ClosedAfter(d, 1) PROVE server[d] # Absent
    <3>1. Touches(d, 1) /\ ~Opens(d, 1) BY <2>3, <2>4, <2>5, <2>8 DEF Touches, Changes, Opens
    <3>2. PICK i \in 0 .. Len(wire) : Has(d, i) BY <2>6, <2>8 DEF Latest
    <3>3. CASE i = 0 BY <3>2, <3>3 DEF Has, Opens
    <3>4. CASE i # 0
      <4>1. Opens(d, i) /\ i \in 1 .. Len(wire) BY <3>2, <3>4 DEF Has
      <4>2. i # 1 /\ 1 < i BY <3>1, <4>1
      <4>3. ~Between(d, 1, i)
        <5>1. DOMAIN wire = 1 .. Len(wire) BY <2>2 DEF Wired
        <5> QED BY <2>3, <2>8, <5>1 DEF Between, ClosedAfter, Closes
      <4> QED BY <2>4, <2>6, <3>1, <4>1, <4>2, <4>3 DEF Sessions
    <3> QED BY <3>3, <3>4
  <2> QED BY <2>1, <2>5, <2>7, <2>8
<1> QED BY <1>1, SyncInvariant, PTL

\* Every change of a document that the server reads gives its copy a later
\* version (Change, which counts up before it notifies).
THEOREM ChangesCountUp == Spec => VersionsRise
<1>1. SyncInv /\ [Next]_vars =>
        [\A d \in Docs : server[d] # Absent /\ server'[d] # Absent /\ server'[d] # server[d]
           => server'[d].version > server[d].version]_vars
  <2> SUFFICES ASSUME SyncInv, Next, NEW d \in Docs, server[d] # Absent,
                      server'[d] # Absent, server'[d] # server[d]
               PROVE  server'[d].version > server[d].version
    BY DEF vars
  <2>1. CASE Read
    <3>1. /\ Wired /\ wire # <<>>
          /\ Opens(d, 1) \/ Changes(d, 1)
          /\ server'[d].version = wire[1].version
      BY <2>1, ReadEffect
    <3>2. /\ Touches(d, 0) /\ ~Between(d, 0, 1) /\ Sessions(d)
          /\ Version(d, 0) = server[d].version /\ Version(d, 1) = wire[1].version
      <4>1. Len(wire) \in Nat BY <3>1 DEF Wired
      <4> QED BY <4>1 DEF Touches, Has, Between, SyncInv, Version
    <3>3. 0 \in 0 .. Len(wire) /\ 1 \in 1 .. Len(wire)
      BY <3>1 DEF Opens, Changes, Wired
    <3>4. Changes(d, 1) /\ server[d].version < wire[1].version
      BY <3>1, <3>2, <3>3 DEF Sessions
    <3>5. server[d].version \in Nat /\ server'[d].version \in Nat
      BY <2>1, ReadEffect DEF SyncInv, Versioned
    <3> QED BY <3>1, <3>4, <3>5
  <2>2. CASE ~Read
    <3>1. server' = server
      BY <2>2 DEF Next, Open, ChangeNothing, vars, ChangeWhole, ChangeParts, Close, Save,
                  Initialize, Lose
    <3> QED BY <3>1
  <2> QED BY <2>1, <2>2
<1> QED BY <1>1, SyncInvariant, PTL DEF Spec, VersionsRise

----------------------------------------------------------------------------
(* Texts and their lines *)

\* A set of natural numbers that holds 0 and every successor holds them all.
LEMMA NatSetInduction ==
  ASSUME NEW S, 0 \in S, \A n \in Nat : n \in S => n + 1 \in S
  PROVE  \A n \in Nat : n \in S
<1> SUFFICES ASSUME NEW n \in Nat, n \notin S PROVE FALSE OBVIOUS
<1> DEFINE M == {m \in 0 .. n : m \notin S}
           T == {m \in 0 .. (n - 1) : m \notin S}
           f == [m \in M |-> m - 1]
<1>1. IsFiniteSet(M)
  <2>1. IsFiniteSet(0 .. n) BY FS_Interval
  <2>2. M \in SUBSET (0 .. n) OBVIOUS
  <2> QED BY <2>1, <2>2, FS_Subset
<1>2. T \in SUBSET M /\ n \in M /\ n \notin T OBVIOUS
<1>3. /\ IsFiniteSet(T) /\ Cardinality(T) # Cardinality(M)
      /\ Cardinality(T) <= Cardinality(M)
      /\ Cardinality(T) \in Nat /\ Cardinality(M) \in Nat
  <2> HIDE DEF M, T
  <2> QED BY <1>1, <1>2, FS_Subset, FS_CardinalityType
<1>4. \A m \in M : m # 0 /\ m - 1 \in T OBVIOUS
<1>5. f \in Injection(M, T) BY <1>4 DEF Injection, IsInjective
<1>6. Cardinality(M) <= Cardinality(T)
  <2> HIDE DEF M, T, f
  <2> QED BY <1>3, <1>5, FS_Injection
<1> QED BY <1>3, <1>6

Characters == Letters \cup {Newline}

\* How many lines end up to a place in the text.
Ended(text, i) == Cardinality({j \in Breaks(text) : j <= i})

\* Line ends are counted one by one.
LEMMA EndsCount ==
  ASSUME NEW text \in Seq(Characters)
  PROVE  /\ Breaks(text) \subseteq 1 .. Len(text) /\ IsFiniteSet(Breaks(text))
         /\ LineCount(text) \in Nat \ {0}
         /\ Ended(text, 0) = 0 /\ Ended(text, Len(text)) = LineCount(text) - 1
         /\ \A i \in Nat : /\ Ended(text, i) \in Nat
                           /\ Ended(text, i + 1) =
                                IF i + 1 \in Breaks(text) THEN Ended(text, i) + 1
                                ELSE Ended(text, i)
         /\ \A i, k \in Nat : i <= k => Ended(text, i) <= Ended(text, k)
<1> DEFINE B == Breaks(text)
           Upto(i) == {j \in B : j <= i}
<1>1. Len(text) \in Nat /\ DOMAIN text = 1 .. Len(text) BY LenProperties
<1>2. B \subseteq 1 .. Len(text) BY <1>1 DEF Breaks
<1>3. IsFiniteSet(B)
  <2>1. IsFiniteSet(1 .. Len(text)) BY <1>1, FS_Interval
  <2>2. B \in SUBSET (1 .. Len(text)) BY <1>2
  <2> HIDE DEF B
  <2> QED BY <2>1, <2>2, FS_Subset
<1>4. Cardinality(B) \in Nat BY <1>3, FS_CardinalityType
<1>5. \A i : /\ IsFiniteSet(Upto(i)) /\ Cardinality(Upto(i)) \in Nat
  <2> SUFFICES ASSUME NEW i PROVE IsFiniteSet(Upto(i)) /\ Cardinality(Upto(i)) \in Nat OBVIOUS
  <2>1. Upto(i) \in SUBSET B OBVIOUS
  <2> HIDE DEF B, Upto
  <2>2. IsFiniteSet(Upto(i)) BY <1>3, <2>1, FS_Subset
  <2> QED BY <2>2, FS_CardinalityType
<1>6. Cardinality(Upto(0)) = 0
  <2>1. Upto(0) = {} BY <1>1, <1>2
  <2> QED BY <2>1, FS_EmptySet
<1>7. Upto(Len(text)) = B BY <1>1, <1>2
<1>8. ASSUME NEW i \in Nat
      PROVE  Cardinality(Upto(i + 1)) =
               IF i + 1 \in B THEN Cardinality(Upto(i)) + 1 ELSE Cardinality(Upto(i))
  <2>1. CASE i + 1 \in B
    <3>1. Upto(i + 1) = Upto(i) \cup {i + 1} /\ i + 1 \notin Upto(i) BY <1>1, <1>2, <2>1
    <3> HIDE DEF B, Upto
    <3> QED BY <1>5, <2>1, <3>1, FS_AddElement
  <2>2. CASE i + 1 \notin B
    <3>1. Upto(i + 1) = Upto(i) BY <1>1, <1>2, <2>2
    <3> HIDE DEF B, Upto
    <3> QED BY <2>2, <3>1
  <2> QED BY <2>1, <2>2
<1>9. ASSUME NEW i \in Nat, NEW k \in Nat, i <= k
      PROVE  Cardinality(Upto(i)) <= Cardinality(Upto(k))
  <2>1. Upto(i) \in SUBSET Upto(k) BY <1>1, <1>2, <1>9
  <2> HIDE DEF B, Upto
  <2> QED BY <1>5, <2>1, FS_Subset
<1>10. \A i : Ended(text, i) = Cardinality(Upto(i)) BY DEF Ended
<1>11. LineCount(text) = Cardinality(B) + 1 BY DEF LineCount
<1> HIDE DEF Upto
<1>12. /\ Ended(text, 0) = 0 /\ Ended(text, Len(text)) = LineCount(text) - 1
       /\ LineCount(text) \in Nat \ {0}
  BY <1>4, <1>6, <1>7, <1>10, <1>11
<1>13. \A i \in Nat : /\ Ended(text, i) \in Nat
                      /\ Ended(text, i + 1) =
                           IF i + 1 \in B THEN Ended(text, i) + 1 ELSE Ended(text, i)
  BY <1>5, <1>8, <1>10
<1>14. \A i, k \in Nat : i <= k => Ended(text, i) <= Ended(text, k) BY <1>9, <1>10
<1> QED BY <1>2, <1>3, <1>12, <1>13, <1>14

\* Every line but the first starts after the end of another, and they start one
\* after another.
LEMMA LinesStart ==
  ASSUME NEW text \in Seq(Characters)
  PROVE  /\ LineStart(text, 0) = 0
         /\ \A n \in 1 .. LineCount(text) - 1 :
              /\ LineStart(text, n) \in 1 .. Len(text)
              /\ text[LineStart(text, n)] = Newline
              /\ Ended(text, LineStart(text, n)) = n
         /\ \A n \in 0 .. LineCount(text) - 2 : LineStart(text, n) < LineStart(text, n + 1)
<1> DEFINE B == Breaks(text)
           S == {p \in Nat : \A k \in 1 .. Ended(text, p) : \E i \in B : Ended(text, i) = k}
<1>1. /\ B \subseteq 1 .. Len(text) /\ Len(text) \in Nat
      /\ Ended(text, 0) = 0 /\ Ended(text, Len(text)) = LineCount(text) - 1
      /\ LineCount(text) \in Nat \ {0}
  BY EndsCount, LenProperties
<1>2. 0 \in S BY <1>1
<1>3. ASSUME NEW p \in Nat, p \in S PROVE p + 1 \in S
  <2>1. /\ Ended(text, p) \in Nat
        /\ Ended(text, p + 1) = IF p + 1 \in B THEN Ended(text, p) + 1 ELSE Ended(text, p)
    BY EndsCount
  <2> SUFFICES ASSUME NEW k \in 1 .. Ended(text, p + 1) PROVE \E i \in B : Ended(text, i) = k
    OBVIOUS
  <2>2. CASE k \in 1 .. Ended(text, p) BY <1>3, <2>2
  <2>3. CASE k \notin 1 .. Ended(text, p)
    <3>1. p + 1 \in B /\ k = Ended(text, p + 1) BY <2>1, <2>3
    <3> QED BY <3>1
  <2> QED BY <2>2, <2>3
<1>4. Len(text) \in S
  <2> HIDE DEF S
  <2> QED BY <1>1, <1>2, <1>3, NatSetInduction
<1>5. \A k \in 1 .. LineCount(text) - 1 : \E i \in B : Ended(text, i) = k BY <1>1, <1>4
<1>6. ASSUME NEW n \in 1 .. LineCount(text) - 1
      PROVE  LineStart(text, n) \in B /\ Ended(text, LineStart(text, n)) = n
  <2>1. n # 0 BY <1>1
  <2>2. LineStart(text, n) = CHOOSE i \in B : Ended(text, i) = n BY <2>1 DEF LineStart, Ended
  <2> HIDE DEF B
  <2> QED BY <1>5, <2>2
<1>7. LineStart(text, 0) = 0 BY DEF LineStart
<1>8. ASSUME NEW n \in 1 .. LineCount(text) - 1
      PROVE  /\ LineStart(text, n) \in 1 .. Len(text)
             /\ text[LineStart(text, n)] = Newline
             /\ Ended(text, LineStart(text, n)) = n
  BY <1>1, <1>6 DEF Breaks
<1>9. ASSUME NEW n \in 0 .. LineCount(text) - 2
      PROVE  LineStart(text, n) < LineStart(text, n + 1)
  <2>1. n + 1 \in 1 .. LineCount(text) - 1 /\ n + 1 \in Nat BY <1>1
  <2>2. LineStart(text, n + 1) \in Nat /\ Ended(text, LineStart(text, n + 1)) = n + 1
    BY <1>8, <2>1
  <2>3. LineStart(text, n) \in Nat /\ Ended(text, LineStart(text, n)) = n
    <3>1. CASE n = 0 BY <1>1, <1>7, <3>1
    <3>2. CASE n # 0
      <4>1. n \in 1 .. LineCount(text) - 1 BY <1>1, <3>2
      <4> QED BY <1>8, <4>1
    <3> QED BY <3>1, <3>2
  <2>4. \A i, k \in Nat : i <= k => Ended(text, i) <= Ended(text, k) BY EndsCount
  <2> QED BY <2>2, <2>3, <2>4
<1> QED BY <1>7, <1>8, <1>9

\* What a text has between two offsets.
Cut(text, a, b) == SubSeq(text, a + 1, b)

\* Cuts are texts, and lie one after another.
LEMMA Cuts ==
  ASSUME NEW text \in Seq(Characters), NEW a \in 0 .. Len(text), NEW b \in a .. Len(text)
  PROVE  /\ Cut(text, a, b) \in Seq(Characters) /\ Len(Cut(text, a, b)) = b - a
         /\ \A c \in b .. Len(text) : Cut(text, a, b) \o Cut(text, b, c) = Cut(text, a, c)
<1>1. Len(text) \in Nat /\ \A i \in 1 .. Len(text) : text[i] \in Characters
  BY LenProperties, ElementOfSeq
<1>2. a \in Int /\ b \in Int /\ a + 1 \in Int /\ a <= b /\ a + 1 \in 1 .. Len(text) + 1 BY <1>1
<1>3. \A i \in (a + 1) .. b : text[i] \in Characters BY <1>1, <1>2
<1>4. /\ SubSeq(text, a + 1, b) \in Seq(Characters)
      /\ Len(SubSeq(text, a + 1, b)) = IF a + 1 <= b THEN b - (a + 1) + 1 ELSE 0
  BY <1>2, <1>3, SubSeqProperties
<1>5. Len(SubSeq(text, a + 1, b)) = b - a BY <1>2, <1>4
<1>6. ASSUME NEW c \in b .. Len(text)
      PROVE  SubSeq(text, a + 1, b) \o SubSeq(text, b + 1, c) = SubSeq(text, a + 1, c)
  <2>1. b \in (a + 1) - 1 .. Len(text) BY <1>1, <1>2
  <2> QED BY <1>2, <2>1, ConcatAdjacentSubSeq
<1> QED BY <1>4, <1>5, <1>6 DEF Cut

\* A part of a cut is a cut.
LEMMA CutOfCut ==
  ASSUME NEW text \in Seq(Characters), NEW a \in 0 .. Len(text), NEW b \in a .. Len(text),
         NEW m \in 0 .. b - a, NEW n \in m .. b - a
  PROVE  SubSeq(Cut(text, a, b), m + 1, n) = Cut(text, a + m, a + n)
<1>1. Len(text) \in Nat BY LenProperties
<1>2. CASE m = n
  <2>1. n < m + 1 /\ a + n < a + m + 1 /\ {n, m + 1, a + n, a + m + 1} \subseteq Int BY <1>1, <1>2
  <2>2. SubSeq(Cut(text, a, b), m + 1, n) = <<>> BY <2>1, SubSeqEmpty
  <2>3. SubSeq(text, a + m + 1, a + n) = <<>> BY <2>1, SubSeqEmpty
  <2> QED BY <2>2, <2>3 DEF Cut
<1>3. CASE m # n
  <2>1. /\ a + 1 \in 1 .. Len(text) /\ b \in 1 .. Len(text)
        /\ m + 1 \in 1 .. b - (a + 1) + 1 /\ n \in 1 .. b - (a + 1) + 1
    BY <1>1, <1>3
  <2>2. SubSeq(SubSeq(text, a + 1, b), m + 1, n)
          = SubSeq(text, (a + 1) + (m + 1) - 1, (a + 1) + n - 1)
    BY <2>1, SubSeqOfSubSeq
  <2>3. (a + 1) + (m + 1) - 1 = a + m + 1 /\ (a + 1) + n - 1 = a + n BY <1>1
  <2> QED BY <2>2, <2>3 DEF Cut
<1> QED BY <1>2, <1>3

\* The end of a line is a cut.
LEMMA EndIsCut ==
  ASSUME NEW text \in Seq(Characters), NEW k \in 1 .. Len(text), text[k] = Newline
  PROVE  <<Newline>> = Cut(text, k - 1, k)
<1>1. Len(text) \in Nat /\ \A i \in 1 .. Len(text) : text[i] \in Characters
  BY LenProperties, ElementOfSeq
<1>2. SubSeq(text, k, k) = <<text[k]>> \o SubSeq(text, k + 1, k)
  <2>1. k \in k .. Len(text) BY <1>1
  <2> QED BY <2>1, SubSeqRecursiveFirst
<1>3. SubSeq(text, k + 1, k) = <<>>
  <2>1. k + 1 \in Int /\ k \in Int /\ k < k + 1 BY <1>1
  <2> QED BY <2>1, SubSeqEmpty
<1>4. <<text[k]>> \in Seq(Characters) BY <1>1
<1>5. <<text[k]>> \o <<>> = <<text[k]>> BY <1>4, ConcatEmptySeq
<1>6. (k - 1) + 1 = k BY <1>1
<1> QED BY <1>2, <1>3, <1>5, <1>6 DEF Cut

\* A line is a cut from its start to its end; the next line starts behind it.
LEMMA LineIsCut ==
  ASSUME NEW text \in Seq(Characters), NEW n \in 0 .. LineCount(text) - 1
  PROVE  /\ LineStart(text, n) \in 0 .. Len(text) /\ LineLength(text, n) \in Nat
         /\ LineStart(text, n) + LineLength(text, n) <= Len(text)
         /\ Line(text, n) = Cut(text, LineStart(text, n), LineStart(text, n) + LineLength(text, n))
         /\ n = LineCount(text) - 1 => LineStart(text, n) + LineLength(text, n) = Len(text)
         /\ n # LineCount(text) - 1 =>
              /\ LineStart(text, n + 1) = LineStart(text, n) + LineLength(text, n) + 1
              /\ LineStart(text, n + 1) \in 1 .. Len(text)
              /\ text[LineStart(text, n + 1)] = Newline
<1>1. Len(text) \in Nat /\ LineCount(text) \in Nat \ {0} /\ n \in Nat
  BY LenProperties, EndsCount
<1>2. LineStart(text, n) \in 0 .. Len(text)
  <2>1. CASE n = 0 BY <1>1, <2>1, LinesStart
  <2>2. CASE n # 0
    <3>1. n \in 1 .. LineCount(text) - 1 BY <1>1, <2>2
    <3>2. LineStart(text, n) \in 1 .. Len(text) BY <3>1, LinesStart
    <3> QED BY <1>1, <3>2
  <2> QED BY <2>1, <2>2
<1>3. CASE n = LineCount(text) - 1
  <2>1. LineLength(text, n) = Len(text) - LineStart(text, n) BY <1>1, <1>3 DEF LineLength
  <2> QED BY <1>1, <1>2, <1>3, <2>1 DEF Line, Cut
<1>4. CASE n # LineCount(text) - 1
  <2>1. n \in 0 .. LineCount(text) - 2 /\ n + 1 \in 1 .. LineCount(text) - 1 BY <1>1, <1>4
  <2>2. /\ LineStart(text, n) < LineStart(text, n + 1)
        /\ LineStart(text, n + 1) \in 1 .. Len(text)
        /\ text[LineStart(text, n + 1)] = Newline
    BY <2>1, LinesStart
  <2>3. LineLength(text, n) = LineStart(text, n + 1) - 1 - LineStart(text, n)
    BY <1>1, <1>4 DEF LineLength
  <2> QED BY <1>1, <1>2, <1>4, <2>2, <2>3 DEF Line, Cut
<1> QED BY <1>3, <1>4

\* Whole lines, each with its end, are a cut.
LEMMA LinesAreCut ==
  ASSUME NEW text \in Seq(Characters), NEW a \in 0 .. LineCount(text) - 1,
         NEW b \in a .. LineCount(text) - 1
  PROVE  /\ Lines(text, a, b) = Cut(text, LineStart(text, a), LineStart(text, b))
         /\ LineStart(text, a) <= LineStart(text, b)
<1> DEFINE A == LineStart(text, a)
           P(n) == Cut(text, A, LineStart(text, a + n))
           Is(f) == f = [n \in 0 .. (b - a) |->
                           IF n = 0 THEN <<>> ELSE f[n - 1] \o Line(text, a + n - 1) \o <<Newline>>]
           S == {n \in Nat : n <= b - a =>
                   /\ A <= LineStart(text, a + n)
                   /\ \A f : Is(f) => f[n] = P(n)}
           G == [n \in 0 .. (b - a) |-> P(n)]
<1>1. Len(text) \in Nat /\ LineCount(text) \in Nat \ {0} /\ a \in Nat /\ b \in Nat
  BY LenProperties, EndsCount
<1>2. A \in 0 .. Len(text) BY LineIsCut
<1>3. P(0) = <<>>
  <2>1. a + 0 = a /\ A + 1 \in Int /\ A \in Int /\ A < A + 1 BY <1>1, <1>2
  <2> QED BY <2>1, SubSeqEmpty DEF Cut
<1>4. ASSUME NEW n \in Nat, n < b - a, A <= LineStart(text, a + n)
      PROVE  /\ A <= LineStart(text, a + (n + 1))
             /\ P(n) \o Line(text, a + n) \o <<Newline>> = P(n + 1)
  <2> DEFINE k == a + n
             L == LineStart(text, k)
             M == L + LineLength(text, k)
  <2>1. k \in 0 .. LineCount(text) - 1 /\ k # LineCount(text) - 1 /\ a + (n + 1) = k + 1
    BY <1>1, <1>4
  <2>2. /\ L \in 0 .. Len(text) /\ LineLength(text, k) \in Nat
        /\ Line(text, k) = Cut(text, L, M)
        /\ LineStart(text, k + 1) = M + 1
        /\ LineStart(text, k + 1) \in 1 .. Len(text)
        /\ text[LineStart(text, k + 1)] = Newline
    BY <2>1, LineIsCut
  <2> HIDE DEF L
  <2>3. M \in Nat /\ L <= M /\ M + 1 \in 1 .. Len(text) /\ A <= L BY <1>4, <2>2 DEF L
  <2>4. <<Newline>> = Cut(text, M, M + 1)
    <3>1. (M + 1) - 1 = M BY <2>3
    <3> QED BY <2>2, <2>3, <3>1, EndIsCut
  <2>5. L \in A .. Len(text) /\ M \in L .. Len(text) /\ M + 1 \in M .. Len(text)
        /\ M \in A .. Len(text)
    BY <1>1, <1>2, <2>2, <2>3
  <2> HIDE DEF M, A
  <2>6. Cut(text, A, L) \o Cut(text, L, M) = Cut(text, A, M) BY <1>2, <2>5, Cuts
  <2>7. Cut(text, A, M) \o Cut(text, M, M + 1) = Cut(text, A, M + 1) BY <1>2, <2>5, Cuts
  <2>8. P(n) = Cut(text, A, L) /\ P(n + 1) = Cut(text, A, M + 1) BY <2>1, <2>2 DEF L
  <2>9. A <= M + 1 BY <1>2, <2>2, <2>3
  <2> QED BY <2>1, <2>2, <2>4, <2>6, <2>7, <2>8, <2>9
<1>5. 0 \in S
  <2>1. a + 0 = a /\ A <= A BY <1>1, <1>2
  <2>2. ASSUME NEW f, Is(f) PROVE f[0] = <<>>
    <3>1. 0 \in 0 .. (b - a) BY <1>1
    <3> QED BY <2>2, <3>1
  <2> HIDE DEF P, Is, A
  <2>3. A <= LineStart(text, a + 0) BY <2>1 DEF A
  <2> QED BY <1>3, <2>2, <2>3
<1>6. ASSUME NEW n \in Nat, n \in S PROVE n + 1 \in S
  <2> HIDE DEF P, Is, A
  <2> SUFFICES ASSUME n + 1 <= b - a
               PROVE  /\ A <= LineStart(text, a + (n + 1))
                      /\ \A f : Is(f) => f[n + 1] = P(n + 1)
    OBVIOUS
  <2>1. n < b - a /\ n <= b - a /\ n + 1 \in 0 .. (b - a) /\ (n + 1) - 1 = n
        /\ n + 1 # 0 /\ a + (n + 1) - 1 = a + n
    BY <1>1
  <2>2. A <= LineStart(text, a + n) /\ \A f : Is(f) => f[n] = P(n) BY <1>6, <2>1
  <2>3. ASSUME NEW f, Is(f) PROVE f[n + 1] = f[n] \o Line(text, a + n) \o <<Newline>>
    BY <2>1, <2>3 DEF Is
  <2> QED BY <1>4, <2>1, <2>2, <2>3
<1>7. \A n \in Nat : n \in S
  <2> HIDE DEF S
  <2> QED BY <1>5, <1>6, NatSetInduction
<1>8. \A n \in 0 .. (b - a) : A <= LineStart(text, a + n) /\ \A f : Is(f) => f[n] = P(n)
  <2> HIDE DEF P, Is, A
  <2> QED BY <1>1, <1>7
<1>9. Is(G)
  <2>1. \A n \in 0 .. (b - a) :
          G[n] = IF n = 0 THEN <<>> ELSE G[n - 1] \o Line(text, a + n - 1) \o <<Newline>>
    <3> SUFFICES ASSUME NEW n \in 0 .. (b - a)
                 PROVE  G[n] = IF n = 0 THEN <<>>
                               ELSE G[n - 1] \o Line(text, a + n - 1) \o <<Newline>>
      OBVIOUS
    <3>1. CASE n = 0
      <4> HIDE DEF P
      <4> QED BY <1>3, <3>1
    <3>2. CASE n # 0
      <4>1. /\ n - 1 \in Nat /\ n - 1 < b - a /\ n - 1 \in 0 .. (b - a) /\ (n - 1) + 1 = n
            /\ a + (n - 1) = a + n - 1
        BY <1>1, <3>2
      <4>2. A <= LineStart(text, a + (n - 1)) BY <1>8, <4>1
      <4>3. P(n - 1) \o Line(text, a + (n - 1)) \o <<Newline>> = P((n - 1) + 1)
        <5> HIDE DEF P, A
        <5> QED BY <1>4, <4>1, <4>2
      <4> HIDE DEF P, A
      <4> QED BY <3>2, <4>1, <4>3
    <3> QED BY <3>1, <3>2
  <2>2. G = [n \in 0 .. (b - a) |-> G[n]] OBVIOUS
  <2> HIDE DEF G
  <2> QED BY <2>1, <2>2
<1> DEFINE F == CHOOSE f : Is(f)
<1>10. Is(F)
  <2> HIDE DEF Is, G
  <2> QED BY <1>9
<1>11. Lines(text, a, b) = F[b - a] BY DEF Lines
<1>12. b - a \in 0 .. (b - a) /\ a + (b - a) = b BY <1>1
<1>13. F[b - a] = P(b - a)
  <2> HIDE DEF F, Is, P, A
  <2> QED BY <1>8, <1>10, <1>12
<1>14. A <= LineStart(text, b) BY <1>8, <1>12
<1> QED BY <1>11, <1>12, <1>13, <1>14

\* A change to a whole text, or of what is between two positions.
Place == [line : Nat, character : Nat]
Change(e) ==
  /\ e.text \in Seq(Characters) /\ e.form \in {"whole", "partial"}
  /\ e.range = <<>> \/ \E p, q \in Place : e.range = <<p, q>>

\* What stands before a position of a text: whole lines, and a part of one.
LEMMA BeforePosition ==
  ASSUME NEW text \in Seq(Characters), NEW p \in Place, p.line < LineCount(text),
         p.character <= LineLength(text, p.line)
  PROVE  /\ Offset(text, p) \in 0 .. Len(text)
         /\ Lines(text, 0, p.line) \o SubSeq(Line(text, p.line), 1, p.character)
              = SubSeq(text, 1, Offset(text, p))
<1> DEFINE n == p.line
           c == p.character
           L == LineStart(text, n)
           M == LineStart(text, n) + LineLength(text, n)
<1>1. n \in Nat /\ c \in Nat /\ Len(text) \in Nat /\ LineCount(text) \in Nat \ {0}
  BY LenProperties, EndsCount DEF Place
<1>2. n \in 0 .. LineCount(text) - 1 /\ 0 \in 0 .. LineCount(text) - 1 BY <1>1
<1>3. /\ L \in 0 .. Len(text) /\ M \in L .. Len(text) /\ Line(text, n) = Cut(text, L, M)
      /\ LineLength(text, n) \in Nat
  <2>1. /\ L \in 0 .. Len(text) /\ LineLength(text, n) \in Nat /\ M <= Len(text)
        /\ Line(text, n) = Cut(text, L, M)
    BY <1>2, LineIsCut
  <2> QED BY <1>1, <2>1
<1>4. Offset(text, p) = L + c BY DEF Offset
<1>5. c \in 0 .. M - L /\ L + c \in L .. Len(text) BY <1>1, <1>3
<1>6. Lines(text, 0, n) = Cut(text, 0, L)
  <2>1. LineStart(text, 0) = 0 BY LinesStart
  <2>2. n \in 0 .. LineCount(text) - 1 BY <1>2
  <2>3. Lines(text, 0, n) = Cut(text, LineStart(text, 0), LineStart(text, n))
    BY <1>2, <2>2, LinesAreCut
  <2> QED BY <2>1, <2>3
<1> HIDE DEF n, c, L, M
<1>7. SubSeq(Line(text, n), 1, c) = Cut(text, L, L + c)
  <2>1. 0 \in 0 .. M - L /\ c \in 0 .. M - L BY <1>1, <1>3, <1>5
  <2>2. SubSeq(Cut(text, L, M), 0 + 1, c) = Cut(text, L + 0, L + c) BY <1>3, <2>1, CutOfCut
  <2>3. 0 + 1 = 1 /\ L + 0 = L BY <1>3
  <2> QED BY <1>3, <2>2, <2>3
<1>8. Cut(text, 0, L) \o Cut(text, L, L + c) = Cut(text, 0, L + c)
  <2>1. 0 \in 0 .. Len(text) /\ L \in 0 .. Len(text) BY <1>1, <1>3
  <2> QED BY <1>5, <2>1, Cuts
<1>9. Cut(text, 0, L + c) = SubSeq(text, 1, L + c)
  <2>1. 0 + 1 = 1 OBVIOUS
  <2> QED BY <2>1 DEF Cut
<1>10. Offset(text, p) \in 0 .. Len(text) BY <1>1, <1>3, <1>4, <1>5
<1>11. Lines(text, 0, n) \o SubSeq(Line(text, n), 1, c) = SubSeq(text, 1, Offset(text, p))
  BY <1>4, <1>6, <1>7, <1>8, <1>9
<1> QED BY <1>10, <1>11 DEF n, c

\* What stands behind a position: the rest of its line, and whole lines.
LEMMA BehindPosition ==
  ASSUME NEW text \in Seq(Characters), NEW q \in Place, q.line < LineCount(text),
         q.character <= LineLength(text, q.line)
  PROVE  LET last == LineCount(text) - 1
             rest == SubSeq(Line(text, q.line), q.character + 1, LineLength(text, q.line))
             others == IF q.line = last THEN <<>>
                       ELSE <<Newline>> \o Lines(text, q.line + 1, last) \o Line(text, last)
         IN  /\ Offset(text, q) \in 0 .. Len(text)
             /\ rest \in Seq(Characters) /\ others \in Seq(Characters)
             /\ rest \o others = SubSeq(text, Offset(text, q) + 1, Len(text))
<1> DEFINE n == q.line
           d == q.character
           L == LineStart(text, n)
           M == LineStart(text, n) + LineLength(text, n)
           last == LineCount(text) - 1
           rest == SubSeq(Line(text, q.line), q.character + 1, LineLength(text, q.line))
           others == IF q.line = last THEN <<>>
                     ELSE <<Newline>> \o Lines(text, q.line + 1, last) \o Line(text, last)
<1>1. n \in Nat /\ d \in Nat /\ Len(text) \in Nat /\ LineCount(text) \in Nat \ {0}
  BY LenProperties, EndsCount DEF Place
<1>2. n \in 0 .. LineCount(text) - 1 BY <1>1
<1>3. /\ L \in 0 .. Len(text) /\ M \in L .. Len(text) /\ Line(text, n) = Cut(text, L, M)
      /\ LineLength(text, n) \in Nat /\ LineLength(text, n) = M - L
      /\ n = last => M = Len(text)
      /\ n # last => /\ LineStart(text, n + 1) = M + 1 /\ M + 1 \in 1 .. Len(text)
                     /\ text[M + 1] = Newline
  <2>1. /\ L \in 0 .. Len(text) /\ LineLength(text, n) \in Nat /\ M <= Len(text)
        /\ Line(text, n) = Cut(text, L, M)
        /\ n = last => M = Len(text)
        /\ n # last => /\ LineStart(text, n + 1) = M + 1
                       /\ LineStart(text, n + 1) \in 1 .. Len(text)
                       /\ text[LineStart(text, n + 1)] = Newline
    BY <1>2, LineIsCut
  <2> QED BY <1>1, <2>1
<1>4. Offset(text, q) = L + d BY DEF Offset
<1>5. /\ d \in 0 .. M - L /\ M - L \in d .. M - L
      /\ L + d \in 0 .. Len(text) /\ M \in L + d .. Len(text)
  BY <1>1, <1>3
<1>6. rest = Cut(text, L + d, M)
  <2>1. SubSeq(Cut(text, L, M), d + 1, M - L) = Cut(text, L + d, L + (M - L))
    <3> HIDE DEF L, M, d
    <3> QED BY <1>3, <1>5, CutOfCut
  <2>2. L + (M - L) = M BY <1>1, <1>3
  <2> QED BY <1>3, <2>1, <2>2
<1>7. n # last => others = Cut(text, M, Len(text))
  <2> SUFFICES ASSUME n # last PROVE others = Cut(text, M, Len(text)) OBVIOUS
  <2>1. /\ n + 1 \in 0 .. LineCount(text) - 1 /\ last \in n + 1 .. LineCount(text) - 1
        /\ last \in 0 .. LineCount(text) - 1
    BY <1>1, <1>2
  <2>2. <<Newline>> = Cut(text, M, M + 1)
    <3>1. (M + 1) - 1 = M BY <1>3
    <3> HIDE DEF M
    <3> QED BY <1>3, <3>1, EndIsCut
  <2> DEFINE K == LineStart(text, last)
  <2>3. Lines(text, n + 1, last) = Cut(text, M + 1, K) /\ M + 1 <= K
    <3>1. /\ Lines(text, n + 1, last) = Cut(text, LineStart(text, n + 1), LineStart(text, last))
          /\ LineStart(text, n + 1) <= LineStart(text, last)
      <4> HIDE DEF last, n
      <4> QED BY <2>1, LinesAreCut
    <3> QED BY <1>3, <3>1
  <2>4. K \in 0 .. Len(text) /\ Line(text, last) = Cut(text, K, Len(text))
    BY <2>1, LineIsCut
  <2>5. others = (Cut(text, M, M + 1) \o Cut(text, M + 1, K)) \o Cut(text, K, Len(text))
    BY <2>2, <2>3, <2>4
  <2> HIDE DEF others, K, M, L, last, n, d
  <2>6. /\ M \in 0 .. Len(text) /\ M + 1 \in M .. Len(text) /\ K \in M + 1 .. Len(text)
        /\ K \in M .. Len(text) /\ Len(text) \in K .. Len(text)
    BY <1>1, <1>3, <2>3, <2>4
  <2>7. Cut(text, M, M + 1) \o Cut(text, M + 1, K) = Cut(text, M, K) BY <2>6, Cuts
  <2>8. Cut(text, M, K) \o Cut(text, K, Len(text)) = Cut(text, M, Len(text)) BY <2>6, Cuts
  <2> QED BY <2>5, <2>7, <2>8
<1>8. n = last => others = <<>> /\ M = Len(text) BY <1>3
<1> HIDE DEF rest, others, L, M, last, d
<1>9. rest \in Seq(Characters) BY <1>5, <1>6, Cuts
<1>10. others \in Seq(Characters)
  <2>1. M \in 0 .. Len(text) /\ Len(text) \in M .. Len(text) BY <1>1, <1>3
  <2>2. Cut(text, M, Len(text)) \in Seq(Characters) BY <2>1, Cuts
  <2>3. <<>> \in Seq(Characters) BY EmptySeq
  <2> QED BY <1>7, <1>8, <2>2, <2>3
<1>11. rest \o others = Cut(text, L + d, Len(text))
  <2>1. CASE n = last BY <1>6, <1>8, <1>9, <2>1, ConcatEmptySeq
  <2>2. CASE n # last
    <3>1. Len(text) \in M .. Len(text) BY <1>1, <1>3
    <3> QED BY <1>5, <1>6, <1>7, <2>2, <3>1, Cuts
  <2> QED BY <2>1, <2>2
<1>12. rest \o others = SubSeq(text, Offset(text, q) + 1, Len(text)) BY <1>4, <1>11 DEF Cut
<1>13. Offset(text, q) \in 0 .. Len(text) BY <1>4, <1>5
<1> QED BY <1>9, <1>10, <1>12, <1>13 DEF rest, others, last

\* A change of what is in a text is the same for both sides: the server's, which
\* keeps lines, and the manager's, which keeps what is before and behind.
LEMMA EditIsSplice ==
  ASSUME NEW text \in Seq(Characters), NEW e, Change(e), HasRange(e, text),
         e.form = "partial"
  PROVE  Edited(text, e) = Spliced(text, e) /\ Spliced(text, e) \in Seq(Characters)
<1>1. CASE e.range = <<>> BY <1>1 DEF Edited, Spliced, Change
<1>2. CASE e.range # <<>>
  <2>1. PICK p \in Place, q \in Place : e.range = <<p, q>> BY <1>2 DEF Change
  <2>2. e.range[1] = p /\ e.range[2] = q /\ DOMAIN e.range = {1, 2} BY <2>1
  <2>3. /\ p.line < LineCount(text) /\ q.line < LineCount(text)
        /\ p.character <= LineLength(text, p.line) /\ q.character <= LineLength(text, q.line)
    BY <1>2, <2>2 DEF HasRange, InRange
  <2> DEFINE last == LineCount(text) - 1
             before == Lines(text, 0, p.line) \o SubSeq(Line(text, p.line), 1, p.character)
             rest == SubSeq(Line(text, q.line), q.character + 1, LineLength(text, q.line))
             others == IF q.line = last THEN <<>>
                       ELSE <<Newline>> \o Lines(text, q.line + 1, last) \o Line(text, last)
             left == SubSeq(text, 1, Offset(text, p))
             right == SubSeq(text, Offset(text, q) + 1, Len(text))
  <2>4. Offset(text, p) \in 0 .. Len(text) /\ before = left BY <2>3, BeforePosition
  <2>5. /\ Offset(text, q) \in 0 .. Len(text)
        /\ rest \in Seq(Characters) /\ others \in Seq(Characters) /\ rest \o others = right
    BY <2>3, BehindPosition
  <2>6. Edited(text, e) = before \o e.text \o rest \o others BY <1>2, <2>2 DEF Edited
  <2>7. Spliced(text, e) = left \o e.text \o right BY <1>2, <2>2 DEF Spliced
  <2>8. left \in Seq(Characters)
    <3>1. 0 \in 0 .. Len(text) /\ 0 + 1 = 1 BY LenProperties
    <3>2. Cut(text, 0, Offset(text, p)) \in Seq(Characters) BY <2>4, <3>1, Cuts
    <3> QED BY <3>1, <3>2 DEF Cut
  <2>9. e.text \in Seq(Characters) BY DEF Change
  <2> HIDE DEF before, left, right, rest, others
  <2>10. left \o e.text \in Seq(Characters) BY <2>8, <2>9, ConcatProperties
  <2>11. ((left \o e.text) \o rest) \o others = (left \o e.text) \o right
    <3>1. PICK start : start = left \o e.text OBVIOUS
    <3>2. start \in Seq(Characters) /\ rest \in Seq(Characters) /\ others \in Seq(Characters)
      BY <2>5, <2>10, <3>1
    <3>3. (start \o rest) \o others = start \o (rest \o others)
      BY ONLY <3>2, ConcatAssociative
    <3> QED BY <2>5, <3>1, <3>3
  <2>12. right \in Seq(Characters) BY <2>5, ConcatProperties
  <2>13. (left \o e.text) \o right \in Seq(Characters) BY <2>10, <2>12, ConcatProperties
  <2> QED BY <2>4, <2>5, <2>6, <2>7, <2>11, <2>13
<1> QED BY <1>1, <1>2

----------------------------------------------------------------------------
(* Changes one after another *)

\* What the changes of a call leave, at the server and at the manager, after each
\* of them.
Editing(f, text, edits) ==
  f = [n \in 0 .. Len(edits) |-> IF n = 0 THEN text ELSE Edited(f[n - 1], edits[n])]
Applying(f, text, edits) ==
  f = [n \in 0 .. Len(edits) |->
         IF n = 0 THEN [ok |-> TRUE, text |-> text]
         ELSE IF f[n - 1].ok /\ InRange(edits[n], f[n - 1].text)
         THEN [ok |-> TRUE, text |-> Spliced(f[n - 1].text, edits[n])]
         ELSE [ok |-> FALSE, text |-> f[n - 1].text]]

\* The recursive function that EditedInTurn is defined with exists.
LEMMA EditedInTurnIs ==
  ASSUME NEW text, NEW edits, Len(edits) \in Nat
  PROVE  \E f : Editing(f, text, edits) /\ EditedInTurn(text, edits) = f[Len(edits)]
<1> DEFINE S == {k \in Nat : \E f : f = [n \in 0 .. k |->
                                           IF n = 0 THEN text ELSE Edited(f[n - 1], edits[n])]}
<1>1. 0 \in S
  <2> DEFINE f == [n \in 0 .. 0 |-> text]
  <2>1. f = [n \in 0 .. 0 |-> IF n = 0 THEN text ELSE Edited(f[n - 1], edits[n])] OBVIOUS
  <2> HIDE DEF f
  <2> QED BY <2>1
<1>2. ASSUME NEW k \in Nat, k \in S PROVE k + 1 \in S
  <2>1. PICK f : f = [n \in 0 .. k |-> IF n = 0 THEN text ELSE Edited(f[n - 1], edits[n])]
    BY <1>2
  <2> DEFINE g == [n \in 0 .. (k + 1) |-> IF n <= k THEN f[n] ELSE Edited(f[k], edits[k + 1])]
  <2>2. \A n \in 0 .. (k + 1) : g[n] = IF n = 0 THEN text ELSE Edited(g[n - 1], edits[n])
    <3> SUFFICES ASSUME NEW n \in 0 .. (k + 1)
                 PROVE  g[n] = IF n = 0 THEN text ELSE Edited(g[n - 1], edits[n])
      OBVIOUS
    <3>1. CASE n = 0 BY <2>1, <3>1
    <3>2. CASE n # 0 /\ n <= k
      <4>1. g[n] = f[n] /\ g[n - 1] = f[n - 1] /\ n \in 0 .. k BY <3>2
      <4>2. f[n] = Edited(f[n - 1], edits[n]) BY <2>1, <3>2, <4>1
      <4> QED BY <3>2, <4>1, <4>2
    <3>3. CASE n = k + 1
      <4>1. g[n] = Edited(f[k], edits[k + 1]) /\ g[n - 1] = f[k] /\ n # 0 BY <3>3
      <4> QED BY <3>3, <4>1
    <3> QED BY <3>1, <3>2, <3>3
  <2>3. g = [n \in 0 .. (k + 1) |-> g[n]] OBVIOUS
  <2> HIDE DEF g
  <2>4. g = [n \in 0 .. (k + 1) |-> IF n = 0 THEN text ELSE Edited(g[n - 1], edits[n])]
    BY <2>2, <2>3
  <2> QED BY <2>4
<1>3. \A k \in Nat : k \in S
  <2> HIDE DEF S
  <2> QED BY <1>1, <1>2, NatSetInduction
<1>4. \E f : Editing(f, text, edits) BY <1>3 DEF Editing
<1> DEFINE F == CHOOSE f : Editing(f, text, edits)
<1>5. Editing(F, text, edits) BY <1>4
<1>6. EditedInTurn(text, edits) = F[Len(edits)] BY DEF EditedInTurn, Editing
<1> QED BY <1>5, <1>6

\* So does the one that AppliedInTurn is defined with.
LEMMA AppliedInTurnIs ==
  ASSUME NEW text, NEW edits, Len(edits) \in Nat
  PROVE  \E f : Applying(f, text, edits) /\ AppliedInTurn(text, edits) = f[Len(edits)]
<1> DEFINE Start == [ok |-> TRUE, text |-> text]
           Nx(v, e) == IF v.ok /\ InRange(e, v.text) THEN [ok |-> TRUE, text |-> Spliced(v.text, e)]
                       ELSE [ok |-> FALSE, text |-> v.text]
           S == {k \in Nat : \E f : f = [n \in 0 .. k |->
                                           IF n = 0 THEN Start ELSE Nx(f[n - 1], edits[n])]}
<1>1. \A k \in Nat : k \in S
  <2> HIDE DEF Nx, Start
  <2>1. 0 \in S
    <3> DEFINE f == [n \in 0 .. 0 |-> Start]
    <3>1. f = [n \in 0 .. 0 |-> IF n = 0 THEN Start ELSE Nx(f[n - 1], edits[n])] OBVIOUS
    <3> HIDE DEF f
    <3> QED BY <3>1
  <2>2. ASSUME NEW k \in Nat, k \in S PROVE k + 1 \in S
    <3>1. PICK f : f = [n \in 0 .. k |-> IF n = 0 THEN Start ELSE Nx(f[n - 1], edits[n])]
      BY <2>2
    <3> DEFINE g == [n \in 0 .. (k + 1) |-> IF n <= k THEN f[n] ELSE Nx(f[k], edits[k + 1])]
    <3>2. \A n \in 0 .. (k + 1) : g[n] = IF n = 0 THEN Start ELSE Nx(g[n - 1], edits[n])
      <4> SUFFICES ASSUME NEW n \in 0 .. (k + 1)
                   PROVE  g[n] = IF n = 0 THEN Start ELSE Nx(g[n - 1], edits[n])
        OBVIOUS
      <4>1. CASE n = 0 BY <3>1, <4>1
      <4>2. CASE n # 0 /\ n <= k
        <5>1. g[n] = f[n] /\ g[n - 1] = f[n - 1] /\ n \in 0 .. k BY <4>2
        <5>2. f[n] = Nx(f[n - 1], edits[n]) BY <3>1, <4>2, <5>1
        <5> QED BY <4>2, <5>1, <5>2
      <4>3. CASE n = k + 1
        <5>1. g[n] = Nx(f[k], edits[k + 1]) /\ g[n - 1] = f[k] /\ n # 0 BY <4>3
        <5> QED BY <4>3, <5>1
      <4> QED BY <4>1, <4>2, <4>3
    <3>3. g = [n \in 0 .. (k + 1) |-> g[n]] OBVIOUS
    <3> HIDE DEF g
    <3>4. g = [n \in 0 .. (k + 1) |-> IF n = 0 THEN Start ELSE Nx(g[n - 1], edits[n])]
      BY <3>2, <3>3
    <3> QED BY <3>4
  <2> HIDE DEF S
  <2> QED BY <2>1, <2>2, NatSetInduction
<1>2. \E f : Applying(f, text, edits) BY <1>1 DEF Applying
<1> DEFINE F == CHOOSE f : Applying(f, text, edits)
<1>3. Applying(F, text, edits) BY <1>2
<1>4. AppliedInTurn(text, edits) = F[Len(edits)] BY DEF AppliedInTurn, Applying
<1> QED BY <1>3, <1>4

\* A server that is sent changes keeps a text.
LEMMA EditsKeepTexts ==
  ASSUME NEW text \in Seq(Characters), NEW edits, Len(edits) \in Nat,
         \A n \in 1 .. Len(edits) : Change(edits[n])
  PROVE  EditedInTurn(text, edits) \in Seq(Characters)
<1>1. PICK f : Editing(f, text, edits) /\ EditedInTurn(text, edits) = f[Len(edits)]
  BY EditedInTurnIs
<1> DEFINE S == {n \in Nat : n <= Len(edits) => f[n] \in Seq(Characters)}
<1>2. 0 \in S BY <1>1 DEF Editing
<1>3. ASSUME NEW n \in Nat, n \in S PROVE n + 1 \in S
  <2> SUFFICES ASSUME n + 1 <= Len(edits) PROVE f[n + 1] \in Seq(Characters) OBVIOUS
  <2>1. /\ n + 1 \in 1 .. Len(edits) /\ n + 1 \in 0 .. Len(edits) /\ n <= Len(edits)
        /\ (n + 1) - 1 = n /\ n + 1 # 0
    OBVIOUS
  <2>2. f[n + 1] = Edited(f[n], edits[n + 1]) BY <1>1, <2>1 DEF Editing
  <2>3. f[n] \in Seq(Characters) /\ Change(edits[n + 1]) BY <1>3, <2>1
  <2>4. CASE HasRange(edits[n + 1], f[n])
    <3>1. PICK e : e = [form |-> "partial", range |-> edits[n + 1].range,
                        text |-> edits[n + 1].text]
      OBVIOUS
    <3>2. e.form = "partial" /\ e.range = edits[n + 1].range /\ e.text = edits[n + 1].text
      BY <3>1
    <3>3. Change(e) /\ HasRange(e, f[n]) BY <2>3, <2>4, <3>2 DEF Change, HasRange, InRange
    <3>4. Edited(f[n], e) \in Seq(Characters) BY <2>3, <3>2, <3>3, EditIsSplice
    <3>5. Edited(f[n], e) = Edited(f[n], edits[n + 1])
      BY <3>2 DEF Edited, HasRange, InRange
    <3> QED BY <2>2, <3>4, <3>5
  <2>5. CASE edits[n + 1].range = <<>> BY <2>2, <2>3, <2>5 DEF Edited, Change
  <2>6. CASE ~HasRange(edits[n + 1], f[n]) /\ edits[n + 1].range # <<>>
    BY <2>2, <2>3, <2>6 DEF Edited
  <2> QED BY <2>4, <2>5, <2>6
<1>4. Len(edits) \in S
  <2> HIDE DEF S
  <2> QED BY <1>2, <1>3, NatSetInduction
<1> QED BY <1>1, <1>4

\* Changes that the manager applies to the end leave the same text on both sides,
\* if each is about what the text has then and none is one that the manager ignores.
LEMMA TurnsAgree ==
  ASSUME NEW text \in Seq(Characters), NEW edits, Len(edits) \in Nat,
         NEW f, Applying(f, text, edits),
         \A n \in 1 .. Len(edits) :
           /\ Change(edits[n])
           /\ f[n - 1].ok /\ InRange(edits[n], f[n - 1].text) => HasRange(edits[n], f[n - 1].text)
  PROVE  LET after == f[Len(edits)]
         IN  /\ after.text \in Seq(Characters)
             /\ after.ok \in BOOLEAN
             /\ after.ok /\ (\A n \in 1 .. Len(edits) : edits[n].form = "partial")
                  => EditedInTurn(text, edits) = after.text
<1>1. PICK g : Editing(g, text, edits) /\ EditedInTurn(text, edits) = g[Len(edits)]
  BY EditedInTurnIs
<1> DEFINE Parts == \A n \in 1 .. Len(edits) : edits[n].form = "partial"
           S == {n \in Nat : n <= Len(edits) =>
                   /\ f[n].text \in Seq(Characters) /\ f[n].ok \in BOOLEAN
                   /\ f[n].ok /\ Parts => g[n] = f[n].text}
<1>2. 0 \in S
  <2>1. f[0] = [ok |-> TRUE, text |-> text] BY DEF Applying
  <2>2. g[0] = text BY <1>1 DEF Editing
  <2>3. f[0].text = text /\ f[0].ok = TRUE BY <2>1
  <2>4. f[0].text \in Seq(Characters) /\ f[0].ok \in BOOLEAN /\ g[0] = f[0].text
    BY <2>2, <2>3
  <2> QED BY <2>4
<1>3. ASSUME NEW n \in Nat, n \in S PROVE n + 1 \in S
  <2> SUFFICES ASSUME n + 1 <= Len(edits)
               PROVE  /\ f[n + 1].text \in Seq(Characters) /\ f[n + 1].ok \in BOOLEAN
                      /\ f[n + 1].ok /\ Parts => g[n + 1] = f[n + 1].text
    OBVIOUS
  <2>1. /\ n + 1 \in 1 .. Len(edits) /\ n + 1 \in 0 .. Len(edits) /\ n <= Len(edits)
        /\ (n + 1) - 1 = n /\ n + 1 # 0
    OBVIOUS
  <2>2. f[n + 1] = IF f[n].ok /\ InRange(edits[n + 1], f[n].text)
                   THEN [ok |-> TRUE, text |-> Spliced(f[n].text, edits[n + 1])]
                   ELSE [ok |-> FALSE, text |-> f[n].text]
    BY <2>1 DEF Applying
  <2>3. g[n + 1] = Edited(g[n], edits[n + 1]) BY <1>1, <2>1 DEF Editing
  <2>4. /\ f[n].text \in Seq(Characters) /\ f[n].ok \in BOOLEAN
        /\ f[n].ok /\ Parts => g[n] = f[n].text
    BY <1>3, <2>1
  <2>5. /\ Change(edits[n + 1])
        /\ f[n].ok /\ InRange(edits[n + 1], f[n].text) => HasRange(edits[n + 1], f[n].text)
    BY <2>1
  <2>6. CASE f[n].ok /\ InRange(edits[n + 1], f[n].text)
    <3>1. /\ f[n + 1].ok = TRUE /\ f[n + 1].text = Spliced(f[n].text, edits[n + 1])
          /\ Parts => g[n] = f[n].text
      BY <2>2, <2>4, <2>6
    <3>2. CASE edits[n + 1].form = "partial"
      <4>1. /\ Edited(f[n].text, edits[n + 1]) = Spliced(f[n].text, edits[n + 1])
            /\ Spliced(f[n].text, edits[n + 1]) \in Seq(Characters)
        BY <2>4, <2>5, <2>6, <3>2, EditIsSplice
      <4> HIDE DEF Parts
      <4> QED BY <2>3, <3>1, <4>1
    <3>3. CASE edits[n + 1].form = "whole"
      <4>1. Spliced(f[n].text, edits[n + 1]) = f[n].text BY <3>3 DEF Spliced
      <4>2. ~Parts
        <5>1. edits[n + 1].form # "partial" BY <3>3
        <5> QED BY <2>1, <5>1
      <4> HIDE DEF Parts
      <4> QED BY <2>4, <3>1, <4>1, <4>2
    <3> QED BY <2>5, <3>2, <3>3 DEF Change
  <2>7. CASE ~(f[n].ok /\ InRange(edits[n + 1], f[n].text))
    <3>1. f[n + 1].ok = FALSE /\ f[n + 1].text = f[n].text BY <2>2, <2>7
    <3> QED BY <2>4, <3>1
  <2> QED BY <2>6, <2>7
<1>4. Len(edits) \in S
  <2> HIDE DEF S
  <2> QED BY <1>2, <1>3, NatSetInduction
<1> QED BY <1>1, <1>4

\* The changes of Edits are about what the text has, or about lines that it does
\* not have.
LEMMA EditsFit ==
  ASSUME NEW text, NEW e \in Edits(text)
  PROVE  /\ Change(e) /\ e.range # <<>> /\ e.form = "partial"
         /\ InRange(e, text) => HasRange(e, text)
<1>1. PICK p \in Positions(text), q \in Positions(text), t \in BoundedSeq(Characters, 1) :
        e = Part(p, q, t)
  BY DEF Edits, Pieces, Characters
<1>2. e.range = <<p, q>> /\ e.text = t /\ e.form = "partial" BY <1>1 DEF Part
<1>3. t \in Seq(Characters)
  <2>1. PICK n \in 0 .. 1 : t \in [1 .. n -> Characters] BY DEF BoundedSeq, SeqOf
  <2> QED BY <2>1, SeqDef
<1>4. MaxText \in Nat BY BoundsAssumption
<1>5. p \in Place /\ q \in Place BY <1>4 DEF Positions, Place
<1>6. e.range[1] = p /\ e.range[2] = q /\ DOMAIN e.range = {1, 2} /\ e.range # <<>> BY <1>2
<1>7. Change(e) BY <1>2, <1>3, <1>5 DEF Change
<1>8. ASSUME InRange(e, text) PROVE HasRange(e, text)
  <2>1. p.line < LineCount(text) /\ q.line < LineCount(text) BY <1>6, <1>8 DEF InRange
  <2>2. p.character <= LineLength(text, p.line) /\ q.character <= LineLength(text, q.line)
    BY <2>1 DEF Positions
  <2> QED BY <1>6, <1>8, <2>2 DEF HasRange
<1> QED BY <1>2, <1>6, <1>7, <1>8

\* A batch is a sequence.
LEMMA BatchIsSequence ==
  ASSUME NEW text, NEW b \in Batches(text)
  PROVE  DOMAIN b = 1 .. Len(b)
<1>1. b = <<>> \/ (\E e : b = <<e>>) \/ (\E e, g : b = <<e, g>>) BY DEF Batches
<1>2. CASE b = <<>> BY <1>2
<1>3. CASE \E e : b = <<e>> BY <1>3
<1>4. CASE \E e, g : b = <<e, g>> BY <1>4
<1> QED BY <1>1, <1>2, <1>3, <1>4

\* A batch of changes to one text leaves the same text at the server as at the
\* manager, unless the manager refuses or ignores one of them.
LEMMA BatchAgrees ==
  ASSUME NEW text \in Seq(Characters), NEW b \in Batches(text)
  PROVE  LET after == AppliedInTurn(text, b)
         IN  /\ Len(b) \in Nat /\ \A n \in 1 .. Len(b) : Change(b[n])
             /\ after.text \in Seq(Characters) /\ after.ok \in BOOLEAN
             /\ after.ok /\ (\A n \in 1 .. Len(b) : b[n].form = "partial")
                  => EditedInTurn(text, b) = after.text
<1> DEFINE Result(e) == IF InRange(e, text) THEN Spliced(text, e) ELSE text
<1>1. \/ b = <<>> \/ b = <<Replacing(<<>>)>> \/ b = <<Whole(<<>>)>>
      \/ \E e \in Edits(text) : b = <<e>>
      \/ \E e \in Edits(text) : b = <<e, Whole(<<>>)>>
      \/ \E e \in Edits(text) : \E g \in Edits(Result(e)) : b = <<e, g>>
  <2>1. \A t : Inserts(t) \subseteq Edits(t) BY DEF Inserts, Edits
  <2> QED BY <2>1 DEF Batches
<1>2. Len(b) \in Nat
  <2>1. CASE \E e : b = <<e>> BY <2>1
  <2>2. CASE \E e, g : b = <<e, g>> BY <2>2
  <2>3. CASE b = <<>> BY <2>3
  <2> QED BY <1>1, <2>1, <2>2, <2>3
<1>3. PICK f : Applying(f, text, b) /\ AppliedInTurn(text, b) = f[Len(b)]
  BY <1>2, AppliedInTurnIs
<1>4. f[0] = [ok |-> TRUE, text |-> text] BY <1>2, <1>3 DEF Applying
<1>5. ASSUME NEW n \in 1 .. Len(b)
      PROVE  /\ Change(b[n])
             /\ f[n - 1].ok /\ InRange(b[n], f[n - 1].text) => HasRange(b[n], f[n - 1].text)
  <2>0. ASSUME b[n] = Whole(<<>>) \/ b[n] = Replacing(<<>>)
        PROVE  /\ Change(b[n])
               /\ f[n - 1].ok /\ InRange(b[n], f[n - 1].text) => HasRange(b[n], f[n - 1].text)
    <3>1. b[n].range = <<>> /\ b[n].text = <<>> /\ b[n].form \in {"whole", "partial"}
      BY <2>0 DEF Whole, Replacing
    <3>2. <<>> \in Seq(Characters) BY EmptySeq
    <3> QED BY <3>1, <3>2 DEF Change, HasRange
  <2>1. CASE b = <<>> \/ b = <<Replacing(<<>>)>> \/ b = <<Whole(<<>>)>>
    <3>1. b # <<>> BY <1>2
    <3>2. n = 1 /\ (b[n] = Whole(<<>>) \/ b[n] = Replacing(<<>>)) BY <2>1, <3>1
    <3> QED BY <2>0, <3>2
  <2>2. ASSUME NEW e \in Edits(text), n = 1, b[1] = e
        PROVE  /\ Change(b[n])
               /\ f[n - 1].ok /\ InRange(b[n], f[n - 1].text) => HasRange(b[n], f[n - 1].text)
    <3>1. n - 1 = 0 /\ f[n - 1].text = text BY <1>4, <2>2
    <3> QED BY <2>2, <3>1, EditsFit
  <2>3. CASE \E e \in Edits(text) : b = <<e>>
    <3>1. PICK e \in Edits(text) : b = <<e>> BY <2>3
    <3>2. n = 1 /\ b[1] = e BY <3>1
    <3> QED BY <2>2, <3>2
  <2>5. CASE \E e \in Edits(text) : b = <<e, Whole(<<>>)>>
    <3>1. PICK e \in Edits(text) : b = <<e, Whole(<<>>)>> BY <2>5
    <3>2. b[1] = e /\ b[2] = Whole(<<>>) /\ n \in {1, 2} BY <3>1
    <3> QED BY <2>0, <2>2, <3>2
  <2>4. CASE \E e \in Edits(text) : \E g \in Edits(Result(e)) : b = <<e, g>>
    <3>0. PICK e \in Edits(text) : \E g \in Edits(Result(e)) : b = <<e, g>> BY <2>4
    <3>1. PICK g \in Edits(Result(e)) : b = <<e, g>> BY <3>0
    <3>2. b[1] = e /\ b[2] = g /\ Len(b) = 2 /\ n \in {1, 2} BY <3>1
    <3>3. CASE n = 1 BY <2>2, <3>2, <3>3
    <3>4. CASE n = 2
      <4>1. PICK m : m = n - 1 OBVIOUS
      <4>2. m = 1 /\ m \in 0 .. Len(b) /\ m - 1 = 0 /\ m # 0 BY <3>2, <3>4, <4>1
      <4>3. f = [k \in 0 .. Len(b) |->
                  IF k = 0 THEN [ok |-> TRUE, text |-> text]
                  ELSE IF f[k - 1].ok /\ InRange(b[k], f[k - 1].text)
                  THEN [ok |-> TRUE, text |-> Spliced(f[k - 1].text, b[k])]
                  ELSE [ok |-> FALSE, text |-> f[k - 1].text]]
        BY ONLY <1>3 DEF Applying
      <4>4. f[m] = IF f[m - 1].ok /\ InRange(b[m], f[m - 1].text)
                   THEN [ok |-> TRUE, text |-> Spliced(f[m - 1].text, b[m])]
                   ELSE [ok |-> FALSE, text |-> f[m - 1].text]
        BY ONLY <4>3, <4>2
      <4>5. f[m - 1].ok = TRUE /\ f[m - 1].text = text /\ b[m] = e BY <1>4, <3>2, <4>2
      <4>6. f[m].text = Result(e) BY <4>4, <4>5
      <4> HIDE DEF Result
      <4> QED BY <3>2, <3>4, <4>1, <4>6, EditsFit
    <3> QED BY <3>2, <3>3, <3>4
  <2> HIDE DEF Result
  <2> QED BY <1>1, <2>1, <2>3, <2>4, <2>5
<1>6. /\ f[Len(b)].text \in Seq(Characters) /\ f[Len(b)].ok \in BOOLEAN
      /\ f[Len(b)].ok /\ (\A n \in 1 .. Len(b) : b[n].form = "partial")
           => EditedInTurn(text, b) = f[Len(b)].text
  BY <1>2, <1>3, <1>5, TurnsAgree
<1> QED BY <1>2, <1>3, <1>5, <1>6

----------------------------------------------------------------------------
(* What the server will have *)

\* What a server has of a document after a notification.
AfterRead(r, m, d) ==
  IF m.doc # d THEN r
  ELSE IF m.op = "open" THEN [version |-> m.version, text |-> m.text]
  ELSE IF m.op = "change" /\ r # Absent
  THEN [version |-> m.version, text |-> EditedInTurn(r.text, m.edits)]
  ELSE IF m.op = "close" THEN Absent ELSE r

\* It has the manager's version, and its text unless a change was ignored.
Agrees(r, d) ==
  /\ r.version = documents[d].version
  /\ d \notin ignored => r.text = documents[d].text

\* What it has of a document after each of those on their way; of a document of
\* which no call has failed it agrees in the end with the manager.
Follows(f, d) ==
  /\ f[0] = server[d]
  /\ \A i \in 1 .. Len(wire) : f[i] = AfterRead(f[i - 1], wire[i], d)
Ahead(d) == \E f : Follows(f, d) /\ (d \in sound => Agrees(f[Len(wire)], d))

\* What is sent and what both sides keep are versions and texts.
Copies(T) == [version : 0 .. MaxVersion, text : T]
Sendable(m) ==
  /\ m.op = "open" => m.version \in 0 .. MaxVersion /\ m.text \in Texts
  /\ m.op = "change" => /\ m.version \in 0 .. MaxVersion /\ Len(m.edits) \in Nat
                        /\ \A n \in 1 .. Len(m.edits) : Change(m.edits[n])

TextInv ==
  /\ kind \in Kinds /\ Len(wire) <= MaxWire /\ sound \subseteq Docs /\ ignored \subseteq Docs
  /\ \A i \in 1 .. Len(wire) :
       /\ Sendable(wire[i])
       /\ link = "new" => wire[i].op \in {"close", "save"}
  /\ \A d \in Docs : /\ documents[d] \in Copies(Texts)
                     /\ server[d] \in Copies(Seq(Characters))
                     /\ d \in sound => Known(d)
  /\ link # "closed" => \A d \in Docs : Ahead(d)

\* The texts of bounded length are sequences.
LEMMA TextsAre == Texts = {t \in Seq(Characters) : Len(t) <= MaxText}
<1>1. MaxText \in Nat BY BoundsAssumption
<1>2. Texts = UNION {[1 .. n -> Characters] : n \in 0 .. MaxText}
  BY DEF Texts, BoundedSeq, SeqOf, Characters
<1>3. ASSUME NEW t \in Texts PROVE t \in Seq(Characters) /\ Len(t) <= MaxText
  <2>1. PICK n \in 0 .. MaxText : t \in [1 .. n -> Characters] BY <1>2
  <2>2. n \in Nat BY <1>1
  <2>3. t \in Seq(Characters) BY <2>1, <2>2, SeqDef
  <2>4. Len(t) \in Nat /\ DOMAIN t = 1 .. Len(t) BY <2>3, LenProperties
  <2>5. 1 .. Len(t) = 1 .. n BY <2>1, <2>4
  <2>6. Len(t) = n
    <3>1. Len(t) # 0 => Len(t) \in 1 .. Len(t) BY <2>4
    <3>2. n # 0 => n \in 1 .. n BY <2>2
    <3>3. Len(t) # 0 => Len(t) <= n BY <2>5, <3>1
    <3>4. n # 0 => n <= Len(t) BY <2>5, <3>2
    <3>5. PICK l \in Nat : l = Len(t) BY <2>4
    <3>6. (l # 0 => l <= n) /\ (n # 0 => n <= l) BY <3>3, <3>4, <3>5
    <3>7. l = n BY ONLY <2>2, <3>5, <3>6
    <3> QED BY <3>5, <3>7
  <2> QED BY <1>1, <2>3, <2>6
<1>4. ASSUME NEW t \in Seq(Characters), Len(t) <= MaxText PROVE t \in Texts
  <2>1. Len(t) \in 0 .. MaxText /\ t \in [1 .. Len(t) -> Characters]
    BY <1>1, <1>4, LenProperties
  <2> QED BY <1>2, <2>1
<1> QED BY <1>3, <1>4

\* A copy that is read on stays a copy.
LEMMA AfterReadIsCopy ==
  ASSUME NEW r \in Copies(Seq(Characters)), NEW m, Sendable(m), NEW d
  PROVE  AfterRead(r, m, d) \in Copies(Seq(Characters))
<1>1. Absent \in Copies(Seq(Characters))
  <2>1. 0 \in 0 .. MaxVersion BY BoundsAssumption
  <2>2. <<>> \in Seq(Characters) BY EmptySeq
  <2> QED BY <2>1, <2>2 DEF Absent, Copies
<1>2. CASE m.doc # d BY <1>2 DEF AfterRead
<1>3. CASE m.doc = d /\ m.op = "open"
  <2>1. m.text \in Seq(Characters) /\ m.version \in 0 .. MaxVersion
    BY <1>3, TextsAre DEF Sendable
  <2> QED BY <1>3, <2>1 DEF AfterRead, Copies
<1>4. CASE m.doc = d /\ m.op = "change" /\ r # Absent
  <2>1. /\ m.version \in 0 .. MaxVersion /\ Len(m.edits) \in Nat
        /\ \A n \in 1 .. Len(m.edits) : Change(m.edits[n])
    BY <1>4 DEF Sendable
  <2>2. r.text \in Seq(Characters) BY DEF Copies
  <2>3. EditedInTurn(r.text, m.edits) \in Seq(Characters) BY <2>1, <2>2, EditsKeepTexts
  <2> QED BY <1>4, <2>1, <2>3 DEF AfterRead, Copies
<1>5. CASE m.doc = d /\ m.op # "open" /\ ~(m.op = "change" /\ r # Absent)
  BY <1>1, <1>5 DEF AfterRead
<1> QED BY <1>2, <1>3, <1>4, <1>5

\* What is sent is read after all that was sent before.
LEMMA AheadGrows ==
  ASSUME Wired, NEW m, m.doc \in Docs, m.op \in {"open", "change", "close", "save"},
         m.op \in {"open", "change"} => m.version \in Nat \ {0},
         wire' = Append(wire, m), server' = server, NEW d \in Docs, Ahead(d),
         d \in sound' => \A r : (d \in sound => Agrees(r, d)) => Agrees(AfterRead(r, m, d), d)'
  PROVE  Ahead(d)'
<1>1. PICK f : Follows(f, d) /\ (d \in sound => Agrees(f[Len(wire)], d)) BY DEF Ahead
<1>2. /\ Len(wire) \in Nat /\ Len(wire') = Len(wire) + 1
      /\ \A i \in 1 .. Len(wire) : wire'[i] = wire[i]
      /\ wire'[Len(wire) + 1] = m
  BY Appended
<1> DEFINE n == Len(wire)
<1> PICK last : last = AfterRead(f[n], m, d) OBVIOUS
<1> PICK g : g = [i \in 0 .. (n + 1) |-> IF i <= n THEN f[i] ELSE last] OBVIOUS
<1>3. g[0] = server'[d] BY <1>1, <1>2 DEF Follows
<1>4. ASSUME NEW i \in 1 .. Len(wire') PROVE g[i] = AfterRead(g[i - 1], wire'[i], d)
  <2>1. CASE i <= n
    <3>1. i \in 1 .. n /\ g[i] = f[i] /\ g[i - 1] = f[i - 1] BY <1>2, <2>1
    <3>2. f[i] = AfterRead(f[i - 1], wire[i], d) /\ wire'[i] = wire[i]
      BY <1>1, <1>2, <3>1 DEF Follows
    <3> QED BY <3>1, <3>2
  <2>2. CASE i = n + 1
    <3>1. g[i] = last /\ g[i - 1] = f[n] /\ wire'[i] = m BY <1>2, <2>2
    <3> QED BY <3>1
  <2> QED BY <1>2, <2>1, <2>2
<1>5. g[Len(wire')] = last BY <1>2
<1>6. d \in sound' => Agrees(last, d)'
  <2> PICK r : r = f[n] OBVIOUS
  <2>1. d \in sound => Agrees(r, d) BY <1>1
  <2>2. d \in sound' => Agrees(AfterRead(r, m, d), d)' BY <2>1
  <2> QED BY <2>2
<1>7. Follows(g, d)' BY <1>3, <1>4 DEF Follows
<1> QED BY <1>5, <1>6, <1>7 DEF Ahead

\* What is to be read stays.
LEMMA AheadStays ==
  ASSUME UNCHANGED <<wire, server>>, NEW d \in Docs, Ahead(d),
         d \in sound' => /\ d \in sound /\ documents'[d] = documents[d]
                         /\ d \in ignored => d \in ignored'
  PROVE  Ahead(d)'
<1>1. PICK f : Follows(f, d) /\ (d \in sound => Agrees(f[Len(wire)], d)) BY DEF Ahead
<1>2. Follows(f, d)' BY <1>1 DEF Follows
<1> QED BY <1>1, <1>2 DEF Ahead, Agrees

\* What the server has read is not to be read any more.
LEMMA AheadTaken ==
  ASSUME Wired, wire # <<>>, wire' = Tail(wire), UNCHANGED <<sound, ignored, documents>>,
         NEW d \in Docs, Ahead(d), server'[d] = AfterRead(server[d], wire[1], d)
  PROVE  Ahead(d)'
<1>1. PICK f : Follows(f, d) /\ (d \in sound => Agrees(f[Len(wire)], d)) BY DEF Ahead
<1>2. /\ Len(wire) \in Nat \ {0} /\ Len(wire') = Len(wire) - 1
      /\ \A i \in 1 .. Len(wire') : wire'[i] = wire[i + 1]
  BY Taken
<1> PICK g : g = [i \in 0 .. Len(wire') |-> f[i + 1]] OBVIOUS
<1>3. g[0] = server'[d]
  <2>1. 1 \in 1 .. Len(wire) /\ 1 - 1 = 0 /\ 0 + 1 = 1 /\ 0 \in 0 .. Len(wire') BY <1>2
  <2>2. f[1] = AfterRead(f[1 - 1], wire[1], d) /\ f[0] = server[d] BY <1>1, <2>1 DEF Follows
  <2>3. g[0] = f[1] BY <2>1
  <2> QED BY <2>1, <2>2, <2>3
<1>4. ASSUME NEW i \in 1 .. Len(wire') PROVE g[i] = AfterRead(g[i - 1], wire'[i], d)
  <2>1. PICK j : j = i + 1 OBVIOUS
  <2>2. /\ j \in 1 .. Len(wire) /\ j - 1 = i /\ g[i] = f[j] /\ g[i - 1] = f[j - 1]
        /\ wire'[i] = wire[j]
    BY <1>2, <2>1
  <2>3. f[j] = AfterRead(f[j - 1], wire[j], d) BY <1>1, <2>2 DEF Follows
  <2> QED BY <2>2, <2>3
<1>5. g[Len(wire')] = f[Len(wire)] BY <1>2
<1>6. Follows(g, d)' BY <1>3, <1>4 DEF Follows
<1> QED BY <1>1, <1>5, <1>6 DEF Ahead, Agrees

----------------------------------------------------------------------------
(* The texts of both sides, step by step *)

\* Nothing is open when the manager is made.
LEMMA TextInit == Init => TextInv
<1> SUFFICES ASSUME Init PROVE TextInv OBVIOUS
<1>1. Absent \in Copies(Texts) /\ Absent \in Copies(Seq(Characters))
  <2>1. 0 \in 0 .. MaxVersion /\ MaxText \in Nat BY BoundsAssumption
  <2>2. <<>> \in Seq(Characters) /\ Len(<<>>) = 0 BY EmptySeq
  <2>3. <<>> \in Texts BY <2>1, <2>2, TextsAre
  <2> QED BY <2>1, <2>2, <2>3 DEF Absent, Copies
<1>2. wire = <<>> /\ Len(wire) = 0 /\ MaxWire \in Nat BY BoundsAssumption DEF Init
<1>3. ASSUME NEW d \in Docs PROVE Ahead(d)
  <2>1. PICK f : f = [i \in 0 .. 0 |-> server[d]] OBVIOUS
  <2>2. Follows(f, d) BY <1>2, <2>1 DEF Follows
  <2>3. d \notin sound BY DEF Init
  <2> QED BY <2>2, <2>3 DEF Ahead
<1>4. \A d \in Docs : /\ documents[d] \in Copies(Texts)
                      /\ server[d] \in Copies(Seq(Characters))
                      /\ d \in sound => Known(d)
  BY <1>1 DEF Init
<1> QED BY <1>2, <1>3, <1>4 DEF Init, TextInv

\* A call that notifies the server keeps both sides in step if what it does to
\* the document is what the server will do to what it then has.
LEMMA SentKeepsTexts ==
  ASSUME SyncInv, TextInv, NEW m, m.doc \in Docs, m.op \in {"open", "change", "save"},
         m.op \in {"open", "change"} => m.version \in Nat \ {0}, Sendable(m),
         NEW ready \in BOOLEAN, Sent(m, ready), m.op # "save" => ready = TRUE,
         UNCHANGED <<kind, link, server>>, ignored' \subseteq Docs,
         \A d \in Docs : /\ documents'[d] \in Copies(Texts)
                         /\ d # m.doc => /\ documents'[d] = documents[d]
                                         /\ d \in ignored => d \in ignored',
         documents'[m.doc] # Absent,
         \A r : /\ m.doc \in sound => Agrees(r, m.doc)
                /\ m.doc \in sound \/ m.op = "open"
                => Agrees(AfterRead(r, m, m.doc), m.doc)'
  PROVE  TextInv'
<1>1. \A d \in Docs : /\ server'[d] \in Copies(Seq(Characters))
                      /\ d \in sound' => Known(d)'
  <2>1. \A d \in Docs : d \in sound' => d \in sound \/ d = m.doc BY DEF Sent
  <2>2. \A d \in Docs : d \in sound => documents[d] # Absent BY DEF TextInv, Known
  <2> QED BY <2>1, <2>2 DEF TextInv, Known
<1>2. sound' \subseteq Docs BY DEF TextInv, Sent
<1>3. CASE link = "closed" \/ (ready /\ link # "initialized")
  <2>1. UNCHANGED wire /\ sound' = sound \ {m.doc} BY <1>3 DEF Sent
  <2>2. ASSUME NEW d \in Docs, link # "closed" PROVE Ahead(d)'
    <3>1. Ahead(d) BY <2>2 DEF TextInv
    <3>2. d \in sound' => /\ d \in sound /\ documents'[d] = documents[d]
                          /\ d \in ignored => d \in ignored'
      BY <2>1
    <3> QED BY <2>1, <3>1, <3>2, AheadStays
  <2> QED BY <1>1, <1>2, <2>1, <2>2 DEF TextInv
<1>4. CASE ~(link = "closed" \/ (ready /\ link # "initialized"))
  <2>1. /\ Len(wire) < MaxWire /\ wire' = Append(wire, m)
        /\ sound' = IF m.op = "open" THEN sound \cup {m.doc} ELSE sound
    BY <1>4 DEF Sent
  <2>2. /\ Len(wire) \in Nat /\ Len(wire') = Len(wire) + 1
        /\ \A i \in 1 .. Len(wire) : wire'[i] = wire[i]
        /\ wire'[Len(wire) + 1] = m
    BY <2>1, Appended DEF SyncInv
  <2>3. Len(wire') <= MaxWire BY <2>1, <2>2, BoundsAssumption
  <2>4. ASSUME NEW i \in 1 .. Len(wire')
        PROVE  Sendable(wire'[i]) /\ (link' = "new" => wire'[i].op \in {"close", "save"})
    <3>1. CASE i \in 1 .. Len(wire) BY <2>2, <3>1 DEF TextInv
    <3>2. CASE i = Len(wire) + 1 BY <1>4, <2>2, <3>2
    <3> QED BY <2>2, <3>1, <3>2
  <2>5. ASSUME NEW d \in Docs PROVE Ahead(d)'
    <3>1. Ahead(d) BY <1>4 DEF TextInv
    <3>2. d \in sound' =>
            \A r : (d \in sound => Agrees(r, d)) => Agrees(AfterRead(r, m, d), d)'
      <4>1. CASE d = m.doc BY <2>1, <4>1
      <4>2. CASE d # m.doc
        <5>1. d \in sound' => d \in sound BY <2>1, <4>2
        <5>2. \A r : Agrees(r, d) => Agrees(r, d)' BY <4>2 DEF Agrees
        <5>3. \A r : AfterRead(r, m, d) = r BY <4>2 DEF AfterRead
        <5> QED BY <5>1, <5>2, <5>3
      <4> QED BY <4>1, <4>2
    <3> QED BY <2>1, <3>1, <3>2, AheadGrows DEF SyncInv
  <2> QED BY <1>1, <1>2, <2>3, <2>4, <2>5 DEF TextInv
<1> QED BY <1>3, <1>4

\* The text of a document is opened.
LEMMA OpenKeepsTexts ==
  ASSUME SyncInv, TextInv, NEW d \in Docs, NEW text \in Texts, Open(d, text)
  PROVE  TextInv'
<1>1. PICK m : m = [op |-> "open", doc |-> d, version |-> 1, text |-> text] OBVIOUS
<1>2. /\ m.doc = d /\ m.op = "open" /\ m.version = 1 /\ m.text = text BY <1>1
<1>3. /\ Sent(m, TRUE) /\ UNCHANGED <<kind, link, server>> /\ ~Known(d)
      /\ ignored' = ignored \ {d}
  BY <1>1 DEF Open
<1>4. PICK new : new = [version |-> 1, text |-> text] OBVIOUS
<1>5. 1 \in 0 .. MaxVersion BY BoundsAssumption
<1>6. new \in Copies(Texts) /\ new # Absent BY <1>4, <1>5 DEF Copies, Absent
<1>7. documents' = [documents EXCEPT ![d] = new] BY <1>4 DEF Open
<1>8. documents'[d] = new /\ \A c \in Docs : c # d => documents'[c] = documents[c]
  BY <1>7 DEF SyncInv, Versioned
<1>9. \A c \in Docs : documents'[c] \in Copies(Texts) BY <1>6, <1>8 DEF TextInv
<1>10. Sendable(m) BY <1>2, <1>5 DEF Sendable
<1>11. \A r : AfterRead(r, m, d) = new BY <1>2, <1>4 DEF AfterRead
<1>12. /\ m.doc \in Docs /\ m.op \in {"open", "change", "save"} /\ m.version \in Nat \ {0}
       /\ documents'[m.doc] # Absent
       /\ \A r : Agrees(AfterRead(r, m, m.doc), m.doc)'
       /\ \A c \in Docs : c # m.doc => /\ documents'[c] = documents[c]
                                       /\ c \in ignored => c \in ignored'
  BY <1>2, <1>3, <1>6, <1>8, <1>11 DEF Agrees
<1>13. ignored' \subseteq Docs BY <1>3 DEF TextInv
<1> QED BY <1>13, <1>3, <1>9, <1>10, <1>12, SentKeepsTexts

\* A change is kept and sent: the server makes the same of it.
LEMMA ApplyKeepsTexts ==
  ASSUME SyncInv, TextInv, NEW d \in Docs, NEW text \in Texts, NEW edits, Known(d),
         documents[d].version < MaxVersion, Apply(d, text, edits),
         UNCHANGED <<kind, link, server>>, Passed(d, edits),
         Len(edits) \in Nat, \A n \in 1 .. Len(edits) : Change(edits[n]),
         \A old : d \notin ignored' /\ (d \notin ignored => old = documents[d].text)
                   => EditedInTurn(old, edits) = text
  PROVE  TextInv'
<1>1. PICK v : v = documents[d].version + 1 OBVIOUS
<1>2. v \in 0 .. MaxVersion /\ v \in Nat \ {0}
  <2>1. documents[d].version \in 0 .. MaxVersion BY DEF TextInv, Copies
  <2> QED BY <1>1, <2>1, BoundsAssumption
<1>3. PICK m : m = [op |-> "change", doc |-> d, version |-> v, edits |-> edits] OBVIOUS
<1>4. m.doc = d /\ m.op = "change" /\ m.version = v /\ m.edits = edits BY <1>3
<1>5. Sent(m, TRUE) BY <1>1, <1>3 DEF Apply
<1>6. PICK new : new = [version |-> v, text |-> text] OBVIOUS
<1>7. new \in Copies(Texts) /\ new # Absent BY <1>2, <1>6 DEF Copies, Absent
<1>8. documents' = [documents EXCEPT ![d] = new]
  BY <1>1, <1>6 DEF Apply, SyncInv, Versioned
<1>9. documents'[d] = new /\ \A c \in Docs : c # d => documents'[c] = documents[c]
  BY <1>8 DEF SyncInv, Versioned
<1>10. \A c \in Docs : documents'[c] \in Copies(Texts) BY <1>7, <1>9 DEF TextInv
<1>11. Sendable(m) BY <1>2, <1>4 DEF Sendable
<1>12. ASSUME NEW r, Agrees(r, d) PROVE Agrees(AfterRead(r, m, d), d)'
  <2>1. documents[d].version # 0 BY DEF SyncInv, Versioned, Known
  <2>2. r # Absent BY <1>12, <2>1 DEF Agrees, Absent
  <2>3. AfterRead(r, m, d) = [version |-> v, text |-> EditedInTurn(r.text, edits)]
    BY <1>4, <2>2 DEF AfterRead
  <2>4. documents'[d].version = v /\ documents'[d].text = text BY <1>6, <1>9
  <2>5. d \notin ignored' => EditedInTurn(r.text, edits) = text BY <1>12 DEF Agrees
  <2> QED BY <2>3, <2>4, <2>5 DEF Agrees
<1>13. ignored' \subseteq Docs BY DEF Passed, TextInv
<1>14. \A c \in Docs : c # d /\ c \in ignored => c \in ignored' BY DEF Passed
<1> QED BY <1>2, <1>4, <1>5, <1>7, <1>9, <1>10, <1>11, <1>12, <1>13, <1>14, SentKeepsTexts

\* What programs pass to Change for a server of kind Full: events, of which the
\* first has a text of bounded length if it is a whole document.
LEMMA ReplacementsAre ==
  ASSUME NEW c \in Replacements
  PROVE  /\ Len(c) \in Nat /\ \A n \in 1 .. Len(c) : Change(c[n])
         /\ c # <<>> => Len(c) # 0 /\ (c[1].form = "whole" => c[1].text \in Texts)
<1>1. <<>> \in Seq(Characters) /\ \A t \in Texts : t \in Seq(Characters) BY EmptySeq, TextsAre
<1>2. \A t \in Pieces : t \in Seq(Characters)
  <2> SUFFICES ASSUME NEW t \in Pieces PROVE t \in Seq(Characters) OBVIOUS
  <2>1. PICK n \in 0 .. 1 : t \in [1 .. n -> Characters]
    BY DEF Pieces, BoundedSeq, SeqOf, Characters
  <2> QED BY <2>1, SeqDef
<1>3. Origin \in Place BY DEF Origin, Place
<1>4. \A t \in Seq(Characters) :
        /\ Change(Whole(t)) /\ Whole(t).form = "whole" /\ Whole(t).text = t
        /\ Change(Replacing(t)) /\ Replacing(t).form = "partial"
        /\ Change(Part(Origin, Origin, t)) /\ Part(Origin, Origin, t).form = "partial"
  <2> SUFFICES ASSUME NEW t \in Seq(Characters)
               PROVE  /\ Change(Whole(t)) /\ Whole(t).form = "whole" /\ Whole(t).text = t
                      /\ Change(Replacing(t)) /\ Replacing(t).form = "partial"
                      /\ Change(Part(Origin, Origin, t))
                      /\ Part(Origin, Origin, t).form = "partial"
    OBVIOUS
  <2>1. Change(Whole(t)) /\ Whole(t).form = "whole" /\ Whole(t).text = t
    BY DEF Change, Whole
  <2>2. Change(Replacing(t)) /\ Replacing(t).form = "partial" BY DEF Change, Replacing
  <2>3. Change(Part(Origin, Origin, t)) /\ Part(Origin, Origin, t).form = "partial"
    BY <1>3 DEF Change, Part
  <2> QED BY <2>1, <2>2, <2>3
<1>5. CASE c = <<>> BY <1>5
<1>6. ASSUME NEW e, c = <<e>>, Change(e), e.form = "whole" => e.text \in Texts
      PROVE  /\ Len(c) \in Nat /\ \A n \in 1 .. Len(c) : Change(c[n])
             /\ Len(c) # 0 /\ (c[1].form = "whole" => c[1].text \in Texts)
  <2>1. Len(c) = 1 /\ c[1] = e BY <1>6
  <2> QED BY <1>6, <2>1
<1>7. ASSUME NEW t \in Texts, c = <<Whole(t), Whole(<<>>)>>
      PROVE  /\ Len(c) \in Nat /\ \A n \in 1 .. Len(c) : Change(c[n])
             /\ Len(c) # 0 /\ (c[1].form = "whole" => c[1].text \in Texts)
  <2>1. Len(c) = 2 /\ c[1] = Whole(t) /\ c[2] = Whole(<<>>) BY <1>7
  <2>2. Change(Whole(t)) /\ Whole(t).text = t /\ Change(Whole(<<>>)) BY <1>1, <1>4
  <2>3. ASSUME NEW n \in 1 .. Len(c) PROVE Change(c[n])
    <3>1. n \in {1, 2} BY <2>1
    <3> QED BY <2>1, <2>2, <3>1
  <2> QED BY <2>1, <2>2, <2>3
<1>8. CASE c = <<Replacing(<<>>)>>
  <2>1. PICK e : e = Replacing(<<>>) OBVIOUS
  <2> QED BY <1>1, <1>4, <1>6, <1>8, <2>1
<1>9. ASSUME NEW t \in Texts, c = <<Whole(t)>>
      PROVE  /\ Len(c) \in Nat /\ \A n \in 1 .. Len(c) : Change(c[n])
             /\ Len(c) # 0 /\ (c[1].form = "whole" => c[1].text \in Texts)
  <2>1. PICK e : e = Whole(t) OBVIOUS
  <2> QED BY <1>1, <1>4, <1>6, <1>9, <2>1
<1>10. ASSUME NEW t \in Pieces, c = <<Part(Origin, Origin, t)>>
       PROVE  /\ Len(c) \in Nat /\ \A n \in 1 .. Len(c) : Change(c[n])
              /\ Len(c) # 0 /\ (c[1].form = "whole" => c[1].text \in Texts)
  <2>1. PICK e : e = Part(Origin, Origin, t) OBVIOUS
  <2> QED BY <1>2, <1>4, <1>6, <1>10, <2>1
<1> QED BY <1>5, <1>7, <1>8, <1>9, <1>10 DEF Replacements

\* A whole document is what both sides have next; no event changes neither.
LEMMA ChangeWholeKeepsTexts ==
  ASSUME SyncInv, TextInv, NEW d \in Docs, NEW edits \in Replacements, ChangeWhole(d, edits)
  PROVE  TextInv'
<1>1. /\ Len(edits) \in Nat /\ \A n \in 1 .. Len(edits) : Change(edits[n])
      /\ edits # <<>> => Len(edits) # 0 /\ (edits[1].form = "whole" => edits[1].text \in Texts)
  BY ReplacementsAre
<1>2. PICK text : text = Replaced(documents[d].text, edits) OBVIOUS
<1>3. text \in Texts
  <2>1. documents[d].text \in Texts BY DEF TextInv, Copies
  <2> QED BY <1>1, <1>2, <2>1 DEF Replaced
<1>4. /\ Known(d) /\ kind = "Full" /\ documents[d].version < MaxVersion
      /\ Apply(d, text, edits) /\ Passed(d, edits) /\ UNCHANGED <<kind, link, server>>
  BY <1>2 DEF ChangeWhole
<1>5. ASSUME NEW old, d \notin ignored', d \notin ignored => old = documents[d].text
      PROVE  EditedInTurn(old, edits) = text
  <2>1. MakesAll(edits) BY <1>4, <1>5 DEF Passed
  <2>2. PICK f : Editing(f, old, edits) /\ EditedInTurn(old, edits) = f[Len(edits)]
    BY ONLY <1>1, EditedInTurnIs
  <2>3. CASE edits = <<>>
    <3>1. Len(edits) = 0 BY <2>3
    <3>2. f[0] = old BY <2>2, <3>1 DEF Editing
    <3>3. old = documents[d].text BY <1>4, <1>5, <2>3 DEF Passed
    <3>4. text = documents[d].text BY <1>2, <2>3 DEF Replaced
    <3> QED BY <2>2, <3>1, <3>2, <3>3, <3>4
  <2>4. CASE Len(edits) = 1 /\ edits[1].form = "whole" /\ edits # <<>>
    <3>1. text = edits[1].text BY <1>2, <2>4 DEF Replaced
    <3>2. edits[1].range = <<>>
      <4>1. \E t : edits = <<Whole(t)>> \/ edits = <<Whole(t), Whole(<<>>)>>
                   \/ edits = <<Replacing(<<>>)>> \/ edits = <<Part(Origin, Origin, t)>>
        BY <2>4 DEF Replacements
      <4>2. PICK t : edits = <<Whole(t)>> \/ edits = <<Whole(t), Whole(<<>>)>>
                     \/ edits = <<Replacing(<<>>)>> \/ edits = <<Part(Origin, Origin, t)>>
        BY <4>1
      <4>3. Part(Origin, Origin, t).form = "partial" BY DEF Part
      <4>4. edits[1] = Whole(t) \/ edits[1] = Replacing(<<>>) BY <2>4, <4>2, <4>3
      <4> QED BY <4>4 DEF Whole, Replacing
    <3>3. f[1] = Edited(f[1 - 1], edits[1])
      <4>1. 1 \in 0 .. 1 /\ 1 # 0 OBVIOUS
      <4> QED BY <2>2, <2>4, <4>1 DEF Editing
    <3>4. f[1] = edits[1].text BY <3>2, <3>3 DEF Edited
    <3> QED BY <2>2, <2>4, <3>1, <3>4
  <2> QED BY <1>4, <2>1, <2>3, <2>4 DEF MakesAll
<1> QED BY <1>1, <1>3, <1>4, <1>5, ApplyKeepsTexts

\* The changes of a call make the same text on both sides, or the call fails.
LEMMA ChangePartsKeepsTexts ==
  ASSUME SyncInv, TextInv, NEW d \in Docs, NEW b \in Batches(documents[d].text),
         ChangeParts(d, b)
  PROVE  TextInv'
<1>1. PICK text : text = documents[d].text OBVIOUS
<1>2. text \in Texts /\ text \in Seq(Characters)
  <2>1. text \in Texts BY <1>1 DEF TextInv, Copies
  <2> QED BY <2>1, TextsAre
<1>3. b \in Batches(text) BY <1>1
<1>4. PICK after : after = AppliedInTurn(text, b) OBVIOUS
<1>5. /\ Len(b) \in Nat /\ \A n \in 1 .. Len(b) : Change(b[n])
      /\ after.text \in Seq(Characters) /\ after.ok \in BOOLEAN
      /\ after.ok /\ (\A n \in 1 .. Len(b) : b[n].form = "partial")
           => EditedInTurn(text, b) = after.text
  BY <1>2, <1>3, <1>4, BatchAgrees
<1>6. /\ Known(d) /\ documents[d].version < MaxVersion /\ Len(after.text) <= MaxText
      /\ IF after.ok THEN Apply(d, after.text, b) /\ Passed(d, b)
         ELSE /\ documents' = [documents EXCEPT ![d].text = after.text]
              /\ sound' = sound \ {d}
              /\ UNCHANGED <<ignored, wire>>
      /\ UNCHANGED <<kind, link, server>>
  BY <1>1, <1>4 DEF ChangeParts
<1>7. after.text \in Texts BY <1>5, <1>6, TextsAre
<1>8. CASE after.ok
  <2>1. Apply(d, after.text, b) /\ Passed(d, b) BY <1>6, <1>8
  <2>2. kind = "Incremental" BY DEF ChangeParts
  <2>3. ASSUME NEW old, d \notin ignored', d \notin ignored => old = documents[d].text
        PROVE  EditedInTurn(old, b) = after.text
    <3>1. MakesAll(b) /\ ignored' = ignored BY <2>1, <2>2, <2>3 DEF Passed
    <3>2. \A n \in DOMAIN b : b[n].form = "partial" BY <2>2, <3>1 DEF MakesAll
    <3>3. DOMAIN b = 1 .. Len(b) BY BatchIsSequence
    <3> QED BY <1>1, <1>5, <1>8, <2>3, <3>1, <3>2, <3>3
  <2> QED BY <1>5, <1>6, <1>7, <2>1, <2>3, ApplyKeepsTexts
<1>9. CASE ~after.ok
  <2>1. /\ documents' = [documents EXCEPT ![d].text = after.text]
        /\ sound' = sound \ {d} /\ UNCHANGED <<kind, link, ignored, wire, server>>
    BY <1>6, <1>9
  <2>2. documents'[d] = [documents[d] EXCEPT !.text = after.text]
        /\ \A c \in Docs : c # d => documents'[c] = documents[c]
    BY <2>1 DEF SyncInv, Versioned
  <2>3. documents'[d] \in Copies(Texts) BY <1>7, <2>2 DEF TextInv, Copies
  <2>4. ASSUME NEW c \in Docs
        PROVE  /\ documents'[c] \in Copies(Texts) /\ server'[c] \in Copies(Seq(Characters))
               /\ c \in sound' => Known(c)'
    BY <2>1, <2>2, <2>3 DEF TextInv, Known
  <2>5. ASSUME NEW c \in Docs, link # "closed" PROVE Ahead(c)'
    <3>1. Ahead(c) BY <2>5 DEF TextInv
    <3>2. c \in sound' => c \in sound /\ documents'[c] = documents[c] BY <2>1, <2>2
    <3> QED BY <2>1, <3>1, <3>2, AheadStays
  <2> QED BY <2>1, <2>4, <2>5 DEF TextInv
<1> QED BY <1>5, <1>8, <1>9

\* A document that is closed has no text to agree on.
LEMMA CloseKeepsTexts ==
  ASSUME SyncInv, TextInv, NEW d \in Docs, Close(d)
  PROVE  TextInv'
<1>1. PICK m : m = [op |-> "close", doc |-> d] OBVIOUS
<1>2. m.op = "close" /\ m.doc = d BY <1>1
<1>3. /\ documents' = [documents EXCEPT ![d] = Absent] /\ sound' = sound \ {d}
      /\ UNCHANGED <<kind, link, ignored, server>>
  BY DEF Close
<1>4. Absent \in Copies(Texts)
  <2>1. 0 \in 0 .. MaxVersion /\ MaxText \in Nat BY BoundsAssumption
  <2>2. <<>> \in Seq(Characters) /\ Len(<<>>) = 0 BY EmptySeq
  <2>3. <<>> \in Texts BY <2>1, <2>2, TextsAre
  <2> QED BY <2>1, <2>3 DEF Absent, Copies
<1>5. documents'[d] = Absent /\ \A c \in Docs : c # d => documents'[c] = documents[c]
  BY <1>3 DEF SyncInv, Versioned
<1>6. ASSUME NEW c \in Docs
      PROVE  /\ documents'[c] \in Copies(Texts) /\ server'[c] \in Copies(Seq(Characters))
             /\ c \in sound' => Known(c)'
  BY <1>3, <1>4, <1>5 DEF TextInv, Known
<1>7. \A c \in Docs : c \in sound' => c \in sound /\ documents'[c] = documents[c]
  BY <1>3, <1>5
<1>8. CASE link = "closed"
  <2>1. wire' = wire BY <1>8 DEF Close
  <2> QED BY <1>3, <1>6, <1>8, <2>1 DEF TextInv
<1>9. CASE link # "closed"
  <2>1. Len(wire) < MaxWire /\ wire' = Append(wire, m) BY <1>1, <1>9 DEF Close
  <2>2. /\ Len(wire) \in Nat /\ Len(wire') = Len(wire) + 1
        /\ \A i \in 1 .. Len(wire) : wire'[i] = wire[i]
        /\ wire'[Len(wire) + 1] = m
    BY <1>2, <2>1, Appended DEF SyncInv
  <2>3. Len(wire') <= MaxWire BY <2>1, <2>2, BoundsAssumption
  <2>4. Sendable(m) BY <1>2 DEF Sendable
  <2>5. ASSUME NEW i \in 1 .. Len(wire')
        PROVE  Sendable(wire'[i]) /\ (link' = "new" => wire'[i].op \in {"close", "save"})
    <3>1. CASE i \in 1 .. Len(wire) BY <1>3, <2>2, <3>1 DEF TextInv
    <3>2. CASE i = Len(wire) + 1 BY <1>2, <2>2, <2>4, <3>2
    <3> QED BY <2>2, <3>1, <3>2
  <2>6. ASSUME NEW c \in Docs PROVE Ahead(c)'
    <3>1. Ahead(c) BY <1>9 DEF TextInv
    <3>2. c \in sound' =>
            \A r : (c \in sound => Agrees(r, c)) => Agrees(AfterRead(r, m, c), c)'
      <4>1. c \in sound' => m.doc # c /\ c \in sound /\ documents'[c] = documents[c]
        BY <1>2, <1>3, <1>7
      <4>2. m.doc # c => \A r : AfterRead(r, m, c) = r BY DEF AfterRead
      <4>3. documents'[c] = documents[c] => \A r : Agrees(r, c) => Agrees(r, c)'
        BY <1>3 DEF Agrees
      <4> QED BY <4>1, <4>2, <4>3
    <3> QED BY <1>2, <1>3, <2>1, <3>1, <3>2, AheadGrows DEF SyncInv
  <2> QED BY <1>3, <1>6, <2>3, <2>5, <2>6 DEF TextInv
<1> QED BY <1>8, <1>9

\* Saving changes no text.
LEMMA SaveKeepsTexts ==
  ASSUME SyncInv, TextInv, NEW d \in Docs, Save(d)
  PROVE  TextInv'
<1>1. PICK m : m = [op |-> "save", doc |-> d, text |-> documents[d].text] OBVIOUS
<1>2. m.op = "save" /\ m.doc = d BY <1>1
<1>3. Sent(m, FALSE) /\ UNCHANGED <<kind, link, documents, ignored, server>> /\ Known(d)
  BY <1>1 DEF Save
<1>4. Sendable(m) BY <1>2 DEF Sendable
<1>5. \A c \in Docs : documents'[c] \in Copies(Texts) /\ documents'[c] = documents[c]
  BY <1>3 DEF TextInv
<1>6. \A r : AfterRead(r, m, m.doc) = r BY <1>2 DEF AfterRead
<1>7. /\ m.doc \in Docs /\ m.op \in {"open", "change", "save"}
      /\ m.op \notin {"open", "change"} /\ documents'[m.doc] # Absent
      /\ \A r : Agrees(r, m.doc) => Agrees(AfterRead(r, m, m.doc), m.doc)'
  BY <1>2, <1>3, <1>5, <1>6 DEF Known, Agrees
<1>8. ignored' \subseteq Docs /\ \A c \in Docs : c \in ignored => c \in ignored'
  BY <1>3 DEF TextInv
<1> QED BY <1>8, <1>2, <1>3, <1>4, <1>5, <1>7, SentKeepsTexts

\* Nothing is in flight to a client that is initialized but what was closed or
\* saved, and nothing at all when the connection ends.
LEMMA LinkKeepsTexts ==
  ASSUME SyncInv, TextInv, Initialize \/ Lose
  PROVE  TextInv'
<1>1. UNCHANGED <<kind, documents, sound, ignored, server>> BY DEF Initialize, Lose
<1>2. ASSUME NEW c \in Docs
      PROVE  /\ documents'[c] \in Copies(Texts) /\ server'[c] \in Copies(Seq(Characters))
             /\ c \in sound' => Known(c)'
  BY <1>1 DEF TextInv, Known
<1>3. CASE Initialize
  <2>1. wire' = wire /\ link = "new" /\ link' = "initialized" BY <1>3 DEF Initialize
  <2>2. ASSUME NEW c \in Docs PROVE Ahead(c)'
    <3>1. Ahead(c) BY <2>1 DEF TextInv
    <3> QED BY <1>1, <2>1, <3>1, AheadStays
  <2> QED BY <1>1, <1>2, <2>1, <2>2 DEF TextInv
<1>4. CASE Lose
  <2>1. wire' = <<>> /\ link' = "closed" /\ Len(wire') = 0 BY <1>4 DEF Lose
  <2>2. MaxWire \in Nat BY BoundsAssumption
  <2> QED BY <1>1, <1>2, <2>1, <2>2 DEF TextInv
<1> QED BY <1>3, <1>4

\* The server reads a notification: it has then what AfterRead says.
LEMMA ReadKeepsTexts ==
  ASSUME SyncInv, TextInv, Read
  PROVE  TextInv'
<1>1. /\ Wired /\ wire # <<>> /\ wire' = Tail(wire)
      /\ UNCHANGED <<kind, link, documents, sound, ignored>>
  BY DEF Read, SyncInv
<1>2. /\ Len(wire) \in Nat \ {0} /\ Len(wire') = Len(wire) - 1
      /\ \A i \in 1 .. Len(wire') : wire'[i] = wire[i + 1]
      /\ Head(wire) = wire[1]
  BY <1>1, Taken
<1>3. PICK m : m = wire[1] OBVIOUS
<1>4. 1 \in 1 .. Len(wire) /\ m = Head(wire) BY <1>2, <1>3
<1>5. m.doc \in Docs /\ m.op \in {"open", "change", "close", "save"} /\ Sendable(m)
  BY <1>1, <1>3, <1>4 DEF Wired, TextInv
<1>6. server = [d \in Docs |-> server[d]] BY DEF SyncInv, Versioned
<1>7. server' = CASE m.op = "open" ->
                       [server EXCEPT ![m.doc] = [version |-> m.version, text |-> m.text]]
                  [] m.op = "change" /\ server[m.doc] # Absent ->
                       [server EXCEPT ![m.doc] =
                          [version |-> m.version, text |-> EditedInTurn(@.text, m.edits)]]
                  [] m.op = "close" -> [server EXCEPT ![m.doc] = Absent]
                  [] OTHER -> server
  BY <1>4 DEF Read
<1>8. ASSUME NEW d \in Docs PROVE server'[d] = AfterRead(server[d], m, d)
  <2>1. CASE m.doc # d
    <3>1. server'[d] = server[d] BY <1>5, <1>6, <1>7, <2>1
    <3> QED BY <2>1, <3>1 DEF AfterRead
  <2>2. CASE m.doc = d /\ m.op = "open"
    <3>1. server' = [server EXCEPT ![d] = [version |-> m.version, text |-> m.text]]
      BY <1>7, <2>2
    <3>2. server'[d] = [version |-> m.version, text |-> m.text] BY <1>6, <3>1
    <3> QED BY <2>2, <3>2 DEF AfterRead
  <2>3. CASE m.doc = d /\ m.op = "change" /\ server[d] # Absent
    <3>1. PICK new : new = [version |-> m.version,
                            text |-> EditedInTurn(server[d].text, m.edits)]
      OBVIOUS
    <3>2. server' = [server EXCEPT ![d] = new] BY <1>6, <1>7, <2>3, <3>1
    <3>3. server'[d] = new BY <1>6, <3>2
    <3> QED BY <2>3, <3>1, <3>3 DEF AfterRead
  <2>4. CASE m.doc = d /\ m.op = "close"
    <3>1. server' = [server EXCEPT ![d] = Absent] BY <1>7, <2>4
    <3>2. server'[d] = Absent BY <1>6, <3>1
    <3> QED BY <2>4, <3>2 DEF AfterRead
  <2>5. CASE m.doc = d /\ (m.op = "save" \/ (m.op = "change" /\ server[d] = Absent))
    <3>1. server' = server BY <1>7, <2>5
    <3> QED BY <2>5, <3>1 DEF AfterRead
  <2> QED BY <1>5, <2>1, <2>2, <2>3, <2>4, <2>5
<1>9. ASSUME NEW d \in Docs
      PROVE  /\ documents'[d] \in Copies(Texts) /\ server'[d] \in Copies(Seq(Characters))
             /\ d \in sound' => Known(d)'
  <2>1. server[d] \in Copies(Seq(Characters)) BY DEF TextInv
  <2>2. server'[d] \in Copies(Seq(Characters)) BY <1>5, <1>8, <2>1, AfterReadIsCopy
  <2> QED BY <1>1, <2>2 DEF TextInv, Known
<1>10. ASSUME NEW i \in 1 .. Len(wire')
       PROVE  Sendable(wire'[i]) /\ (link' = "new" => wire'[i].op \in {"close", "save"})
  <2>1. i + 1 \in 1 .. Len(wire) /\ wire'[i] = wire[i + 1] BY <1>2
  <2> QED BY <1>1, <2>1 DEF TextInv
<1>11. ASSUME NEW d \in Docs, link # "closed" PROVE Ahead(d)'
  <2>1. Ahead(d) BY <1>11 DEF TextInv
  <2> QED BY <1>1, <1>3, <1>8, <2>1, AheadTaken
<1>12. Len(wire') <= MaxWire BY <1>2, BoundsAssumption DEF TextInv
<1> QED BY <1>1, <1>9, <1>10, <1>11, <1>12 DEF TextInv

\* Every step keeps the two sides in step.
LEMMA TextNext == SyncInv /\ TextInv /\ [Next]_vars => TextInv'
<1> SUFFICES ASSUME SyncInv, TextInv, [Next]_vars PROVE TextInv' OBVIOUS
<1>1. CASE UNCHANGED vars
  <2>1. UNCHANGED <<kind, link, documents, sound, ignored, wire, server>> BY <1>1 DEF vars
  <2>2. ASSUME NEW d \in Docs, link # "closed" PROVE Ahead(d)'
    <3>1. Ahead(d) BY <2>2 DEF TextInv
    <3> QED BY <2>1, <3>1, AheadStays
  <2> QED BY <2>1, <2>2 DEF TextInv, Known
<1>2. ASSUME NEW d \in Docs, NEW t \in Texts, Open(d, t) PROVE TextInv'
  BY <1>2, OpenKeepsTexts
<1>3. ASSUME NEW d \in Docs, NEW c \in Replacements, ChangeWhole(d, c) PROVE TextInv'
  BY <1>3, ChangeWholeKeepsTexts
<1>4. ASSUME NEW d \in Docs, NEW b \in Batches(documents[d].text), ChangeParts(d, b)
      PROVE  TextInv'
  BY <1>4, ChangePartsKeepsTexts
<1>5. ASSUME NEW d \in Docs, Close(d) \/ Save(d) PROVE TextInv'
  BY <1>5, CloseKeepsTexts, SaveKeepsTexts
<1>6. ASSUME NEW d \in Docs, ChangeNothing(d) PROVE TextInv' BY <1>1, <1>6 DEF ChangeNothing
<1>7. CASE Initialize \/ Lose BY <1>7, LinkKeepsTexts
<1>8. CASE Read BY <1>8, ReadKeepsTexts
<1> QED BY <1>1, <1>2, <1>3, <1>4, <1>5, <1>6, <1>7, <1>8 DEF Next

\* Both invariants hold for all numbers of documents and lengths of texts.
THEOREM TextInvariant == Spec => []TextInv
<1> QED BY SyncInit, SyncNext, TextInit, TextNext, PTL DEF Spec

\* The manager keeps texts, versions and only open documents, and sends no more
\* than it may (TextDocumentSyncManager).
THEOREM DocumentsTyped == Spec => []TypeOK
<1>1. SyncInv /\ TextInv => TypeOK
  <2> SUFFICES ASSUME SyncInv, TextInv PROVE TypeOK OBVIOUS
  <2>1. kind \in Kinds /\ link \in {"new", "initialized", "closed"} /\ Len(wire) <= MaxWire
    BY DEF SyncInv, TextInv
  <2>2. ASSUME NEW d \in Docs
        PROVE  /\ documents[d].version \in 0 .. MaxVersion /\ server[d].version \in 0 .. MaxVersion
               /\ documents[d].text \in Texts
               /\ server[d].text \in Seq(Letters \cup {Newline})
               /\ d \in sound => Known(d)
    BY DEF TextInv, Copies, Characters
  <2>3. DOMAIN wire = 1 .. Len(wire) BY DEF SyncInv, Wired
  <2>4. link = "new" => \A i \in DOMAIN wire : wire[i].op \in {"close", "save"}
    BY <2>3 DEF TextInv
  <2>5. ignored \subseteq Docs BY DEF TextInv
  <2> QED BY <2>1, <2>2, <2>4, <2>5 DEF TypeOK
<1> QED BY <1>1, SyncInvariant, TextInvariant, PTL

\* A server that has read all it was sent has the version of the manager for every
\* document of which no call has failed, and its text unless the manager passed on
\* a change that it ignored itself, whatever the length of the texts and however
\* they are edited (Open, Change with applyFullDocumentChange and
\* applyIncrementalChange, Close).
THEOREM CopiesAgree == Spec => []InStep
<1>1. TextInv => InStep
  <2> SUFFICES ASSUME TextInv, wire = <<>>, link # "closed", NEW d \in sound
               PROVE  Agrees(server[d], d)
    BY DEF InStep, Agrees
  <2>1. CASE d \in Docs
    <3>1. PICK f : Follows(f, d) /\ (d \in sound => Agrees(f[Len(wire)], d))
      BY <2>1 DEF TextInv, Ahead
    <3>2. Len(wire) = 0 OBVIOUS
    <3> QED BY <3>1, <3>2 DEF Follows
  <2>2. d \in Docs BY DEF TextInv
  <2> QED BY <2>1, <2>2
<1> QED BY <1>1, TextInvariant, PTL
=============================================================================
