---------------------------- MODULE MCDesktop_proofs ----------------------------
(* What the desktop's parts promise, for every set of keys, threads, models, settings
   and demo notes: MCDesktop runs one part at a time, so an invariant of each part is
   an invariant of the whole while that part is the scene. *)
EXTENDS MCDesktop, FiniteSetTheorems, NaturalsInduction, WellFoundedInduction, TLAPS

-----------------------------------------------------------------------------
(* The window that closes. *)

Sending == {"announce", "write", "report"}

ChainPcs == Sending \union {"idle", "announced", "deferred", "writing", "written", "failed", "saved",
                            "refused", "reported", "contested"}

Calls == W!Chains \union {W!CompleteCall, W!CancelCall}

IsPage(p) ==
  p \in [pending : [Keys -> Nat], closing : {p.closing}, retry : {p.retry}, dirty : {p.dirty},
         asking : {p.asking}, replies : {p.replies}]

IsBridge(b) ==
  b \in [action : {b.action}, count : Nat, inflight : {b.inflight}, scheduled : {b.scheduled}]

IsWindow(w) ==
  w \in [open : {w.open}, drain : {w.drain}, timer : {w.timer}, destroying : {w.destroying}]

ChainTable == [W!Chains -> [pc : ChainPcs, value : Nat, size : Nat]]

KnownTable == [Keys -> [told : Nat, written : Nat]]

Allowed == [changes : 0 .. MaxChanges, edits : Nat, faults : Nat, clicks : Nat]

WindowTypes ==
  /\ IsPage(page) /\ IsBridge(bridge) /\ IsWindow(window)
  /\ chains \in ChainTable /\ known \in KnownTable
  /\ calls \in Seq(Calls) /\ budget \in Allowed

(* A chain is in the queue at most once, and only while it waits for an answer. *)
Sent(q, ch) == \A i \in DOMAIN q : q[i] \in W!Chains => ch[q[i]].pc \in Sending

Once(q) == \A i, j \in DOMAIN q : q[i] \in W!Chains /\ q[i] = q[j] => i = j

(* Everything the bridge was told of has been written. *)
AllWritten(kn) == \A k \in Keys : kn[k].told <= kn[k].written

(* The report of an empty queue follows no announcement of something unwritten. *)
Empties(q, ch, i) == q[i] \in W!Chains /\ ch[q[i]].pc = "report" /\ ch[q[i]].size = 0

AnnouncesWritten(q, ch, kn, j) ==
  q[j] \in W!Chains /\ ch[q[j]].pc = "announce" => ch[q[j]].value <= kn[q[j][1]].written

Heard(q, ch, kn) ==
  \A i \in DOMAIN q : Empties(q, ch, i) =>
    /\ AllWritten(kn)
    /\ \A j \in DOMAIN q : j < i => AnnouncesWritten(q, ch, kn, j)

(* A value that is no longer waiting has been written, it or a later one. *)
Bound(p, kn, k) == IF p.pending[k] = 0 THEN kn[k].written ELSE p.pending[k]

Latest(b) == MaxChanges - b.changes

Bounded(p, ch, kn, b) ==
  /\ \A k \in Keys : /\ p.pending[k] <= Latest(b) /\ kn[k].written <= Latest(b)
                     /\ kn[k].told <= Bound(p, kn, k)
  /\ \A c \in W!Chains : /\ ch[c].value <= Bound(p, kn, c[1])
                         /\ ch[c].pc \in {"written", "saved"} => ch[c].value <= kn[c[1]].written
                         /\ ch[c].pc = "announce" => ch[c].size > 0

Closable ==
  /\ bridge.count = 0 => AllWritten(known)
  /\ window.destroying \/ ~window.open => AllWritten(known)

WindowInv ==
  /\ WindowTypes
  /\ Sent(calls, chains) /\ Once(calls) /\ Heard(calls, chains, known)
  /\ Bounded(page, chains, known, budget)
  /\ Closable

LEMMA WindowMeaning == WindowInv => W!AnnouncedIsSaved
  BY DEF WindowInv, Closable, AllWritten, W!AnnouncedIsSaved

-----------------------------------------------------------------------------
(* The queue *)

LEMMA ChainKey == \A c \in W!Chains : c[1] \in Keys
  BY DEF W!Chains

LEMMA Answers == W!CompleteCall \notin W!Chains /\ W!CancelCall \notin W!Chains
  BY DEF W!Chains, W!CompleteCall, W!CancelCall

(* The answers still to be given change: nothing the bridge was told of, and what was
   written stays written. *)
Later(kn, new) == \A k \in Keys : new[k].told = kn[k].told /\ new[k].written >= kn[k].written

LEMMA WrittenStays ==
  ASSUME NEW kn \in KnownTable, NEW new \in KnownTable, Later(kn, new), AllWritten(kn)
  PROVE  AllWritten(new)
<1> SUFFICES ASSUME NEW k \in Keys PROVE new[k].told <= new[k].written
  BY DEF AllWritten
<1>1. /\ kn[k].told \in Nat /\ kn[k].written \in Nat /\ new[k].told \in Nat /\ new[k].written \in Nat
      /\ new[k].told = kn[k].told /\ new[k].written >= kn[k].written /\ kn[k].told <= kn[k].written
  BY DEF KnownTable, Later, AllWritten
<1> QED  BY <1>1

LEMMA AnnouncesStay ==
  ASSUME NEW kn \in KnownTable, NEW new \in KnownTable, Later(kn, new),
         NEW ch \in ChainTable, NEW c \in W!Chains, ch[c].value <= kn[c[1]].written
  PROVE  ch[c].value <= new[c[1]].written
<1>1. c[1] \in Keys
  BY ChainKey
<1>2. /\ kn[c[1]].written \in Nat /\ new[c[1]].written \in Nat /\ ch[c].value \in Nat
      /\ new[c[1]].written >= kn[c[1]].written
  BY <1>1 DEF KnownTable, ChainTable, Later
<1> QED  BY <1>2

(* Calls are appended; chains in the queue stay as they are. *)
LEMMA QueueGrows ==
  ASSUME NEW q \in Seq(Calls), NEW more \in Seq(Calls),
         NEW ch \in ChainTable, NEW ch2 \in ChainTable, NEW kn \in KnownTable, NEW kn2 \in KnownTable,
         Sent(q, ch), Once(q), Heard(q, ch, kn), Later(kn, kn2),
         \A c \in W!Chains : ch[c].pc \in Sending => ch2[c] = ch[c],
         Once(more), Sent(more, ch2),
         \A i \in DOMAIN more : more[i] \in W!Chains => ch[more[i]].pc \notin Sending,
         \A i \in DOMAIN more : Empties(more, ch2, i) =>
           AllWritten(kn2) /\ \A c \in W!Chains : ch2[c].value <= kn2[c[1]].written
  PROVE  /\ q \o more \in Seq(Calls)
         /\ Sent(q \o more, ch2) /\ Once(q \o more) /\ Heard(q \o more, ch2, kn2)
<1> DEFINE r == q \o more
           n == Len(q)
<1>1. /\ r \in Seq(Calls) /\ n \in Nat /\ Len(more) \in Nat
      /\ DOMAIN q = 1 .. n /\ DOMAIN more = 1 .. Len(more) /\ DOMAIN r = 1 .. n + Len(more)
      /\ \A i \in 1 .. n : r[i] = q[i]
      /\ \A i \in n + 1 .. n + Len(more) : i - n \in DOMAIN more /\ r[i] = more[i - n]
  OBVIOUS
<1> HIDE DEF r, n
<1>2. ASSUME NEW i \in DOMAIN r
      PROVE  \/ i \in DOMAIN q /\ i <= n /\ r[i] = q[i]
             \/ i \notin DOMAIN q /\ i > n /\ i - n \in DOMAIN more /\ r[i] = more[i - n]
  BY <1>1
<1>3. Sent(r, ch2)
  BY <1>2 DEF Sent
<1>4. Once(r)
  <2> SUFFICES ASSUME NEW i \in DOMAIN r, NEW j \in DOMAIN r, r[i] \in W!Chains, r[i] = r[j]
               PROVE  i = j
    BY DEF Once
  <2>1. CASE i \in DOMAIN q /\ j \in DOMAIN q
    BY <1>2, <2>1 DEF Once
  <2>2. CASE i \notin DOMAIN q /\ j \notin DOMAIN q
    <3>1. i - n \in DOMAIN more /\ j - n \in DOMAIN more /\ more[i - n] = more[j - n]
          /\ more[i - n] \in W!Chains
      BY <1>2, <2>2
    <3>2. i - n = j - n
      BY <3>1 DEF Once
    <3> QED  BY <1>1, <3>2
  <2>3. CASE i \in DOMAIN q /\ j \notin DOMAIN q
    BY <1>2, <2>3 DEF Sent
  <2>4. CASE i \notin DOMAIN q /\ j \in DOMAIN q
    BY <1>2, <2>4 DEF Sent
  <2> QED  BY <2>1, <2>2, <2>3, <2>4
<1>5. Heard(r, ch2, kn2)
  <2> SUFFICES ASSUME NEW i \in DOMAIN r, Empties(r, ch2, i)
               PROVE  /\ AllWritten(kn2)
                      /\ \A j \in DOMAIN r : j < i => AnnouncesWritten(r, ch2, kn2, j)
    BY DEF Heard
  <2>1. CASE i \in DOMAIN q
    <3>1. Empties(q, ch, i)
      BY <1>2, <2>1 DEF Empties, Sent
    <3>2. AllWritten(kn2)
      BY <2>1, <3>1, WrittenStays DEF Heard
    <3>3. ASSUME NEW j \in DOMAIN r, j < i, r[j] \in W!Chains, ch2[r[j]].pc = "announce"
          PROVE  ch2[r[j]].value <= kn2[r[j][1]].written
      <4>1. j \in DOMAIN q /\ r[j] = q[j] /\ ch2[r[j]] = ch[q[j]]
        BY <1>1, <1>2, <2>1, <3>3 DEF Sent
      <4>2. ch[q[j]].value <= kn[q[j][1]].written
        BY <2>1, <3>1, <3>3, <4>1 DEF Heard, AnnouncesWritten
      <4> QED  BY <3>3, <4>1, <4>2, AnnouncesStay
    <3> QED  BY <3>2, <3>3 DEF AnnouncesWritten
  <2>2. CASE i \notin DOMAIN q
    <3>1. i - n \in DOMAIN more /\ Empties(more, ch2, i - n)
      BY <1>2, <2>2 DEF Empties
    <3> QED  BY <3>1 DEF AnnouncesWritten
  <2> QED  BY <2>1, <2>2
<1> QED  BY <1>1, <1>3, <1>4, <1>5 DEF r

(* The first call is taken up. *)
LEMMA QueueShrinks ==
  ASSUME NEW q \in Seq(Calls), 1 \in DOMAIN q, NEW kn \in KnownTable, NEW kn2 \in KnownTable,
         NEW ch \in ChainTable, NEW ch2 \in ChainTable,
         Sent(q, ch), Once(q), Heard(q, ch, kn),
         \A c \in W!Chains : c # q[1] => ch2[c] = ch[c],
         q[1] \notin W!Chains => ch2 = ch,
         \A k \in Keys : kn2[k].written = kn[k].written,
         \A k \in Keys : kn2[k].told # kn[k].told =>
           /\ q[1] \in W!Chains /\ ch[q[1]].pc = "announce"
           /\ k = q[1][1] /\ kn2[k].told = ch[q[1]].value
  PROVE  /\ Tail(q) \in Seq(Calls)
         /\ Sent(Tail(q), ch2) /\ Once(Tail(q)) /\ Heard(Tail(q), ch2, kn2)
<1> DEFINE r == Tail(q)
<1>1. q # <<>> /\ Len(q) \in Nat
  OBVIOUS
<1>2. /\ r \in Seq(Calls) /\ DOMAIN q = 1 .. Len(q) /\ DOMAIN r = 1 .. Len(q) - 1
      /\ \A i \in 1 .. Len(q) - 1 : r[i] = q[i + 1]
  BY <1>1
<1> HIDE DEF r
<1>3. ASSUME NEW i \in DOMAIN r
      PROVE  /\ i \in Nat /\ i + 1 \in DOMAIN q /\ r[i] = q[i + 1]
             /\ r[i] \in W!Chains => r[i] # q[1] /\ ch2[r[i]] = ch[r[i]]
  <2>1. i \in Nat /\ i + 1 \in DOMAIN q /\ r[i] = q[i + 1] /\ i + 1 # 1
    BY <1>1, <1>2
  <2>2. r[i] \in W!Chains => r[i] # q[1]
    BY <2>1 DEF Once
  <2> QED  BY <2>1, <2>2
<1>4. Sent(r, ch2)
  BY <1>3 DEF Sent
<1>5. Once(r)
  <2> SUFFICES ASSUME NEW i \in DOMAIN r, NEW j \in DOMAIN r, r[i] \in W!Chains, r[i] = r[j]
               PROVE  i = j
    BY DEF Once
  <2>1. i + 1 = j + 1 /\ i \in Nat /\ j \in Nat
    BY <1>3 DEF Once
  <2> QED  BY <2>1
<1>6. Heard(r, ch2, kn2)
  <2> SUFFICES ASSUME NEW i \in DOMAIN r, Empties(r, ch2, i)
               PROVE  /\ AllWritten(kn2)
                      /\ \A j \in DOMAIN r : j < i => AnnouncesWritten(r, ch2, kn2, j)
    BY DEF Heard
  <2>1. i + 1 \in DOMAIN q /\ Empties(q, ch, i + 1) /\ i \in Nat
    BY <1>3 DEF Empties
  <2>2. AllWritten(kn) /\ \A j \in DOMAIN q : j < i + 1 => AnnouncesWritten(q, ch, kn, j)
    BY <2>1 DEF Heard
  <2>3. ASSUME NEW k \in Keys PROVE kn2[k].told <= kn2[k].written
    <3>1. CASE kn2[k].told = kn[k].told
      BY <2>2, <3>1 DEF AllWritten
    <3>2. CASE kn2[k].told # kn[k].told
      <4>1. AnnouncesWritten(q, ch, kn, 1)
        BY <2>1, <2>2, <1>3, <1>2
      <4> QED  BY <3>2, <4>1 DEF AnnouncesWritten
    <3> QED  BY <3>1, <3>2
  <2>4. ASSUME NEW j \in DOMAIN r, j < i, r[j] \in W!Chains, ch2[r[j]].pc = "announce"
        PROVE  ch2[r[j]].value <= kn2[r[j][1]].written
    <3>1. j + 1 \in DOMAIN q /\ j + 1 < i + 1 /\ r[j] = q[j + 1] /\ ch2[r[j]] = ch[r[j]]
      BY <1>3, <2>4
    <3>2. ch[r[j]].value <= kn[r[j][1]].written
      BY <2>2, <2>4, <3>1 DEF AnnouncesWritten
    <3> QED  BY <2>4, <3>1, <3>2, ChainKey
  <2> QED  BY <2>3, <2>4 DEF AllWritten, AnnouncesWritten
<1> QED  BY <1>2, <1>4, <1>5, <1>6 DEF r

(* Calls that are not of a chain. *)
NoChain(more) == more \in Seq(Calls) /\ \A i \in DOMAIN more : more[i] \notin W!Chains

LEMMA SameLater == \A kn \in KnownTable : Later(kn, kn)
  BY DEF KnownTable, Later

LEMMA QueueCloses ==
  ASSUME NEW q \in Seq(Calls), NEW more, NoChain(more),
         NEW ch \in ChainTable, NEW ch2 \in ChainTable, NEW kn \in KnownTable, NEW kn2 \in KnownTable,
         Later(kn, kn2),
         Sent(q, ch), Once(q), Heard(q, ch, kn),
         \A c \in W!Chains : ch[c].pc \in Sending => ch2[c] = ch[c]
  PROVE  /\ q \o more \in Seq(Calls)
         /\ Sent(q \o more, ch2) /\ Once(q \o more) /\ Heard(q \o more, ch2, kn2)
<1>1. /\ more \in Seq(Calls) /\ Once(more) /\ Sent(more, ch2)
      /\ \A i \in DOMAIN more : more[i] \in W!Chains => ch[more[i]].pc \notin Sending
      /\ \A i \in DOMAIN more : ~Empties(more, ch2, i)
  BY DEF NoChain, Once, Sent, Empties
<1> QED  BY <1>1, QueueGrows

LEMMA QueueSends ==
  ASSUME NEW q \in Seq(Calls), NEW c \in W!Chains,
         NEW ch \in ChainTable, NEW ch2 \in ChainTable, NEW kn \in KnownTable,
         Sent(q, ch), Once(q), Heard(q, ch, kn),
         \A d \in W!Chains : d # c => ch2[d] = ch[d],
         ch[c].pc \notin Sending, ch2[c].pc \in Sending,
         ch2[c].pc = "report" /\ ch2[c].size = 0 =>
           AllWritten(kn) /\ \A d \in W!Chains : ch2[d].value <= kn[d[1]].written
  PROVE  /\ Append(q, c) \in Seq(Calls)
         /\ Sent(Append(q, c), ch2) /\ Once(Append(q, c)) /\ Heard(Append(q, c), ch2, kn)
<1> DEFINE more == <<c>>
<1>1. /\ more \in Seq(Calls) /\ DOMAIN more = {1} /\ more[1] = c /\ Append(q, c) = q \o more
  BY DEF Calls
<1> HIDE DEF more
<1>2. /\ Once(more) /\ Sent(more, ch2)
      /\ \A i \in DOMAIN more : more[i] \in W!Chains => ch[more[i]].pc \notin Sending
      /\ \A i \in DOMAIN more : Empties(more, ch2, i) =>
           AllWritten(kn) /\ \A d \in W!Chains : ch2[d].value <= kn[d[1]].written
  BY <1>1 DEF Once, Sent, Empties
<1>3. \A d \in W!Chains : ch[d].pc \in Sending => ch2[d] = ch[d]
  OBVIOUS
<1> QED  BY <1>1, <1>2, <1>3, SameLater, QueueGrows

-----------------------------------------------------------------------------
(* The page *)

LEMMA WindowStarts ==
  ASSUME W!Init PROVE WindowInv
<1> USE WindowAssumption, DesktopAssumption
<1>1. WindowTypes
  <2>1. chains \in ChainTable
    BY DEF W!Init, W!Resting, ChainTable, ChainPcs
  <2>2. known \in KnownTable
    BY DEF W!Init, KnownTable
  <2>3. IsPage(page) /\ IsBridge(bridge) /\ IsWindow(window)
    BY DEF W!Init, IsPage, IsBridge, IsWindow
  <2>4. calls \in Seq(Calls) /\ budget \in Allowed
    BY DEF W!Init, Allowed
  <2> QED  BY <2>1, <2>2, <2>3, <2>4 DEF WindowTypes
<1>2. Sent(calls, chains) /\ Once(calls) /\ Heard(calls, chains, known)
  BY DEF W!Init, Sent, Once, Heard
<1>3. \A k \in Keys : page.pending[k] = 0 /\ known[k].told = 0 /\ known[k].written = 0
  BY DEF W!Init
<1>4. \A c \in W!Chains : chains[c].value = 0 /\ chains[c].pc = "idle"
  BY DEF W!Init, W!Resting
<1>5. Bounded(page, chains, known, budget)
  <2>1. Latest(budget) \in Nat
    BY <1>1 DEF WindowTypes, Allowed, Latest
  <2> QED  BY <1>3, <1>4, <2>1, ChainKey DEF Bounded, Bound
<1>6. Closable
  BY <1>3 DEF Closable, AllWritten
<1> QED  BY <1>1, <1>2, <1>5, <1>6 DEF WindowInv

(* What a step leaves of the invariant when it neither makes nor takes up a call. *)
LEMMA QuietStep ==
  ASSUME WindowInv, IsPage(page'), page.pending' = page.pending, IsBridge(bridge'), IsWindow(window'),
         UNCHANGED <<chains, calls, known>>, budget' \in Allowed,
         budget'.changes = budget.changes, Closable'
  PROVE  WindowInv'
<1>1. WindowTypes'
  BY DEF WindowInv, WindowTypes
<1>2. Sent(calls', chains') /\ Once(calls') /\ Heard(calls', chains', known')
  BY DEF WindowInv
<1>3. Bounded(page', chains', known', budget')
  BY DEF WindowInv, Bounded, Bound, Latest
<1> QED  BY <1>1, <1>2, <1>3 DEF WindowInv

LEMMA SmallCalls ==
  /\ NoChain(<<>>) /\ NoChain(<<W!CompleteCall>>) /\ NoChain(<<W!CancelCall>>)
  /\ \A p : NoChain(W!Completing(p))
<1>1. NoChain(<<>>) /\ NoChain(<<W!CompleteCall>>) /\ NoChain(<<W!CancelCall>>)
  BY Answers DEF NoChain, Calls
<1> QED  BY <1>1 DEF W!Completing

(* A chain that ends says no more. *)
LEMMA EndKeeps ==
  ASSUME WindowInv, NEW c \in W!Chains, chains[c].pc \notin Sending, NEW p, IsPage(p),
         p.pending = page.pending, W!End(c, p), UNCHANGED <<bridge, window, known, budget>>
  PROVE  WindowInv'
<1>1. \E more : NoChain(more) /\ calls' = calls \o more
  <2>1. calls = calls \o <<>>
    BY DEF WindowInv, WindowTypes
  <2> QED  BY <2>1, SmallCalls DEF W!End
<1>2. PICK more : NoChain(more) /\ calls' = calls \o more
  BY <1>1
<1>3. chains \in ChainTable /\ chains' = [chains EXCEPT ![c] = W!Resting] /\ page' = p
  BY DEF WindowInv, WindowTypes, W!End
<1>4. chains' \in ChainTable
  BY <1>3 DEF ChainTable, ChainPcs, W!Resting
<1>5. \A d \in W!Chains : chains'[d] = IF d = c THEN W!Resting ELSE chains[d]
  BY <1>3 DEF ChainTable
<1>6. calls' \in Seq(Calls) /\ Sent(calls', chains') /\ Once(calls') /\ Heard(calls', chains', known')
  BY <1>2, <1>3, <1>4, <1>5, SameLater, QueueCloses DEF WindowInv, WindowTypes
<1>7. WindowTypes'
  BY <1>3, <1>4, <1>6 DEF WindowInv, WindowTypes
<1>8. Bounded(page', chains', known', budget')
  <2>1. \A k \in Keys : Bound(page', known', k) = Bound(page, known, k) /\ Bound(page, known, k) \in Nat
    BY <1>3 DEF Bound, WindowInv, WindowTypes, IsPage, KnownTable
  <2>2. \A k \in Keys : /\ page'.pending[k] <= Latest(budget') /\ known'[k].written <= Latest(budget')
                        /\ known'[k].told <= Bound(page', known', k)
    BY <1>3, <2>1 DEF WindowInv, Bounded
  <2>3. ASSUME NEW d \in W!Chains
        PROVE  /\ chains'[d].value <= Bound(page', known', d[1])
               /\ chains'[d].pc \in {"written", "saved"} => chains'[d].value <= known'[d[1]].written
               /\ chains'[d].pc = "announce" => chains'[d].size > 0
    <3>1. CASE d = c
      BY <1>5, <2>1, <3>1, ChainKey DEF W!Resting
    <3>2. CASE d # c
      BY <1>5, <2>1, <3>2, ChainKey DEF WindowInv, Bounded
    <3> QED  BY <3>1, <3>2
  <2> QED  BY <2>2, <2>3 DEF Bounded
<1>9. Closable'
  BY DEF WindowInv, Closable
<1> QED  BY <1>6, <1>7, <1>8, <1>9 DEF WindowInv

LEMMA FirstIsFree ==
  ASSUME NEW k \in Keys, W!Free(k) # {}
  PROVE  W!First(k) \in W!Free(k)
<1>1. \A c \in W!Free(k) : c = <<k, 1>> \/ c = <<k, 2>>
  BY DEF W!Free, W!Chains
<1>2. \E c \in W!Free(k) : \A d \in W!Free(k) : c[2] <= d[2]
  <2>1. CASE <<k, 1>> \in W!Free(k)
    BY <1>1, <2>1
  <2>2. CASE <<k, 1>> \notin W!Free(k)
    BY <1>1, <2>2
  <2> QED  BY <2>1, <2>2
<1> QED  BY <1>2 DEF W!First

LEMMA SameCount == \A s : W!Cardinality(s) = Cardinality(s)
  BY DEF W!Cardinality, Cardinality

LEMMA UnsavedSize ==
  ASSUME NEW p
  PROVE  W!Size(p) \in Nat /\ (W!Size(p) = 0 <=> W!Unsaved(p) = {})
<1>1. IsFiniteSet(Keys) /\ W!Unsaved(p) \in SUBSET Keys
  BY WindowAssumption DEF W!Unsaved
<1>2. IsFiniteSet(W!Unsaved(p))
  BY <1>1, FS_Subset
<1>3. Cardinality(W!Unsaved(p)) \in Nat /\ (Cardinality(W!Unsaved(p)) = 0 <=> W!Unsaved(p) = {})
  BY <1>2, FS_CardinalityType, FS_EmptySet
<1> QED  BY <1>3, SameCount DEF W!Size

LEMMA ChainsFinite == \A s \in SUBSET W!Chains : IsFiniteSet(s) /\ Cardinality(s) \in Nat
<1>1. 1 .. 2 = {1, 2} /\ 1 \in Int /\ 2 \in Int
  OBVIOUS
<1>2. IsFiniteSet(Keys) /\ IsFiniteSet({1, 2})
  <2>1. IsFiniteSet(1 .. 2)
    BY <1>1, FS_Interval
  <2> QED  BY <1>1, <2>1, WindowAssumption
<1>3. IsFiniteSet(W!Chains)
  BY <1>2, FS_Product DEF W!Chains
<1> QED  BY <1>3, FS_Subset, FS_CardinalityType

(* A flush calls each chain it starts once. *)
LEMMA OrderIsOnce ==
  ASSUME NEW s \in SUBSET W!Chains, NEW order \in [1 .. Cardinality(s) -> s],
         {order[i] : i \in DOMAIN order} = s
  PROVE  /\ order \in Seq(Calls) /\ DOMAIN order = 1 .. Cardinality(s)
         /\ \A i, j \in DOMAIN order : order[i] = order[j] => i = j
<1> DEFINE n == Cardinality(s)
<1>1. IsFiniteSet(s) /\ n \in Nat
  BY ChainsFinite
<1>2. IsFiniteSet(1 .. n) /\ Cardinality(1 .. n) = n
  <2> HIDE DEF n
  <2>1. 1 \in Int /\ n \in Int
    BY <1>1
  <2>2. /\ IsFiniteSet(1 .. n)
        /\ Cardinality(1 .. n) = IF 1 > n THEN 0 ELSE n - 1 + 1
    BY <2>1, FS_Interval
  <2> QED  BY <1>1, <2>2
<1>3. order \in Surjection(1 .. n, s)
  BY DEF Surjection
<1>4. order \in Injection(1 .. n, s)
  BY <1>1, <1>2, <1>3, FS_SurjSameCardinalityImpliesInj
<1>5. \A i, j \in DOMAIN order : order[i] = order[j] => i = j
  BY <1>4 DEF Injection, IsInjective
<1>6. order \in Seq(Calls)
  <2>1. s \subseteq Calls
    BY DEF Calls
  <2>2. order \in [1 .. n -> Calls]
    BY <2>1
  <2> HIDE DEF n
  <2> QED  BY <1>1, <2>2
<1> QED  BY <1>5, <1>6

(* flushPendingUiState(): the values that wait are announced again. *)
LEMMA FlushKeeps ==
  ASSUME WindowInv, NEW p, IsPage(p), p.pending = page.pending, W!Flush(p),
         IsWindow(window'), window'.open = window.open, window'.destroying = window.destroying,
         UNCHANGED <<bridge, known, budget>>
  PROVE  WindowInv'
<1>0. Closable'
  BY DEF WindowInv, Closable
<1>1. CASE W!Unsaved(p) = {}
  <2>1. calls' = calls \o W!Completing(p) /\ UNCHANGED chains /\ page' = p
    BY <1>1 DEF W!Flush
  <2>2. chains \in ChainTable /\ known \in KnownTable /\ calls \in Seq(Calls)
    BY DEF WindowInv, WindowTypes
  <2>3. calls' \in Seq(Calls) /\ Sent(calls', chains') /\ Once(calls') /\ Heard(calls', chains', known')
    BY <2>1, <2>2, SmallCalls, SameLater, QueueCloses DEF WindowInv
  <2>4. WindowTypes'
    BY <2>1, <2>3 DEF WindowInv, WindowTypes
  <2>5. Bounded(page', chains', known', budget')
    BY <2>1 DEF WindowInv, Bounded, Bound
  <2> QED  BY <1>0, <2>3, <2>4, <2>5 DEF WindowInv
<1>2. CASE W!Unsaved(p) # {}
  <2> DEFINE s == {W!First(k) : k \in W!Unsaved(p)}
  <2>1. /\ page' = p /\ \A k \in W!Unsaved(p) : W!Free(k) # {}
        /\ chains' = [c \in W!Chains |-> IF c \in s THEN W!Announcing(p.pending[c[1]], W!Size(p))
                                         ELSE chains[c]]
        /\ \E order \in [1 .. Cardinality(s) -> s] :
             {order[i] : i \in DOMAIN order} = s /\ calls' = calls \o order
    BY <1>2, SameCount DEF W!Flush
  <2>2. ASSUME NEW c \in s
        PROVE  /\ c \in W!Chains /\ c[1] \in Keys /\ p.pending[c[1]] # 0
               /\ page.pending[c[1]] # 0 /\ chains[c].pc = "idle"
    BY <2>1, FirstIsFree DEF W!Unsaved, W!Free
  <2> HIDE DEF s
  <2>3. W!Size(p) \in Nat /\ W!Size(p) > 0
    BY <1>2, UnsavedSize
  <2>4. /\ chains \in ChainTable /\ known \in KnownTable /\ calls \in Seq(Calls)
        /\ page.pending \in [Keys -> Nat]
    BY DEF WindowInv, WindowTypes, IsPage
  <2>5. /\ \A c \in W!Chains : c \notin s => chains'[c] = chains[c]
        /\ \A c \in s : /\ chains'[c].pc = "announce" /\ chains'[c].size > 0
                         /\ chains'[c].value = page.pending[c[1]]
                         /\ chains'[c] \in [pc : ChainPcs, value : Nat, size : Nat]
    <3>1. ASSUME NEW c \in s
          PROVE  chains'[c] = [pc |-> "announce", value |-> page.pending[c[1]], size |-> W!Size(p)]
      BY <2>1, <2>2 DEF W!Announcing
    <3>2. ASSUME NEW c \in s PROVE page.pending[c[1]] \in Nat
      BY <2>2, <2>4
    <3>3. "announce" \in ChainPcs
      BY DEF ChainPcs, Sending
    <3>4. ASSUME NEW c \in s
          PROVE  /\ chains'[c].pc = "announce" /\ chains'[c].size > 0
                 /\ chains'[c].value = page.pending[c[1]]
                 /\ chains'[c] \in [pc : ChainPcs, value : Nat, size : Nat]
      <4> DEFINE v == page.pending[c[1]]
      <4>1. chains'[c] = [pc |-> "announce", value |-> v, size |-> W!Size(p)] /\ v \in Nat
        BY <3>1, <3>2
      <4> HIDE DEF v
      <4>2. /\ chains'[c].pc = "announce" /\ chains'[c].size > 0 /\ chains'[c].value = v
            /\ chains'[c] \in [pc : ChainPcs, value : Nat, size : Nat]
        BY <2>3, <3>3, <4>1
      <4> QED  BY <4>2 DEF v
    <3> QED  BY <2>1, <3>4
  <2>6. chains' \in ChainTable
    <3>1. \A c \in W!Chains : chains'[c] \in [pc : ChainPcs, value : Nat, size : Nat]
      BY <2>4, <2>5 DEF ChainTable
    <3> QED  BY <2>1, <3>1 DEF ChainTable
  <2>7. PICK order \in [1 .. Cardinality(s) -> s] :
          {order[i] : i \in DOMAIN order} = s /\ calls' = calls \o order
    BY <2>1
  <2>8. s \in SUBSET W!Chains
    BY <2>2
  <2>9. /\ order \in Seq(Calls) /\ \A i \in DOMAIN order : order[i] \in s
        /\ \A i, j \in DOMAIN order : order[i] = order[j] => i = j
    BY <2>7, <2>8, OrderIsOnce
  <2>10. /\ Once(order) /\ Sent(order, chains')
         /\ \A i \in DOMAIN order : order[i] \in W!Chains => chains[order[i]].pc \notin Sending
         /\ \A i \in DOMAIN order : ~Empties(order, chains', i)
    <3>1. \A i \in DOMAIN order : /\ chains[order[i]].pc \notin Sending
                                  /\ chains'[order[i]].pc \in Sending
                                  /\ chains'[order[i]].pc # "report"
      <4>1. \A c \in s : chains[c].pc \notin Sending /\ chains'[c].pc \in Sending
                         /\ chains'[c].pc # "report"
        BY <2>2, <2>5 DEF Sending
      <4> QED  BY <2>9, <4>1
    <3> QED  BY <2>9, <3>1 DEF Once, Sent, Empties
  <2>11. \A c \in W!Chains : chains[c].pc \in Sending => chains'[c] = chains[c]
    BY <2>2, <2>5 DEF Sending
  <2>12. calls' \in Seq(Calls) /\ Sent(calls', chains') /\ Once(calls') /\ Heard(calls', chains', known)
    BY <2>4, <2>6, <2>7, <2>9, <2>10, <2>11, SameLater, QueueGrows DEF WindowInv
  <2>13. WindowTypes'
    BY <2>1, <2>6, <2>12 DEF WindowInv, WindowTypes
  <2>14. Bounded(page', chains', known', budget')
    <3>1. \A k \in Keys : Bound(page', known', k) = Bound(page, known, k)
      BY <2>1 DEF Bound
    <3>2. \A k \in Keys : /\ page'.pending[k] <= Latest(budget') /\ known'[k].written <= Latest(budget')
                          /\ known'[k].told <= Bound(page', known', k)
      BY <2>1, <3>1 DEF WindowInv, Bounded
    <3>3. ASSUME NEW c \in W!Chains
          PROVE  /\ chains'[c].value <= Bound(page', known', c[1])
                 /\ chains'[c].pc \in {"written", "saved"} => chains'[c].value <= known'[c[1]].written
                 /\ chains'[c].pc = "announce" => chains'[c].size > 0
      <4>1. CASE c \in s
        <5>1. Bound(page', known', c[1]) = page.pending[c[1]] /\ page.pending[c[1]] \in Nat
          BY <2>2, <2>4, <3>1, <4>1 DEF Bound
        <5>2. chains'[c].pc = "announce" /\ chains'[c].size > 0 /\ chains'[c].value = page.pending[c[1]]
          BY <2>5, <4>1
        <5> QED  BY <5>1, <5>2
      <4>2. CASE c \notin s
        BY <2>5, <3>1, <4>2, ChainKey DEF WindowInv, Bounded
      <4> QED  BY <4>1, <4>2
    <3> QED  BY <3>2, <3>3 DEF Bounded
  <2> QED  BY <1>0, <2>12, <2>13, <2>14 DEF WindowInv
<1> QED  BY <1>1, <1>2

(* A chain that waits for no answer moves on; what it writes is written. *)
LEMMA ChainMoves ==
  ASSUME WindowInv, NEW c \in W!Chains, NEW q \in ChainPcs,
         chains[c].pc \notin Sending, q \notin Sending,
         chains' = [chains EXCEPT ![c].pc = q], UNCHANGED <<page, calls>>,
         known' \in KnownTable, Later(known, known'),
         \A k \in Keys : known'[k].written <= Latest(budget),
         q \in {"written", "saved"} => chains[c].value <= known'[c[1]].written,
         IsBridge(bridge'), bridge'.count = bridge.count,
         IsWindow(window'), window'.open = window.open, window'.destroying = window.destroying,
         budget' \in Allowed, budget'.changes = budget.changes
  PROVE  WindowInv'
<1>1. chains \in ChainTable /\ known \in KnownTable /\ calls \in Seq(Calls)
      /\ page.pending \in [Keys -> Nat]
  BY DEF WindowInv, WindowTypes, IsPage
<1>2. /\ \A d \in W!Chains : d # c => chains'[d] = chains[d]
      /\ chains'[c].pc = q /\ chains'[c].value = chains[c].value
      /\ chains' \in ChainTable
  BY <1>1 DEF ChainTable
<1>3. calls \o <<>> = calls
  BY <1>1
<1>4. Sent(calls, chains') /\ Once(calls) /\ Heard(calls, chains', known')
  <2>1. \A d \in W!Chains : chains[d].pc \in Sending => chains'[d] = chains[d]
    BY <1>2
  <2>2. Sent(calls \o <<>>, chains') /\ Once(calls \o <<>>) /\ Heard(calls \o <<>>, chains', known')
    BY <1>1, <1>2, <2>1, SmallCalls, QueueCloses DEF WindowInv
  <2> QED  BY <1>3, <2>2
<1>5. WindowTypes'
  BY <1>1, <1>2 DEF WindowInv, WindowTypes
<1>6. ASSUME NEW k \in Keys
      PROVE  /\ Bound(page, known, k) \in Nat /\ Bound(page, known', k) \in Nat
             /\ Bound(page, known, k) <= Bound(page, known', k)
             /\ known'[k].told = known[k].told /\ known[k].told \in Nat
  BY <1>1 DEF Bound, KnownTable, Later
<1>7. Bounded(page', chains', known', budget')
  <2>1. ASSUME NEW k \in Keys
        PROVE  /\ page'.pending[k] <= Latest(budget') /\ known'[k].written <= Latest(budget')
               /\ known'[k].told <= Bound(page', known', k)
    <3>1. page.pending[k] <= Latest(budget) /\ known[k].told <= Bound(page, known, k)
      BY DEF WindowInv, Bounded
    <3> QED  BY <1>6, <3>1 DEF Latest
  <2>2. ASSUME NEW d \in W!Chains
        PROVE  /\ chains'[d].value <= Bound(page', known', d[1])
               /\ chains'[d].pc \in {"written", "saved"} => chains'[d].value <= known'[d[1]].written
               /\ chains'[d].pc = "announce" => chains'[d].size > 0
    <3>1. /\ chains[d].value <= Bound(page, known, d[1])
          /\ chains[d].pc \in {"written", "saved"} => chains[d].value <= known[d[1]].written
          /\ chains[d].pc = "announce" => chains[d].size > 0
      BY DEF WindowInv, Bounded
    <3>2. chains'[d].value = chains[d].value /\ chains[d].value \in Nat /\ d[1] \in Keys
      BY <1>1, <1>2, ChainKey DEF ChainTable
    <3>3. chains'[d].value <= Bound(page', known', d[1])
      <4>1. /\ Bound(page, known, d[1]) \in Nat /\ Bound(page, known', d[1]) \in Nat
            /\ Bound(page, known, d[1]) <= Bound(page, known', d[1])
        BY <1>6, <3>2
      <4> QED  BY <3>1, <3>2, <4>1
    <3>4. CASE d = c
      BY <1>2, <3>3, <3>4 DEF Sending
    <3>5. CASE d # c
      <4>1. known[d[1]].written <= known'[d[1]].written /\ known[d[1]].written \in Nat
            /\ known'[d[1]].written \in Nat
        BY <1>1, <3>2 DEF KnownTable, Later
      <4> QED  BY <1>2, <3>1, <3>2, <3>3, <3>5, <4>1
    <3> QED  BY <3>4, <3>5
  <2> QED  BY <2>1, <2>2 DEF Bounded
<1>8. Closable'
  BY <1>1, WrittenStays DEF WindowInv, Closable
<1> QED  BY <1>4, <1>5, <1>7, <1>8 DEF WindowInv

LEMMA StoreKeeps ==
  ASSUME WindowInv, NEW c \in W!Chains, W!Store(c)
  PROVE  WindowInv'
<1>1. /\ chains \in ChainTable /\ known \in KnownTable /\ c[1] \in Keys /\ budget \in Allowed
      /\ IsBridge(bridge) /\ IsWindow(window)
  BY ChainKey DEF WindowInv, WindowTypes
<1>2. chains[c].pc = "writing" /\ UNCHANGED <<page, calls, bridge, window>>
  BY DEF W!Store
<1>3. chains[c].pc \notin Sending /\ "written" \in ChainPcs /\ "written" \notin Sending
      /\ "failed" \in ChainPcs /\ "failed" \notin Sending
  BY <1>2 DEF ChainPcs, Sending
<1>4. CASE /\ known' = [known EXCEPT ![c[1]].written = W!Larger(@, chains[c].value)]
           /\ chains' = [chains EXCEPT ![c].pc = "written"] /\ UNCHANGED budget
  <2> DEFINE v == chains[c].value
             w == known[c[1]].written
             x == W!Larger(w, v)
  <2>1. v \in Nat /\ w \in Nat /\ x \in Nat /\ x >= w /\ x >= v /\ (x = w \/ x = v)
    BY <1>1 DEF ChainTable, KnownTable, W!Larger
  <2>2. w <= Latest(budget) /\ v <= Bound(page, known, c[1])
    BY <1>1 DEF WindowInv, Bounded
  <2>3. Bound(page, known, c[1]) <= Latest(budget) /\ Bound(page, known, c[1]) \in Nat
    BY <1>1 DEF WindowInv, WindowTypes, Bounded, Bound, IsPage, KnownTable
  <2>4. Latest(budget) \in Nat
    BY <1>1, DesktopAssumption DEF Allowed, Latest
  <2>5. known' = [known EXCEPT ![c[1]].written = x]
    BY <1>4
  <2> HIDE DEF x, w
  <2>6. /\ known' \in KnownTable /\ known'[c[1]].written = x /\ known'[c[1]].told = known[c[1]].told
        /\ \A k \in Keys : k # c[1] => known'[k] = known[k]
    BY <1>1, <2>1, <2>5 DEF KnownTable
  <2>7. x <= Latest(budget)
    BY <2>1, <2>2, <2>3, <2>4
  <2>8. \A k \in Keys : known'[k].written <= Latest(budget)
    BY <2>6, <2>7 DEF WindowInv, Bounded
  <2>9. Later(known, known')
    <3>1. ASSUME NEW k \in Keys PROVE known'[k].told = known[k].told /\ known'[k].written >= known[k].written
      <4>1. CASE k = c[1]
        BY <2>1, <2>6, <4>1 DEF w
      <4>2. CASE k # c[1]
        <5>1. known'[k] = known[k] /\ known[k].written \in Nat
          BY <1>1, <2>6, <4>2 DEF KnownTable
        <5> QED  BY <5>1
      <4> QED  BY <4>1, <4>2
    <3> QED  BY <3>1 DEF Later
  <2> QED  BY <1>1, <1>2, <1>3, <1>4, <2>1, <2>6, <2>8, <2>9, ChainMoves
<1>5. CASE /\ W!Spend("faults")
           /\ chains' = [chains EXCEPT ![c].pc = "failed"] /\ UNCHANGED known
  <2>1. budget' \in Allowed /\ budget'.changes = budget.changes
    BY <1>1, <1>5 DEF W!Spend, Allowed
  <2>2. \A k \in Keys : known'[k].written <= Latest(budget)
    BY <1>5 DEF WindowInv, Bounded
  <2>3. Later(known, known')
    BY <1>1, <1>5, SameLater
  <2> QED  BY <1>1, <1>2, <1>3, <1>5, <2>1, <2>2, <2>3, ChainMoves
<1> QED  BY <1>4, <1>5 DEF W!Store

LEMMA EndWriteKeeps ==
  ASSUME WindowInv, NEW c \in W!Chains, W!EndWrite(c)
  PROVE  WindowInv'
<1> DEFINE q == IF chains[c].pc = "written" THEN "saved" ELSE "refused"
<1>1. /\ known \in KnownTable /\ budget \in Allowed /\ IsBridge(bridge) /\ IsWindow(window)
  BY DEF WindowInv, WindowTypes
<1>2. /\ chains[c].pc \in {"written", "failed"} /\ UNCHANGED <<page, calls, known, budget>>
      /\ chains' = [chains EXCEPT ![c].pc = q]
  BY DEF W!EndWrite
<1>3. IsBridge(bridge') /\ bridge'.count = bridge.count
  BY <1>1 DEF W!EndWrite, IsBridge
<1>4. IsWindow(window') /\ window'.open = window.open /\ window'.destroying = window.destroying
  <2> DEFINE b == window.drain \/ (bridge.action # "none" /\ bridge.inflight = 1)
  <2>1. window' = [window EXCEPT !.drain = b]
    BY DEF W!EndWrite
  <2> HIDE DEF b
  <2> QED  BY <1>1, <2>1 DEF IsWindow
<1>5. chains[c].pc \notin Sending /\ q \in ChainPcs /\ q \notin Sending
      /\ (q = "saved" => chains[c].pc = "written") /\ q # "written"
  BY <1>2 DEF ChainPcs, Sending
<1>6. chains[c].pc = "written" => chains[c].value <= known'[c[1]].written
  BY <1>2 DEF WindowInv, Bounded
<1>7. \A k \in Keys : known'[k].written <= Latest(budget)
  BY <1>2 DEF WindowInv, Bounded
<1>8. Later(known, known')
  BY <1>1, <1>2, SameLater
<1> HIDE DEF q
<1> QED  BY <1>1, <1>2, <1>3, <1>4, <1>5, <1>6, <1>7, <1>8, ChainMoves

LEMMA PageTurns ==
  ASSUME NEW p, IsPage(p), NEW x
  PROVE  /\ IsPage([p EXCEPT !.closing = x]) /\ IsPage([p EXCEPT !.retry = x])
         /\ IsPage([p EXCEPT !.dirty = x]) /\ IsPage([p EXCEPT !.asking = x])
         /\ IsPage([p EXCEPT !.replies = x])
         /\ [p EXCEPT !.closing = x].pending = p.pending /\ [p EXCEPT !.retry = x].pending = p.pending
         /\ [p EXCEPT !.dirty = x].pending = p.pending /\ [p EXCEPT !.asking = x].pending = p.pending
         /\ [p EXCEPT !.replies = x].pending = p.pending
  BY DEF IsPage

LEMMA WindowTurns ==
  ASSUME NEW w, IsWindow(w), NEW x
  PROVE  /\ IsWindow([w EXCEPT !.drain = x]) /\ IsWindow([w EXCEPT !.timer = x])
         /\ [w EXCEPT !.drain = x].open = w.open /\ [w EXCEPT !.timer = x].open = w.open
         /\ [w EXCEPT !.drain = x].destroying = w.destroying
         /\ [w EXCEPT !.timer = x].destroying = w.destroying
  BY DEF IsWindow

LEMMA BridgeTurns ==
  ASSUME NEW b, IsBridge(b), NEW x
  PROVE  /\ IsBridge([b EXCEPT !.action = x]) /\ IsBridge([b EXCEPT !.scheduled = x])
         /\ IsBridge([b EXCEPT !.inflight = x])
         /\ [b EXCEPT !.action = x].count = b.count /\ [b EXCEPT !.scheduled = x].count = b.count
         /\ [b EXCEPT !.inflight = x].count = b.count
  BY DEF IsBridge

(* The value of a change is larger than any before. *)
LEMMA ChangeKeeps ==
  ASSUME WindowInv, NEW k \in Keys, W!Change(k)
  PROVE  WindowInv'
<1> DEFINE v == MaxChanges + 1 - budget.changes
           p == [page EXCEPT !.pending[k] = v]
           c == W!First(k)
           n == W!Size(p)
<1>1. /\ chains \in ChainTable /\ known \in KnownTable /\ calls \in Seq(Calls)
      /\ budget \in Allowed /\ IsPage(page)
      /\ Sent(calls, chains) /\ Once(calls) /\ Heard(calls, chains, known)
  BY DEF WindowInv, WindowTypes
<1>2. /\ W!Spend("changes") /\ page' = p /\ calls' = Append(calls, c)
      /\ chains' = [chains EXCEPT ![c] = W!Announcing(v, n)]
      /\ UNCHANGED <<bridge, window, known>> /\ W!Free(k) # {}
  <2>1. page.pending \in [Keys -> Nat] /\ page.pending = page.pending
    BY <1>1 DEF IsPage
  <2>2. p.pending[k] = v
    BY <1>1, <2>1 DEF IsPage
  <2> HIDE DEF v
  <2> QED  BY <2>2 DEF W!Change, v
<1>3. c \in W!Chains /\ c[1] = k /\ chains[c].pc = "idle"
  BY <1>2, FirstIsFree DEF W!Free
<1>4. /\ budget' \in Allowed /\ v \in Nat /\ v > 0 /\ v > Latest(budget) /\ v = Latest(budget')
      /\ Latest(budget) \in Nat
  <2>1. /\ budget.changes \in 0 .. MaxChanges /\ budget.changes > 0
        /\ budget' = [budget EXCEPT !.changes = budget.changes - 1]
    BY <1>1, <1>2 DEF Allowed, W!Spend
  <2>2. MaxChanges \in Nat
    BY DesktopAssumption
  <2>3. budget.changes - 1 \in 0 .. MaxChanges
    BY <2>1, <2>2
  <2>4. budget' \in Allowed /\ budget'.changes = budget.changes - 1
    <3> HIDE DEF v, p, c, n
    <3> QED  BY <1>1, <2>1, <2>3 DEF Allowed
  <2> QED  BY <2>1, <2>2, <2>4 DEF Latest
<1> HIDE DEF v
<1>5. /\ IsPage(p) /\ p.pending \in [Keys -> Nat] /\ p.pending[k] = v
      /\ \A m \in Keys : m # k => p.pending[m] = page.pending[m]
  BY <1>1, <1>4 DEF IsPage
<1>6. n \in Nat /\ n > 0
  <2>1. k \in W!Unsaved(p)
    BY <1>4, <1>5 DEF W!Unsaved
  <2> HIDE DEF p
  <2> QED  BY <2>1, UnsavedSize
<1> HIDE DEF p, c, n
<1>7. /\ chains' \in ChainTable /\ \A d \in W!Chains : d # c => chains'[d] = chains[d]
      /\ chains'[c].pc = "announce" /\ chains'[c].value = v /\ chains'[c].size = n
  BY <1>1, <1>2, <1>3, <1>4, <1>6 DEF ChainTable, ChainPcs, Sending, W!Announcing
<1>8. calls' \in Seq(Calls) /\ Sent(calls', chains') /\ Once(calls') /\ Heard(calls', chains', known)
  <2>1. chains[c].pc \notin Sending /\ chains'[c].pc \in Sending /\ chains'[c].pc # "report"
    BY <1>3, <1>7 DEF Sending
  <2> QED  BY <1>1, <1>2, <1>3, <1>7, <2>1, QueueSends
<1>9. WindowTypes'
  BY <1>2, <1>4, <1>5, <1>7, <1>8 DEF WindowInv, WindowTypes
<1>10. Bounded(page', chains', known', budget')
  <2>1. ASSUME NEW m \in Keys
        PROVE  /\ Bound(page, known, m) \in Nat /\ Bound(page', known, m) \in Nat
               /\ Bound(page, known, m) <= Latest(budget)
               /\ Bound(page, known, m) <= Bound(page', known, m)
               /\ m = k => Bound(page', known, m) = v
    <3>1. /\ page.pending[m] \in Nat /\ known[m].written \in Nat
          /\ page.pending[m] <= Latest(budget) /\ known[m].written <= Latest(budget)
      BY <1>1 DEF IsPage, KnownTable, WindowInv, Bounded
    <3>2. CASE m = k
      BY <1>2, <1>4, <1>5, <3>1, <3>2 DEF Bound
    <3>3. CASE m # k
      BY <1>2, <1>5, <3>1, <3>3 DEF Bound
    <3> QED  BY <3>2, <3>3
  <2>2. ASSUME NEW m \in Keys
        PROVE  /\ page'.pending[m] <= Latest(budget') /\ known'[m].written <= Latest(budget')
               /\ known'[m].told <= Bound(page', known', m)
    <3>1. /\ page.pending[m] \in Nat /\ known[m].written \in Nat /\ known[m].told \in Nat
          /\ page.pending[m] <= Latest(budget) /\ known[m].written <= Latest(budget)
          /\ known[m].told <= Bound(page, known, m)
      BY <1>1 DEF IsPage, KnownTable, WindowInv, Bounded
    <3>2. page'.pending[m] <= Latest(budget')
      BY <1>2, <1>4, <1>5, <3>1
    <3> QED  BY <1>2, <1>4, <2>1, <3>1, <3>2
  <2>3. ASSUME NEW d \in W!Chains
        PROVE  /\ chains'[d].value <= Bound(page', known', d[1])
               /\ chains'[d].pc \in {"written", "saved"} => chains'[d].value <= known'[d[1]].written
               /\ chains'[d].pc = "announce" => chains'[d].size > 0
    <3>1. /\ chains[d].value <= Bound(page, known, d[1])
          /\ chains[d].pc \in {"written", "saved"} => chains[d].value <= known[d[1]].written
          /\ chains[d].pc = "announce" => chains[d].size > 0
          /\ chains[d].value \in Nat /\ d[1] \in Keys
      BY <1>1, ChainKey DEF WindowInv, Bounded, ChainTable
    <3>2. CASE d = c
      BY <1>2, <1>3, <1>4, <1>6, <1>7, <2>1, <3>2
    <3>3. CASE d # c
      <4>1. /\ Bound(page, known, d[1]) \in Nat /\ Bound(page', known, d[1]) \in Nat
            /\ Bound(page, known, d[1]) <= Bound(page', known, d[1])
        BY <2>1, <3>1
      <4> QED  BY <1>2, <1>7, <3>1, <3>3, <4>1
    <3> QED  BY <3>2, <3>3
  <2> QED  BY <2>2, <2>3 DEF Bounded
<1>11. Closable'
  BY <1>2 DEF WindowInv, Closable
<1> QED  BY <1>2, <1>8, <1>9, <1>10, <1>11 DEF WindowInv

LEMMA OnAnnouncedKeeps ==
  ASSUME WindowInv, NEW c \in W!Chains, W!OnAnnounced(c)
  PROVE  WindowInv'
<1>1. /\ chains \in ChainTable /\ known \in KnownTable /\ calls \in Seq(Calls) /\ IsPage(page)
      /\ Sent(calls, chains) /\ Once(calls) /\ Heard(calls, chains, known)
  BY DEF WindowInv, WindowTypes
<1>2. CASE /\ chains[c].pc = "announced"
           /\ chains' = [chains EXCEPT ![c].pc = "write"]
           /\ calls' = Append(calls, c)
           /\ UNCHANGED <<page, flushes>>
  <2>1. /\ chains' \in ChainTable /\ \A d \in W!Chains : d # c => chains'[d] = chains[d]
        /\ chains'[c].pc = "write" /\ chains'[c].value = chains[c].value
    BY <1>1, <1>2 DEF ChainTable, ChainPcs, Sending
  <2>2. chains[c].pc \notin Sending /\ chains'[c].pc \in Sending /\ chains'[c].pc # "report"
    BY <1>2, <2>1 DEF Sending
  <2>3. calls' \in Seq(Calls) /\ Sent(calls', chains') /\ Once(calls') /\ Heard(calls', chains', known)
    BY <1>1, <1>2, <2>1, <2>2, QueueSends
  <2>4. UNCHANGED <<page, bridge, window, known, budget>>
    BY <1>2 DEF W!OnAnnounced
  <2>5. WindowTypes'
    BY <2>1, <2>3, <2>4 DEF WindowInv, WindowTypes
  <2>6. Bounded(page', chains', known', budget')
    <3>1. ASSUME NEW d \in W!Chains
          PROVE  /\ chains'[d].value <= Bound(page, known, d[1])
                 /\ chains'[d].pc \in {"written", "saved"} => chains'[d].value <= known[d[1]].written
                 /\ chains'[d].pc = "announce" => chains'[d].size > 0
      BY <2>1 DEF WindowInv, Bounded
    <3> QED  BY <2>4, <3>1 DEF WindowInv, Bounded, Bound, Latest
  <2>7. Closable'
    BY <2>4 DEF WindowInv, Closable
  <2> QED  BY <2>3, <2>4, <2>5, <2>6, <2>7 DEF WindowInv
<1>3. CASE chains[c].pc = "deferred" /\ W!End(c, [page EXCEPT !.retry = TRUE])
  BY <1>1, <1>3, PageTurns, EndKeeps DEF W!OnAnnounced, Sending
<1> QED  BY <1>2, <1>3 DEF W!OnAnnounced

LEMMA OnReportedKeeps ==
  ASSUME WindowInv, NEW c \in W!Chains, W!OnReported(c)
  PROVE  WindowInv'
<1>1. IsPage(page)
  BY DEF WindowInv, WindowTypes
<1>2. CASE chains[c].pc = "reported" /\ W!End(c, page)
  BY <1>1, <1>2, EndKeeps DEF W!OnReported, Sending
<1>3. CASE chains[c].pc = "contested" /\ W!End(c, [page EXCEPT !.retry = TRUE])
  BY <1>1, <1>3, PageTurns, EndKeeps DEF W!OnReported, Sending
<1> QED  BY <1>2, <1>3 DEF W!OnReported

(* A value that was written is forgotten unless a later one waits. *)
LEMMA OnWrittenKeeps ==
  ASSUME WindowInv, NEW c \in W!Chains, W!OnWritten(c)
  PROVE  WindowInv'
<1> DEFINE p == W!Forget(c)
           n == W!Size(p)
           k == c[1]
<1>1. /\ chains \in ChainTable /\ known \in KnownTable /\ calls \in Seq(Calls) /\ IsPage(page)
      /\ Sent(calls, chains) /\ Once(calls) /\ Heard(calls, chains, known) /\ k \in Keys
  BY ChainKey DEF WindowInv, WindowTypes
<1>2. CASE /\ chains[c].pc = "saved" /\ p # page
           /\ page' = p
           /\ chains' = [chains EXCEPT ![c] = [pc |-> "report", value |-> 0, size |-> n]]
           /\ calls' = Append(calls, c)
  <2>1. UNCHANGED <<bridge, window, known, budget>>
    BY DEF W!OnWritten
  <2>2. /\ p = [page EXCEPT !.pending[k] = 0] /\ page.pending[k] = chains[c].value
    BY <1>2 DEF W!Forget
  <2>3. /\ IsPage(p) /\ p.pending \in [Keys -> Nat] /\ p.pending[k] = 0
        /\ \A m \in Keys : m # k => p.pending[m] = page.pending[m]
    <3> DEFINE g == [page.pending EXCEPT ![k] = 0]
    <3>1. /\ g \in [Keys -> Nat] /\ g[k] = 0
          /\ \A m \in Keys : m # k => g[m] = page.pending[m]
      BY <1>1 DEF IsPage
    <3>2. p = [page EXCEPT !.pending = g]
      BY <2>2
    <3> HIDE DEF g, p
    <3>3. IsPage(p) /\ p.pending = g
      BY <1>1, <3>1, <3>2 DEF IsPage
    <3> QED  BY <3>1, <3>3
  <2>4. n \in Nat /\ (n = 0 => \A m \in Keys : p.pending[m] = 0)
    <3> HIDE DEF p
    <3>1. n \in Nat /\ (n = 0 => W!Unsaved(p) = {})
      BY UnsavedSize
    <3> QED  BY <3>1 DEF W!Unsaved
  <2>5. page.pending[k] # 0
    <3>1. ASSUME page.pending[k] = 0 PROVE p = page
      <4>1. page.pending \in [Keys -> Nat] /\ [page.pending EXCEPT ![k] = 0] = page.pending
        BY <1>1, <3>1 DEF IsPage
      <4>2. p = [page EXCEPT !.pending = [page.pending EXCEPT ![k] = 0]]
        BY <2>2
      <4>3. p = [page EXCEPT !.pending = page.pending]
        BY <4>1, <4>2
      <4> QED  BY <1>1, <4>3 DEF IsPage
    <3> QED  BY <1>2, <3>1
  <2> HIDE DEF p, n
  <2>6. /\ chains' \in ChainTable /\ \A d \in W!Chains : d # c => chains'[d] = chains[d]
        /\ chains'[c].pc = "report" /\ chains'[c].value = 0 /\ chains'[c].size = n
    BY <1>1, <1>2, <2>4 DEF ChainTable, ChainPcs, Sending
  <2>7. chains[c].value <= known[k].written
    BY <1>2 DEF WindowInv, Bounded
  <2>8. ASSUME NEW m \in Keys
        PROVE  /\ Bound(page, known, m) \in Nat /\ Bound(page', known, m) \in Nat
               /\ Bound(page, known, m) <= Bound(page', known, m)
               /\ p.pending[m] = 0 => Bound(page', known, m) = known[m].written
    <3>1. page.pending[m] \in Nat /\ known[m].written \in Nat
      BY <1>1 DEF IsPage, KnownTable
    <3>2. CASE m = k
      BY <1>2, <2>2, <2>3, <2>5, <2>7, <3>1, <3>2 DEF Bound
    <3>3. CASE m # k
      BY <1>2, <2>3, <3>1, <3>3 DEF Bound
    <3> QED  BY <3>2, <3>3
  <2>9. ASSUME NEW m \in Keys
        PROVE  /\ page'.pending[m] <= Latest(budget') /\ known'[m].written <= Latest(budget')
               /\ known'[m].told <= Bound(page', known', m)
    <3>1. /\ page.pending[m] <= Latest(budget) /\ known[m].written <= Latest(budget)
          /\ known[m].told <= Bound(page, known, m) /\ known[m].told \in Nat
      BY <1>1 DEF WindowInv, Bounded, KnownTable
    <3>2. page'.pending[m] <= Latest(budget)
      <4>1. CASE m = k
        <5>1. known[m].written \in Nat /\ Latest(budget) \in Int /\ p.pending[m] = 0
          BY <1>1, <2>3, <4>1, DesktopAssumption DEF KnownTable, Latest, WindowInv, WindowTypes, Allowed
        <5> QED  BY <1>2, <3>1, <5>1
      <4>2. CASE m # k
        BY <1>2, <2>3, <3>1, <4>2
      <4> QED  BY <4>1, <4>2
    <3> QED  BY <2>1, <2>8, <3>1, <3>2
  <2>10. ASSUME NEW d \in W!Chains
         PROVE  /\ chains'[d].value <= Bound(page', known', d[1])
                /\ chains'[d].pc \in {"written", "saved"} => chains'[d].value <= known'[d[1]].written
                /\ chains'[d].pc = "announce" => chains'[d].size > 0
    <3>1. /\ chains[d].value <= Bound(page, known, d[1])
          /\ chains[d].pc \in {"written", "saved"} => chains[d].value <= known[d[1]].written
          /\ chains[d].pc = "announce" => chains[d].size > 0
          /\ chains[d].value \in Nat /\ d[1] \in Keys
      BY <1>1, ChainKey DEF WindowInv, Bounded, ChainTable
    <3>2. /\ Bound(page, known, d[1]) \in Nat /\ Bound(page', known, d[1]) \in Nat
          /\ Bound(page, known, d[1]) <= Bound(page', known, d[1])
      BY <2>8, <3>1
    <3>3. CASE d = c
      BY <2>1, <2>6, <3>2, <3>3
    <3>4. CASE d # c
      BY <2>1, <2>6, <3>1, <3>2, <3>4
    <3> QED  BY <3>3, <3>4
  <2>11. Bounded(page', chains', known', budget')
    BY <2>9, <2>10 DEF Bounded
  <2>12. n = 0 => AllWritten(known) /\ \A d \in W!Chains : chains'[d].value <= known[d[1]].written
    <3> SUFFICES ASSUME n = 0
                 PROVE  AllWritten(known) /\ \A d \in W!Chains : chains'[d].value <= known[d[1]].written
      OBVIOUS
    <3>1. \A m \in Keys : Bound(page', known', m) = known[m].written
      BY <2>1, <2>4, <2>8
    <3>2. \A m \in Keys : known[m].told <= known[m].written
      BY <2>1, <2>9, <3>1
    <3>3. \A d \in W!Chains : chains'[d].value <= known[d[1]].written
      BY <2>10, <3>1, ChainKey
    <3> QED  BY <3>2, <3>3 DEF AllWritten
  <2>13. calls' \in Seq(Calls) /\ Sent(calls', chains') /\ Once(calls') /\ Heard(calls', chains', known)
    <3>1. chains[c].pc \notin Sending /\ chains'[c].pc \in Sending
      BY <1>2, <2>6 DEF Sending
    <3> QED  BY <1>1, <1>2, <2>6, <2>12, <3>1, QueueSends
  <2>14. WindowTypes'
    BY <1>2, <2>1, <2>3, <2>6, <2>13 DEF WindowInv, WindowTypes
  <2>15. Closable'
    BY <2>1 DEF WindowInv, Closable
  <2> QED  BY <2>1, <2>11, <2>13, <2>14, <2>15 DEF WindowInv
<1>3. CASE chains[c].pc = "saved" /\ W!End(c, page)
  BY <1>1, <1>3, EndKeeps DEF W!OnWritten, Sending
<1>4. CASE chains[c].pc = "refused" /\ W!End(c, [page EXCEPT !.retry = TRUE])
  BY <1>1, <1>4, PageTurns, EndKeeps DEF W!OnWritten, Sending
<1> QED  BY <1>2, <1>3, <1>4 DEF W!OnWritten

-----------------------------------------------------------------------------
(* What leaves the queue alone, and what appends to it *)

LEMMA OnCompletedKeeps ==
  ASSUME WindowInv, W!OnCompleted PROVE WindowInv'
<1>1. IsPage(page) /\ IsBridge(bridge) /\ IsWindow(window) /\ budget \in Allowed
  BY DEF WindowInv, WindowTypes
<1>2. PICK reply \in page.replies :
        page' = [page EXCEPT !.replies = @ \ {reply}, !.retry = @ \/ reply = "busy",
                             !.closing = @ /\ reply = "busy"]
  BY DEF W!OnCompleted
<1>3. IsPage(page') /\ page'.pending = page.pending
  <2> DEFINE a == page.replies \ {reply}
             b == page.retry \/ reply = "busy"
             d == page.closing /\ reply = "busy"
             p1 == [page EXCEPT !.replies = a]
             p2 == [p1 EXCEPT !.retry = b]
             p3 == [p2 EXCEPT !.closing = d]
  <2>1. page' = [page EXCEPT !.replies = a, !.retry = b, !.closing = d]
    BY <1>2
  <2> HIDE DEF a, b, d
  <2>2. page' = p3
    BY <1>1, <2>1 DEF IsPage
  <2>3. IsPage(p1) /\ p1.pending = page.pending
    BY <1>1, PageTurns
  <2> HIDE DEF p1
  <2>4. IsPage(p2) /\ p2.pending = p1.pending
    BY <2>3, PageTurns
  <2> HIDE DEF p2
  <2>5. IsPage(p3) /\ p3.pending = p2.pending
    BY <2>4, PageTurns
  <2> QED  BY <2>2, <2>3, <2>4, <2>5
<1>4. UNCHANGED <<chains, calls, bridge, window, known, budget>>
  BY DEF W!OnCompleted
<1>5. Closable'
  BY <1>4 DEF WindowInv, Closable
<1> QED  BY <1>1, <1>3, <1>4, <1>5, QuietStep

LEMMA EditKeeps ==
  ASSUME WindowInv, W!Edit \/ W!SaveNote PROVE WindowInv'
<1>1. IsPage(page) /\ IsBridge(bridge) /\ IsWindow(window) /\ budget \in Allowed
  BY DEF WindowInv, WindowTypes
<1>2. IsPage(page') /\ page'.pending = page.pending
  <2>1. CASE page' = [page EXCEPT !.dirty = TRUE]
    BY <1>1, <2>1, PageTurns
  <2>2. CASE page' = [page EXCEPT !.dirty = FALSE]
    BY <1>1, <2>2, PageTurns
  <2> QED  BY <2>1, <2>2 DEF W!Edit, W!SaveNote
<1>3. budget' \in Allowed /\ budget'.changes = budget.changes
  BY <1>1 DEF W!Edit, W!SaveNote, W!Spend, Allowed
<1>4. UNCHANGED <<chains, calls, bridge, window, known>>
  BY DEF W!Edit, W!SaveNote
<1>5. Closable'
  BY <1>4 DEF WindowInv, Closable
<1> QED  BY <1>1, <1>2, <1>3, <1>4, <1>5, QuietStep

LEMMA AskKeeps ==
  ASSUME WindowInv, NEW action, W!Ask(action) PROVE WindowInv'
<1>1. IsPage(page) /\ IsBridge(bridge) /\ IsWindow(window) /\ budget \in Allowed
  BY DEF WindowInv, WindowTypes
<1>2. UNCHANGED <<page, chains, calls, known>>
  BY DEF W!Ask
<1>3. IsBridge(bridge') /\ bridge'.count = bridge.count
  BY <1>1, BridgeTurns DEF W!Ask
<1>4. IsWindow(window') /\ window'.open = window.open /\ window'.destroying = window.destroying
  BY <1>1, WindowTurns DEF W!Ask
<1>5. budget' \in Allowed /\ budget'.changes = budget.changes
  BY <1>1 DEF W!Ask, W!Spend, Allowed
<1>6. Closable'
  BY <1>2, <1>3, <1>4 DEF WindowInv, Closable
<1> QED  BY <1>1, <1>2, <1>3, <1>4, <1>5, <1>6, QuietStep

(* The window goes once nothing is pending, and then everything is written. *)
LEMMA FinishKeeps ==
  ASSUME WindowInv, W!Finish \/ W!Destroy PROVE WindowInv'
<1>1. IsPage(page) /\ IsBridge(bridge) /\ IsWindow(window) /\ budget \in Allowed
  BY DEF WindowInv, WindowTypes
<1>2. UNCHANGED <<page, chains, calls, bridge, known, budget>>
  BY DEF W!Finish, W!Destroy
<1>3. CASE W!Finish
  <2> DEFINE f == W!Finishes
  <2>1. window' = [window EXCEPT !.timer = FALSE, !.destroying = f] /\ window.open
    BY <1>3 DEF W!Finish
  <2>2. f => AllWritten(known)
    <3>1. bridge.count \in Nat
      BY <1>1 DEF IsBridge
    <3>2. f => bridge.count = 0
      BY <3>1 DEF W!Finishes, W!Busy
    <3> QED  BY <3>2 DEF WindowInv, Closable
  <2> HIDE DEF f
  <2>3. IsWindow(window') /\ window'.open = window.open /\ window'.destroying = f
    BY <1>1, <2>1 DEF IsWindow
  <2>4. Closable'
    BY <1>2, <2>1, <2>2, <2>3 DEF WindowInv, Closable
  <2> QED  BY <1>1, <1>2, <2>3, <2>4, QuietStep
<1>4. CASE W!Destroy
  <2>1. window' = [window EXCEPT !.open = FALSE, !.destroying = FALSE] /\ window.destroying
    BY <1>4 DEF W!Destroy
  <2>2. IsWindow(window')
    BY <1>1, <2>1 DEF IsWindow
  <2>3. Closable'
    BY <1>2, <2>1 DEF WindowInv, Closable
  <2> QED  BY <1>1, <1>2, <2>2, <2>3, QuietStep
<1> QED  BY <1>3, <1>4

LEMMA FlushesKeep ==
  ASSUME WindowInv, W!Retry \/ W!Drain \/ W!LeaveEditor PROVE WindowInv'
<1>1. IsPage(page) /\ IsBridge(bridge) /\ IsWindow(window) /\ budget \in Allowed
  BY DEF WindowInv, WindowTypes
<1>2. CASE W!Retry
  BY <1>1, <1>2, PageTurns, FlushKeeps DEF W!Retry
<1>3. CASE W!LeaveEditor
  <2> DEFINE p1 == [page EXCEPT !.asking = FALSE]
             p2 == [p1 EXCEPT !.dirty = FALSE]
  <2>1. [page EXCEPT !.asking = FALSE, !.dirty = FALSE] = p2
    BY <1>1 DEF IsPage
  <2>2. IsPage(p1) /\ p1.pending = page.pending
    BY <1>1, PageTurns
  <2> HIDE DEF p1
  <2>3. IsPage(p2) /\ p2.pending = page.pending
    BY <2>2, PageTurns
  <2> HIDE DEF p2
  <2>4. W!Flush(p2) /\ UNCHANGED <<bridge, window, known, budget>>
    BY <1>3, <2>1 DEF W!LeaveEditor
  <2> QED  BY <1>1, <2>3, <2>4, FlushKeeps
<1>4. CASE W!Drain
  <2> DEFINE p == [page EXCEPT !.closing = TRUE]
  <2>1. IsPage(p) /\ p.pending = page.pending
    BY <1>1, PageTurns
  <2>2. IsWindow(window') /\ window'.open = window.open /\ window'.destroying = window.destroying
    BY <1>1, <1>4, WindowTurns DEF W!Drain
  <2>3. CASE W!Flush(p)
    <3>1. UNCHANGED <<bridge, known, budget>>
      BY <1>4 DEF W!Drain
    <3> HIDE DEF p
    <3> QED  BY <2>1, <2>2, <2>3, <3>1, FlushKeeps
  <2>4. CASE page' = [p EXCEPT !.asking = TRUE] /\ UNCHANGED <<chains, flushes, calls>>
    <3>1. IsPage(page') /\ page'.pending = page.pending
      <4> HIDE DEF p
      <4> QED  BY <2>1, <2>4, PageTurns
    <3>2. UNCHANGED <<chains, calls, bridge, known, budget>>
      BY <1>4, <2>4 DEF W!Drain
    <3>3. Closable'
      BY <2>2, <3>2 DEF WindowInv, Closable
    <3> QED  BY <1>1, <2>2, <3>1, <3>2, <3>3, QuietStep
  <2> QED  BY <1>4, <2>3, <2>4 DEF W!Drain
<1> QED  BY <1>2, <1>3, <1>4

LEMMA KeepEditingKeeps ==
  ASSUME WindowInv, W!KeepEditing PROVE WindowInv'
<1>1. /\ chains \in ChainTable /\ known \in KnownTable /\ calls \in Seq(Calls) /\ IsPage(page)
      /\ Sent(calls, chains) /\ Once(calls) /\ Heard(calls, chains, known)
  BY DEF WindowInv, WindowTypes
<1>2. IsPage(page') /\ page'.pending = page.pending
  <2> DEFINE p1 == [page EXCEPT !.asking = FALSE]
             p2 == [p1 EXCEPT !.closing = FALSE]
  <2>1. page' = p2
    BY <1>1 DEF IsPage, W!KeepEditing
  <2>2. IsPage(p1) /\ p1.pending = page.pending
    BY <1>1, PageTurns
  <2> HIDE DEF p1
  <2>3. IsPage(p2) /\ p2.pending = page.pending
    BY <2>2, PageTurns
  <2> QED  BY <2>1, <2>3
<1>3. UNCHANGED <<chains, bridge, window, known, budget>> /\ calls' = calls \o <<W!CancelCall>>
  <2>1. UNCHANGED <<chains, bridge, window, known, budget>> /\ calls' = Append(calls, W!CancelCall)
    BY DEF W!KeepEditing
  <2> QED  BY <1>1, <2>1
<1>4. calls' \in Seq(Calls) /\ Sent(calls', chains) /\ Once(calls') /\ Heard(calls', chains, known)
  BY <1>1, <1>3, SmallCalls, SameLater, QueueCloses
<1>5. WindowTypes'
  BY <1>2, <1>3, <1>4 DEF WindowInv, WindowTypes
<1>6. Bounded(page', chains', known', budget')
  BY <1>2, <1>3 DEF WindowInv, Bounded, Bound
<1>7. Closable'
  BY <1>3 DEF WindowInv, Closable
<1> QED  BY <1>3, <1>4, <1>5, <1>6, <1>7 DEF WindowInv

-----------------------------------------------------------------------------
(* The bridge takes the first call up *)

LEMMA TakenFirst ==
  ASSUME WindowInv, InOrder, NEW i \in DOMAIN calls, NEW call, W!Takes(i, call)
  PROVE  1 \in DOMAIN calls /\ calls[1] = call /\ calls' = Tail(calls) /\ window.open
<1>1. calls \in Seq(Calls) /\ i = 1 /\ calls[1] = call /\ window.open
      /\ calls' = SubSeq(calls, 1, i - 1) \o SubSeq(calls, i + 1, Len(calls))
  BY DEF WindowInv, WindowTypes, W!Takes
<1>2. 1 \in DOMAIN calls /\ Len(calls) \in Nat /\ Len(calls) >= 1
  BY <1>1
<1>3. calls' = SubSeq(calls, 1, 0) \o SubSeq(calls, 2, Len(calls))
  BY <1>1
<1>4. SubSeq(calls, 1, 0) = <<>>
  BY <1>1
<1>5. SubSeq(calls, 2, Len(calls)) = Tail(calls) /\ Tail(calls) \in Seq(Calls)
  BY <1>1, <1>2
<1> QED  BY <1>1, <1>2, <1>3, <1>4, <1>5

(* A call that is not of a chain leaves what is pending alone. *)
LEMMA TakesSmall ==
  ASSUME WindowInv, 1 \in DOMAIN calls, calls[1] \notin W!Chains, calls' = Tail(calls),
         IsPage(page'), page'.pending = page.pending, IsBridge(bridge'), bridge'.count = bridge.count,
         IsWindow(window'), window'.open = window.open, window'.destroying = window.destroying,
         UNCHANGED <<chains, known, budget>>
  PROVE  WindowInv'
<1>1. /\ chains \in ChainTable /\ known \in KnownTable /\ calls \in Seq(Calls)
      /\ Sent(calls, chains) /\ Once(calls) /\ Heard(calls, chains, known)
  BY DEF WindowInv, WindowTypes
<1>2. calls' \in Seq(Calls) /\ Sent(calls', chains) /\ Once(calls') /\ Heard(calls', chains, known)
  BY <1>1, QueueShrinks
<1>3. WindowTypes'
  BY <1>2 DEF WindowInv, WindowTypes
<1>4. Bounded(page', chains', known', budget')
  BY DEF WindowInv, Bounded, Bound
<1>5. Closable'
  BY DEF WindowInv, Closable
<1> QED  BY <1>2, <1>3, <1>4, <1>5 DEF WindowInv

LEMMA CompleteKeeps ==
  ASSUME WindowInv, 1 \in DOMAIN calls, calls[1] = W!CompleteCall, calls' = Tail(calls),
         W!CompletePendingClose
  PROVE  WindowInv'
<1>1. IsPage(page) /\ IsBridge(bridge) /\ IsWindow(window)
  BY DEF WindowInv, WindowTypes
<1>2. IsBridge(bridge') /\ bridge'.count = bridge.count
  BY <1>1, BridgeTurns DEF W!CompletePendingClose
<1>3. IsPage(page') /\ page'.pending = page.pending
  <2> DEFINE x == page.replies \union
               (IF W!Busy THEN {"busy"} ELSE IF bridge.action = "none" THEN {"nothing"} ELSE {})
  <2>1. page' = [page EXCEPT !.replies = x]
    BY DEF W!CompletePendingClose
  <2> HIDE DEF x
  <2> QED  BY <1>1, <2>1, PageTurns
<1>4. IsWindow(window') /\ window'.open = window.open /\ window'.destroying = window.destroying
  <2> DEFINE a == window.drain \/ W!Busy
             b == window.timer \/ (bridge'.scheduled /\ ~bridge.scheduled)
             w1 == [window EXCEPT !.drain = a]
             w2 == [w1 EXCEPT !.timer = b]
  <2>1. window' = [window EXCEPT !.drain = a, !.timer = b]
    BY DEF W!CompletePendingClose
  <2> HIDE DEF a, b
  <2>2. window' = w2
    BY <1>1, <2>1 DEF IsWindow
  <2>3. IsWindow(w1) /\ w1.open = window.open /\ w1.destroying = window.destroying
    BY <1>1, WindowTurns
  <2> HIDE DEF w1
  <2>4. IsWindow(w2) /\ w2.open = window.open /\ w2.destroying = window.destroying
    BY <2>3, WindowTurns
  <2> QED  BY <2>2, <2>4
<1>5. UNCHANGED <<chains, known, budget>>
  BY DEF W!CompletePendingClose
<1> QED  BY <1>2, <1>3, <1>4, <1>5, Answers, TakesSmall

LEMMA CancelKeeps ==
  ASSUME WindowInv, 1 \in DOMAIN calls, calls[1] = W!CancelCall, calls' = Tail(calls),
         W!CancelPendingClose
  PROVE  WindowInv'
<1>1. IsPage(page) /\ IsBridge(bridge) /\ IsWindow(window)
  BY DEF WindowInv, WindowTypes
<1>2. IsBridge(bridge') /\ bridge'.count = bridge.count
  <2> DEFINE b1 == [bridge EXCEPT !.action = "none"]
  <2>1. IsBridge(b1) /\ b1.count = bridge.count /\ bridge' = [b1 EXCEPT !.scheduled = FALSE]
    BY <1>1, BridgeTurns DEF W!CancelPendingClose, W!Unscheduled
  <2> HIDE DEF b1
  <2> QED  BY <2>1, BridgeTurns
<1>3. IsWindow(window') /\ window'.open = window.open /\ window'.destroying = window.destroying
  BY <1>1, WindowTurns DEF W!CancelPendingClose
<1>4. UNCHANGED <<page, chains, known, budget>>
  BY DEF W!CancelPendingClose
<1> QED  BY <1>1, <1>2, <1>3, <1>4, Answers, TakesSmall

(* set_ui_state() begins: the chain writes, or is refused. *)
LEMMA BeginWriteKeeps ==
  ASSUME WindowInv, NEW c \in W!Chains, 1 \in DOMAIN calls, calls[1] = c, calls' = Tail(calls),
         W!BeginWrite(c)
  PROVE  WindowInv'
<1> DEFINE q == IF W!Starts THEN "writing" ELSE "refused"
<1>1. /\ chains \in ChainTable /\ known \in KnownTable /\ calls \in Seq(Calls)
      /\ IsBridge(bridge) /\ IsWindow(window)
      /\ Sent(calls, chains) /\ Once(calls) /\ Heard(calls, chains, known)
  BY DEF WindowInv, WindowTypes
<1>2. /\ chains[c].pc = "write" /\ chains' = [chains EXCEPT ![c].pc = q]
      /\ UNCHANGED <<page, known, budget>>
  BY DEF W!BeginWrite
<1>3. IsBridge(bridge') /\ bridge'.count = bridge.count
  BY <1>1, BridgeTurns DEF W!BeginWrite, W!Unscheduled
<1>4. IsWindow(window') /\ window'.open = window.open /\ window'.destroying = window.destroying
  BY <1>1, WindowTurns DEF W!BeginWrite
<1>5. q \in ChainPcs /\ q \notin {"written", "saved", "announce"}
  BY DEF ChainPcs
<1> HIDE DEF q
<1>6. /\ chains' \in ChainTable /\ \A d \in W!Chains : d # c => chains'[d] = chains[d]
      /\ chains'[c].pc = q /\ chains'[c].value = chains[c].value
  BY <1>1, <1>2, <1>5 DEF ChainTable
<1>7. calls' \in Seq(Calls) /\ Sent(calls', chains') /\ Once(calls') /\ Heard(calls', chains', known)
  BY <1>1, <1>6, QueueShrinks
<1>8. WindowTypes'
  BY <1>2, <1>3, <1>4, <1>6, <1>7 DEF WindowInv, WindowTypes
<1>9. Bounded(page', chains', known', budget')
  <2>1. ASSUME NEW d \in W!Chains
        PROVE  /\ chains'[d].value <= Bound(page, known, d[1])
               /\ chains'[d].pc \in {"written", "saved"} => chains'[d].value <= known[d[1]].written
               /\ chains'[d].pc = "announce" => chains'[d].size > 0
    BY <1>5, <1>6 DEF WindowInv, Bounded
  <2> QED  BY <1>2, <2>1 DEF WindowInv, Bounded
<1>10. Closable'
  BY <1>2, <1>3, <1>4 DEF WindowInv, Closable
<1> QED  BY <1>2, <1>7, <1>8, <1>9, <1>10 DEF WindowInv

(* ui_state_pending_changed(): the bridge is told of a value, or that none waits. *)
LEMMA PendingChangedKeeps ==
  ASSUME WindowInv, NEW c \in W!Chains, 1 \in DOMAIN calls, calls[1] = c, calls' = Tail(calls),
         window.open, W!PendingChanged(c)
  PROVE  WindowInv'
<1> DEFINE grows == bridge.action # "none" /\ chains[c].size > bridge.count
           n == chains[c].size
           b == [bridge EXCEPT !.count = n]
           k == c[1]
           v == chains[c].value
           q == IF chains[c].pc = "announce" THEN IF grows THEN "deferred" ELSE "announced"
                ELSE IF grows THEN "contested" ELSE "reported"
<1>1. /\ chains \in ChainTable /\ known \in KnownTable /\ calls \in Seq(Calls) /\ k \in Keys
      /\ IsBridge(bridge) /\ IsWindow(window) /\ n \in Nat /\ v \in Nat
      /\ Sent(calls, chains) /\ Once(calls) /\ Heard(calls, chains, known)
  BY ChainKey DEF WindowInv, WindowTypes, ChainTable
<1>2. /\ chains[c].pc \in {"announce", "report"} /\ chains' = [chains EXCEPT ![c].pc = q]
      /\ UNCHANGED <<page, budget>>
      /\ bridge' = (IF grows THEN W!Unscheduled(b) ELSE b)
      /\ window' = (IF grows THEN [window EXCEPT !.timer = FALSE] ELSE window)
  BY DEF W!PendingChanged
<1>3. IsBridge(bridge') /\ bridge'.count = n
  <2>1. IsBridge(b) /\ b.count = n
    <3> HIDE DEF n
    <3> QED  BY <1>1 DEF IsBridge
  <2> HIDE DEF b, grows, n
  <2> QED  BY <1>2, <2>1, BridgeTurns DEF W!Unscheduled
<1>4. IsWindow(window') /\ window'.open /\ window'.destroying = window.destroying
  <2> HIDE DEF grows
  <2> QED  BY <1>1, <1>2, WindowTurns
<1>5. q \in ChainPcs /\ q \notin {"written", "saved", "announce"}
  BY DEF ChainPcs
<1>6. \/ known' = known
      \/ /\ known' = [known EXCEPT ![k].told = W!Larger(@, v)]
         /\ chains[c].pc = "announce" /\ ~window.destroying
  BY <1>2 DEF W!PendingChanged
<1> HIDE DEF q, grows, b
<1>7. /\ chains' \in ChainTable /\ \A d \in W!Chains : d # c => chains'[d] = chains[d]
      /\ chains'[c].pc = q /\ chains'[c].value = v
  BY <1>1, <1>2, <1>5 DEF ChainTable
<1>8. /\ known' \in KnownTable /\ \A m \in Keys : known'[m].written = known[m].written
      /\ \A m \in Keys : known'[m].told # known[m].told =>
           /\ chains[c].pc = "announce" /\ ~window.destroying
           /\ m = k /\ known'[m].told = v
  <2>1. CASE known' = known
    BY <1>1, <2>1
  <2>2. CASE /\ known' = [known EXCEPT ![k].told = W!Larger(@, v)]
             /\ chains[c].pc = "announce" /\ ~window.destroying
    <3> DEFINE t == known[k].told
               x == W!Larger(t, v)
    <3>1. t \in Nat /\ x \in Nat /\ (x = t \/ x = v)
      BY <1>1 DEF KnownTable, W!Larger
    <3>2. known' = [known EXCEPT ![k].told = x]
      BY <2>2
    <3> HIDE DEF x, v
    <3>3. /\ known' \in KnownTable /\ known'[k].told = x /\ known'[k].written = known[k].written
          /\ \A m \in Keys : m # k => known'[m] = known[m]
      BY <1>1, <3>1, <3>2 DEF KnownTable
    <3> QED  BY <2>2, <3>1, <3>3
  <2> QED  BY <1>6, <2>1, <2>2
<1>9. calls' \in Seq(Calls) /\ Sent(calls', chains') /\ Once(calls') /\ Heard(calls', chains', known')
  BY <1>1, <1>7, <1>8, QueueShrinks
<1>10. WindowTypes'
  BY <1>2, <1>3, <1>4, <1>7, <1>8, <1>9 DEF WindowInv, WindowTypes
<1>11. Bounded(page', chains', known', budget')
  <2>1. \A m \in Keys : Bound(page', known', m) = Bound(page, known, m)
    BY <1>2, <1>8 DEF Bound
  <2>2. ASSUME NEW m \in Keys
        PROVE  /\ page'.pending[m] <= Latest(budget') /\ known'[m].written <= Latest(budget')
               /\ known'[m].told <= Bound(page', known', m)
    <3>1. /\ page.pending[m] <= Latest(budget) /\ known[m].written <= Latest(budget)
          /\ known[m].told <= Bound(page, known, m) /\ v <= Bound(page, known, k)
      BY DEF WindowInv, Bounded
    <3> QED  BY <1>2, <1>8, <2>1, <3>1
  <2>3. ASSUME NEW d \in W!Chains
        PROVE  /\ chains'[d].value <= Bound(page', known', d[1])
               /\ chains'[d].pc \in {"written", "saved"} => chains'[d].value <= known'[d[1]].written
               /\ chains'[d].pc = "announce" => chains'[d].size > 0
    <3>1. /\ chains[d].value <= Bound(page, known, d[1])
          /\ chains[d].pc \in {"written", "saved"} => chains[d].value <= known[d[1]].written
          /\ chains[d].pc = "announce" => chains[d].size > 0
      BY DEF WindowInv, Bounded
    <3> QED  BY <1>5, <1>7, <1>8, <2>1, <3>1, ChainKey
  <2> QED  BY <2>2, <2>3 DEF Bounded
<1>12. Closable'
  <2>1. ASSUME bridge'.count = 0 PROVE AllWritten(known')
    <3>1. chains[c].pc = "report"
      <4>1. chains[c].pc = "announce" => chains[c].size > 0
        BY DEF WindowInv, Bounded
      <4>2. chains[c].size = 0
        BY <1>3, <2>1
      <4> QED  BY <1>2, <4>1, <4>2
    <3>2. Empties(calls, chains, 1)
      BY <1>3, <2>1, <3>1 DEF Empties
    <3>3. AllWritten(known)
      BY <1>1, <3>2 DEF Heard
    <3> QED  BY <1>6, <3>1, <3>3
  <2>2. ASSUME window'.destroying PROVE AllWritten(known')
    BY <1>4, <1>6, <2>2 DEF WindowInv, Closable
  <2> QED  BY <1>4, <2>1, <2>2 DEF Closable
<1> QED  BY <1>9, <1>10, <1>11, <1>12 DEF WindowInv

LEMMA ServeKeeps ==
  ASSUME WindowInv, InOrder, W!Serve
  PROVE  WindowInv'
<1>1. PICK i \in DOMAIN calls :
        \/ \E c \in W!Chains : W!Takes(i, c) /\ (W!PendingChanged(c) \/ W!BeginWrite(c))
        \/ W!Takes(i, W!CompleteCall) /\ W!CompletePendingClose
        \/ W!Takes(i, W!CancelCall) /\ W!CancelPendingClose
  BY DEF W!Serve
<1>2. ASSUME NEW c \in W!Chains, W!Takes(i, c), W!PendingChanged(c) \/ W!BeginWrite(c)
      PROVE  WindowInv'
  BY <1>2, TakenFirst, PendingChangedKeeps, BeginWriteKeeps
<1>3. CASE W!Takes(i, W!CompleteCall) /\ W!CompletePendingClose
  BY <1>3, TakenFirst, CompleteKeeps
<1>4. CASE W!Takes(i, W!CancelCall) /\ W!CancelPendingClose
  BY <1>4, TakenFirst, CancelKeeps
<1> QED  BY <1>1, <1>2, <1>3, <1>4

LEMMA WindowGoesOn ==
  ASSUME WindowInv, InOrder, W!Next
  PROVE  WindowInv'
<1>1. ASSUME NEW c \in W!Chains, W!Chain(c) PROVE WindowInv'
  BY <1>1, OnAnnouncedKeeps, OnWrittenKeeps, OnReportedKeeps, StoreKeeps, EndWriteKeeps DEF W!Chain
<1>2. ASSUME NEW k \in Keys, W!Change(k) PROVE WindowInv'
  BY <1>2, ChangeKeeps
<1>3. ASSUME NEW action \in {"close", "restart"}, W!Ask(action) PROVE WindowInv'
  BY <1>3, AskKeeps
<1>4. CASE W!OnCompleted
  BY <1>4, OnCompletedKeeps
<1>5. CASE W!Serve
  BY <1>5, ServeKeeps
<1>6. CASE W!Retry \/ W!Drain \/ W!LeaveEditor
  BY <1>6, FlushesKeep
<1>7. CASE W!Finish \/ W!Destroy
  BY <1>7, FinishKeeps
<1>8. CASE W!Edit \/ W!SaveNote
  BY <1>8, EditKeeps
<1>9. CASE W!KeepEditing
  BY <1>9, KeepEditingKeeps
<1> QED  BY <1>1, <1>2, <1>3, <1>4, <1>5, <1>6, <1>7, <1>8, <1>9 DEF W!Next

-----------------------------------------------------------------------------
(* The model that is admitted. *)

ModelPcs == {"idle", "measure", "look", "pull", "remeasure", "admit", "use", "extract",
             "generate", "fetch", "adopt"}

(* What a thread remembers of its call. *)
IsCall(t) ==
  t \in [pc : ModelPcs, job : {t.job}, site : {"arrive", "head", "use"}, asked : {t.asked},
         target : {t.target}, seen : {t.seen}, lease : {t.lease}]

(* A model that was found in place, or was brought in, is still installed when it is
   measured for once more and when it generates. *)
CallReady(t, installed) ==
  /\ t.pc \in {"remeasure", "generate"} => t.target \in installed
  /\ t.pc = "generate" => M!Fits(M!Need(t.target), t.seen)

ModelInv ==
  /\ caller = [c \in Callers |-> caller[c]]
  /\ ollama = [installed |-> ollama.installed, loaded |-> ollama.loaded]
  /\ \A c \in Callers : IsCall(caller[c]) /\ CallReady(caller[c], ollama.installed)

LEMMA ModelStarts == ASSUME M!Init PROVE ModelInv
<1>1. IsCall(M!Resting) /\ CallReady(M!Resting, ollama.installed)
  BY DEF IsCall, CallReady, ModelPcs, M!Resting
<1>2. \A c \in Callers : caller[c] = M!Resting
  BY DEF M!Init
<1>3. caller = [c \in Callers |-> caller[c]]
  BY DEF M!Init
<1>4. ollama = [installed |-> ollama.installed, loaded |-> ollama.loaded]
  BY DEF M!Init
<1> QED  BY <1>1, <1>2, <1>3, <1>4 DEF ModelInv

(* A step of thread c that installs models or none, and leaves c with a call that
   is ready. *)
LEMMA CallTurns ==
  ASSUME ModelInv, NEW c \in Callers, NEW t, IsCall(t), CallReady(t, ollama'.installed),
         M!Goes(c, t),
         ollama' = [installed |-> ollama'.installed, loaded |-> ollama'.loaded],
         ollama.installed \subseteq ollama'.installed
  PROVE  ModelInv'
<1>1. caller' = [d \in Callers |-> IF d = c THEN t ELSE caller[d]]
  BY DEF M!Goes, ModelInv
<1>2. ASSUME NEW d \in Callers PROVE IsCall(caller'[d]) /\ CallReady(caller'[d], ollama'.installed)
  BY <1>1 DEF CallReady, ModelInv
<1> QED  BY <1>1, <1>2 DEF ModelInv, IsCall

(* A thread that turns elsewhere without a model, or gives up. *)
LEMMA IdleIsReady ==
  /\ IsCall(M!Resting) /\ CallReady(M!Resting, ollama'.installed)
  BY DEF IsCall, CallReady, ModelPcs, M!Resting

LEMMA SameModels ==
  ASSUME ModelInv, UNCHANGED ollama
  PROVE  /\ ollama' = [installed |-> ollama'.installed, loaded |-> ollama'.loaded]
         /\ ollama.installed \subseteq ollama'.installed
  BY DEF ModelInv

LEMMA ResumeReady ==
  ASSUME ModelInv, NEW c \in Callers, NEW j, NEW asked, M!Resume(c, j, asked)
  PROVE  ModelInv'
<1> DEFINE t == [M!Resting EXCEPT !.pc = IF j \in Notes THEN "measure" ELSE "admit", !.job = j,
                             !.asked = asked, !.target = IF j \in Notes THEN M!Configured ELSE none]
<1>1. M!Goes(c, t) /\ UNCHANGED ollama
  BY DEF M!Resume
<1>2. IsCall(t) /\ CallReady(t, ollama'.installed)
  BY DEF IsCall, CallReady, ModelPcs, M!Resting
<1> HIDE DEF t
<1> QED  BY <1>1, <1>2, SameModels, CallTurns

LEMMA RefuseReady ==
  ASSUME ModelInv, NEW c \in Callers, NEW offer, M!Refuse(c, offer), UNCHANGED ollama
  PROVE  ModelInv'
  BY IdleIsReady, SameModels, CallTurns DEF M!Refuse

(* check_cycle_model() says yes to a model that is installed and fits. *)
LEMMA AllowReady ==
  ASSUME ModelInv, NEW c \in Callers, NEW m, NEW level, M!Allow(c, m, level),
         m \in ollama.installed, M!Fits(M!Need(m), level), UNCHANGED ollama
  PROVE  ModelInv'
<1> DEFINE t == caller[c]
<1>1. IsCall(t)
  BY DEF ModelInv
<1>2. CASE t.site = "arrive"
  <2> DEFINE u == [t EXCEPT !.pc = "measure", !.site = "head", !.target = M!Configured, !.seen = 0]
  <2>1. M!Goes(c, u)
    BY <1>2 DEF M!Allow
  <2>2. IsCall(u) /\ CallReady(u, ollama'.installed)
    <3>1. IsCall(u)
      BY <1>1 DEF IsCall, ModelPcs
    <3>2. u.pc \notin {"remeasure", "generate"}
      BY <1>1 DEF IsCall, ModelPcs
    <3> QED  BY <3>1, <3>2 DEF CallReady
  <2> HIDE DEF u, t
  <2> QED  BY <2>1, <2>2, SameModels, CallTurns
<1>3. CASE t.site = "head"
  <2> DEFINE u == [t EXCEPT !.pc = "admit", !.target = none, !.seen = 0]
  <2>1. M!Goes(c, u)
    BY <1>3 DEF M!Allow
  <2>2. IsCall(u) /\ CallReady(u, ollama'.installed)
    <3>1. IsCall(u)
      BY <1>1 DEF IsCall, ModelPcs
    <3>2. u.pc \notin {"remeasure", "generate"}
      BY <1>1 DEF IsCall, ModelPcs
    <3> QED  BY <3>1, <3>2 DEF CallReady
  <2> HIDE DEF u, t
  <2> QED  BY <2>1, <2>2, SameModels, CallTurns
<1>4. CASE t.site = "use"
  <2> DEFINE u == [t EXCEPT !.pc = "generate", !.target = m, !.seen = level]
  <2>1. M!Goes(c, u)
    BY <1>4 DEF M!Allow
  <2>2. IsCall(u) /\ CallReady(u, ollama'.installed)
    <3>1. IsCall(u)
      BY <1>1 DEF IsCall, ModelPcs
    <3>2. u.target = m /\ u.seen = level
      BY <1>1 DEF IsCall
    <3> HIDE DEF u
    <3> QED  BY <3>1, <3>2 DEF CallReady
  <2> HIDE DEF u, t
  <2> QED  BY <2>1, <2>2, SameModels, CallTurns
<1> QED  BY <1>1, <1>2, <1>3, <1>4 DEF IsCall

LEMMA MeasureReady ==
  ASSUME ModelInv, NEW c \in Callers, M!Measure(c)
  PROVE  ModelInv'
<1> DEFINE t == caller[c]
           u == [t EXCEPT !.pc = "look", !.seen = free,
                          !.target = IF @ = none THEN M!Select(free) ELSE @]
<1>1. IsCall(t) /\ UNCHANGED ollama
  BY DEF ModelInv, M!Measure
<1>2. CASE M!Refuse(c, none)
  BY <1>1, <1>2, RefuseReady
<1>3. CASE M!Goes(c, u)
  <2>1. IsCall(u) /\ CallReady(u, ollama'.installed)
    <3>1. IsCall(u)
      BY <1>1 DEF IsCall, ModelPcs
    <3>2. u.pc \notin {"remeasure", "generate"}
      BY <1>1 DEF IsCall, ModelPcs
    <3> QED  BY <3>1, <3>2 DEF CallReady
  <2> HIDE DEF u, t
  <2> QED  BY <1>1, <1>3, <2>1, SameModels, CallTurns
<1> QED  BY <1>2, <1>3 DEF M!Measure

LEMMA LookReady ==
  ASSUME ModelInv, NEW c \in Callers, M!Look(c)
  PROVE  ModelInv'
<1> DEFINE t == caller[c]
           compatible == M!Select(t.seen)
           u == [t EXCEPT !.pc = IF compatible \in ollama.installed THEN "remeasure" ELSE "pull",
                          !.target = compatible]
<1>1. IsCall(t) /\ UNCHANGED ollama
  BY DEF ModelInv, M!Look
<1>2. CASE M!Refuse(c, none) \/ M!Refuse(c, compatible)
  BY <1>1, <1>2, RefuseReady
<1>3. CASE M!InPlace(t) /\ M!Allow(c, t.target, t.seen)
  <2>1. t.target \in ollama.installed /\ M!Fits(M!Need(t.target), t.seen)
    BY <1>3 DEF M!InPlace
  <2> QED  BY <1>1, <1>3, <2>1, AllowReady
<1>4. CASE M!Goes(c, u)
  <2> HIDE DEF compatible
  <2>1. IsCall(u) /\ CallReady(u, ollama'.installed)
    <3>1. IsCall(u)
      BY <1>1 DEF IsCall, ModelPcs
    <3>2. u.target = compatible /\ u.pc \in {"remeasure", "pull"}
          /\ (u.pc = "remeasure" => compatible \in ollama.installed)
      BY <1>1 DEF IsCall, ModelPcs
    <3> HIDE DEF u, t
    <3> QED  BY <1>1, <3>1, <3>2 DEF CallReady
  <2> HIDE DEF u, t
  <2> QED  BY <1>1, <1>4, <2>1, SameModels, CallTurns
<1> QED  BY <1>2, <1>3, <1>4 DEF M!Look

(* A download adds its model. *)
LEMMA BringsIn ==
  ASSUME ModelInv, NEW m, ollama' = [ollama EXCEPT !.installed = @ \union {m}]
  PROVE  /\ ollama' = [installed |-> ollama'.installed, loaded |-> ollama'.loaded]
         /\ ollama.installed \subseteq ollama'.installed /\ m \in ollama'.installed
  BY DEF ModelInv

(* What is loaded does not change what is installed. *)
LEMMA Loads ==
  ASSUME ModelInv, NEW models, ollama' = [ollama EXCEPT !.loaded = models]
  PROVE  /\ ollama' = [installed |-> ollama'.installed, loaded |-> ollama'.loaded]
         /\ ollama.installed \subseteq ollama'.installed
  BY DEF ModelInv

LEMMA PullReady ==
  ASSUME ModelInv, NEW c \in Callers, M!Pull(c)
  PROVE  ModelInv'
<1> DEFINE t == caller[c]
           u == [t EXCEPT !.pc = "remeasure"]
<1>1. IsCall(t)
  BY DEF ModelInv
<1>2. CASE ollama' = [ollama EXCEPT !.installed = @ \union {t.target}] /\ M!Goes(c, u)
  <2> HIDE DEF t
  <2>1. u.target = t.target /\ u.pc = "remeasure" /\ IsCall(u)
    BY <1>1 DEF IsCall, ModelPcs
  <2>2. CallReady(u, ollama'.installed)
    BY <1>2, <2>1, BringsIn DEF CallReady
  <2> HIDE DEF u
  <2> USE DEF t
  <2> QED  BY <1>2, <2>1, <2>2, BringsIn, CallTurns
<1>3. CASE M!Refuse(c, t.target) /\ UNCHANGED ollama
  BY <1>3, RefuseReady
<1> QED  BY <1>2, <1>3 DEF M!Pull

LEMMA RemeasureReady ==
  ASSUME ModelInv, NEW c \in Callers, M!Remeasure(c)
  PROVE  ModelInv'
<1>1. caller[c].target \in ollama.installed /\ UNCHANGED ollama
  BY DEF ModelInv, CallReady, M!Remeasure, M!At
<1>2. CASE M!FitsStill(caller[c])
  BY <1>1, <1>2, AllowReady DEF M!Remeasure, M!FitsStill
<1>3. CASE ~M!FitsStill(caller[c])
  BY <1>1, <1>3, RefuseReady DEF M!Remeasure
<1> QED  BY <1>2, <1>3

LEMMA WaitReady ==
  ASSUME ModelInv, NEW c \in Callers, M!Wait(c), UNCHANGED ollama
  PROVE  ModelInv'
  BY IdleIsReady, SameModels, CallTurns DEF M!Wait

LEMMA AdmitNoteReady ==
  ASSUME ModelInv, NEW c \in Callers, M!AdmitNote(c)
  PROVE  ModelInv'
<1> DEFINE t == caller[c]
           u == [t EXCEPT !.pc = "use", !.lease = M!Nominate(free)]
<1>1. IsCall(t) /\ UNCHANGED ollama
  BY DEF ModelInv, M!AdmitNote
<1>2. CASE M!Wait(c)
  BY <1>1, <1>2, WaitReady
<1>3. CASE M!Goes(c, u)
  <2>1. IsCall(u) /\ CallReady(u, ollama'.installed)
    <3>1. IsCall(u)
      BY <1>1 DEF IsCall, ModelPcs
    <3>2. u.pc \notin {"remeasure", "generate"}
      BY <1>1 DEF IsCall, ModelPcs
    <3> QED  BY <3>1, <3>2 DEF CallReady
  <2> HIDE DEF u, t
  <2> QED  BY <1>1, <1>3, <2>1, SameModels, CallTurns
<1> QED  BY <1>2, <1>3 DEF M!AdmitNote

LEMMA AdmitScanReady ==
  ASSUME ModelInv, NEW c \in Callers, M!AdmitScan(c)
  PROVE  ModelInv'
<1> DEFINE t == caller[c]
           u == [t EXCEPT !.pc = "extract", !.lease = "media_ocr"]
<1>1. IsCall(t)
  BY DEF ModelInv
<1>2. CASE M!Wait(c) /\ UNCHANGED ollama
  BY <1>2, WaitReady
<1>3. CASE M!Goes(c, u) /\ (ollama' = [ollama EXCEPT !.loaded = {}] \/ UNCHANGED ollama)
  <2>1. IsCall(u) /\ CallReady(u, ollama'.installed)
    <3>1. IsCall(u)
      BY <1>1 DEF IsCall, ModelPcs
    <3>2. u.pc \notin {"remeasure", "generate"}
      BY <1>1 DEF IsCall, ModelPcs
    <3> QED  BY <3>1, <3>2 DEF CallReady
  <2> HIDE DEF u, t
  <2> QED  BY <1>3, <2>1, SameModels, Loads, CallTurns
<1> QED  BY <1>2, <1>3 DEF M!AdmitScan

LEMMA UseReady ==
  ASSUME ModelInv, NEW c \in Callers, M!Use(c)
  PROVE  ModelInv'
<1> DEFINE t == caller[c]
           m == IF policy # none THEN policy ELSE M!Nominate(free)
           u == [t EXCEPT !.pc = "measure", !.site = "use", !.target = m]
<1>1. IsCall(t) /\ UNCHANGED ollama
  BY DEF ModelInv, M!Use
<1>2. CASE M!Wait(c)
  BY <1>1, <1>2, WaitReady
<1>3. CASE M!Goes(c, u)
  <2>1. IsCall(u) /\ CallReady(u, ollama'.installed)
    <3>1. IsCall(u)
      BY <1>1 DEF IsCall, ModelPcs
    <3>2. u.pc \notin {"remeasure", "generate"}
      BY <1>1 DEF IsCall, ModelPcs
    <3> QED  BY <3>1, <3>2 DEF CallReady
  <2> HIDE DEF u, t
  <2> QED  BY <1>1, <1>3, <2>1, SameModels, CallTurns
<1> QED  BY <1>2, <1>3 DEF M!Use

LEMMA WorkReady ==
  ASSUME ModelInv, NEW c \in Callers, M!Work(c)
  PROVE  ModelInv'
<1>1. M!Goes(c, M!Resting)
  BY DEF M!Work
<1>2. \/ ollama' = [ollama EXCEPT !.loaded = ollama.loaded \union {caller[c].target}]
      \/ UNCHANGED ollama
  BY DEF M!Work
<1> QED  BY <1>1, <1>2, IdleIsReady, SameModels, Loads, CallTurns

LEMMA PrepareReady ==
  ASSUME ModelInv, NEW c \in Callers, M!Prepare(c)
  PROVE  ModelInv'
<1> DEFINE u == [M!Resting EXCEPT !.pc = "fetch", !.target = M!Recommended(free)]
<1>1. M!Goes(c, u) /\ UNCHANGED ollama
  BY DEF M!Prepare
<1>2. IsCall(u) /\ CallReady(u, ollama'.installed)
  BY DEF IsCall, CallReady, ModelPcs, M!Resting
<1> HIDE DEF u
<1> QED  BY <1>1, <1>2, SameModels, CallTurns

LEMMA FetchReady ==
  ASSUME ModelInv, NEW c \in Callers, M!Fetch(c)
  PROVE  ModelInv'
<1> DEFINE t == caller[c]
           u == [t EXCEPT !.pc = "adopt"]
<1>1. IsCall(t)
  BY DEF ModelInv
<1>2. CASE ollama' = [ollama EXCEPT !.installed = @ \union {t.target}] /\ M!Goes(c, u)
  <2>1. IsCall(u) /\ CallReady(u, ollama'.installed)
    <3>1. IsCall(u)
      BY <1>1 DEF IsCall, ModelPcs
    <3>2. u.pc \notin {"remeasure", "generate"}
      BY <1>1 DEF IsCall, ModelPcs
    <3> QED  BY <3>1, <3>2 DEF CallReady
  <2> HIDE DEF u, t
  <2> QED  BY <1>2, <2>1, BringsIn, CallTurns
<1>3. CASE M!Goes(c, M!Resting) /\ UNCHANGED ollama
  BY <1>3, IdleIsReady, SameModels, CallTurns
<1> QED  BY <1>2, <1>3 DEF M!Fetch

LEMMA AdoptReady ==
  ASSUME ModelInv, NEW c \in Callers, M!Adopt(c)
  PROVE  ModelInv'
  BY IdleIsReady, SameModels, CallTurns DEF M!Adopt

LEMMA ModelGoesOn == ASSUME ModelInv, M!Next PROVE ModelInv'
<1>1. ASSUME NEW c \in Callers, M!Proceeds(c) PROVE ModelInv'
  BY <1>1, MeasureReady, LookReady, PullReady, RemeasureReady, AdmitNoteReady, AdmitScanReady,
     UseReady, WorkReady, FetchReady, AdoptReady DEF M!Proceeds
<1>2. ASSUME M!MemoryChanges PROVE ModelInv'
  BY <1>2 DEF M!MemoryChanges, ModelInv, CallReady
<1> QED  BY <1>1, <1>2, PrepareReady, ResumeReady DEF M!Next

-----------------------------------------------------------------------------
(* The settings that are saved. *)

Policies == [vectors : BOOLEAN, model : BOOLEAN]

IsConsole(c) ==
  c \in [config : {c.config}, governor : {c.governor}, policy : Policies,
         applying : BOOLEAN, retrieval : {c.retrieval}, chat : {c.chat}]

(* The pipeline indexes vectors exactly when its policy says so. *)
IsPipe(p) ==
  /\ p \in [config : {p.config}, governor : {p.governor}, policy : Policies, index : BOOLEAN]
  /\ p.index = p.policy.vectors

SavingPcs == {"measure", "write", "apply", "configure", "policy", "adopt", "build",
              "undo", "undo_console", "undo_pipe"}

IsLeft(was) == was \in [config : {was.config}, services : BOOLEAN]

(* What a thread remembers of its call. *)
IsSave(t) ==
  /\ t \in [pc : SavingPcs, payload : {t.payload}, next : {t.next}, policy : {t.policy},
            before : {t.before}, alone : BOOLEAN, left : {t.left}]
  /\ IsConsole(t.before) /\ IsLeft(t.left)
  /\ t.pc \in {"write", "apply", "configure", "policy", "adopt", "build"} => t.policy \in Policies

IsAsk(t) ==
  /\ t \in [pc : {"keep"}, retrieval : {t.retrieval}, chat : {t.chat}, alone : BOOLEAN,
            left : {t.left}]
  /\ IsLeft(t.left)

IsPrepare(t) ==
  /\ t \in [pc : {"prepared"}, policy : Policies, alone : BOOLEAN, left : {t.left}]
  /\ IsLeft(t.left)

IsVisit(t) ==
  \/ t.pc = "idle"
  \/ t.pc \in SavingPcs /\ IsSave(t)
  \/ t.pc = "keep" /\ IsAsk(t)
  \/ t.pc = "prepared" /\ IsPrepare(t)

(* One set of settings: AloneAgrees, of the file f, the settings service s, the console c and
   the pipeline p. *)
Agree(config, f, s, c, p) ==
  /\ f = config /\ s = config
  /\ c.config = config /\ c.governor = config.url
  /\ p.config = config /\ p.governor = config.url
  /\ p.policy = c.policy

Current(retrieval, chat, c) ==
  retrieval \in {none, c.policy} /\ chat \in {none, c.config.url}

(* What a call left behind, unless it overlapped another. *)
LeftTrue(was, f, s, c, p) ==
  was # L!Unsettled =>
    /\ Agree(was.config, f, s, c, p)
    /\ was.services => Current(c.retrieval, c.chat, c)

(* How far a save that nobody overlapped has come. *)
SaveHolds(t, f, s, c, p) ==
  LET Reached(pcs) == t.pc \in pcs IN
  /\ t.left.services => Current(t.before.retrieval, t.before.chat, t.before)
  /\ Reached({"apply", "configure", "policy", "adopt", "build"}) => f = t.next
  /\ Reached({"configure", "policy", "adopt", "build"}) =>
       s = t.next /\ c.config = t.next /\ c.governor = t.next.url
  /\ Reached({"policy", "adopt", "build"}) => p.config = t.next /\ p.governor = t.next.url
  /\ Reached({"adopt", "build"}) => p.policy = t.policy
  /\ Reached({"build"}) => c.policy = t.policy /\ c.retrieval = none /\ c.chat = none
  /\ Reached({"undo_console", "undo_pipe"}) => f = t.before.config
  /\ Reached({"undo_pipe"}) =>
       /\ s = t.before.config /\ c.config = t.before.config /\ c.governor = t.before.config.url
       /\ c.policy = t.before.policy

(* A question keeps the services it built, a prepared model its policy. *)
AskHolds(t, f, s, c, p) ==
  t.left # L!Unsettled =>
    /\ Agree(t.left.config, f, s, c, p)
    /\ t.left.services => Current(t.retrieval, t.chat, c)

PrepareHolds(t, f, s, c, p) ==
  t.left # L!Unsettled => Agree(t.left.config, f, s, c, p)

Holds(t, f, s, c, p) ==
  /\ t.pc \in SavingPcs => SaveHolds(t, f, s, c, p)
  /\ t.pc = "keep" => AskHolds(t, f, s, c, p)
  /\ t.pc = "prepared" => PrepareHolds(t, f, s, c, p)

Idle(c) == thread[c].pc = "idle"

(* A call that has not been overlapped is the only one. *)
SettingsInv ==
  /\ IsConsole(console) /\ IsPipe(pipe)
  /\ thread = [c \in Callers |-> thread[c]]
  /\ \A c \in Callers : IsVisit(thread[c])
  /\ IsLeft(settled)
  /\ LeftTrue(settled, disk, service, console, pipe)
  /\ \A c \in Callers : ~Idle(c) =>
       /\ settled = L!Unsettled
       /\ thread[c].alone =>
            /\ \A d \in Callers \ {c} : Idle(d)
            /\ Holds(thread[c], disk, service, console, pipe)

LEMMA SettingsMeaning == SettingsInv => L!AloneAgrees
<1> SUFFICES ASSUME SettingsInv, settled.config # none
             PROVE  /\ Agree(settled.config, disk, service, console, pipe)
                    /\ pipe.index = pipe.policy.vectors
                    /\ settled.services => Current(console.retrieval, console.chat, console)
  BY DEF L!AloneAgrees, Agree, Current
<1>1. settled # L!Unsettled
  BY DEF L!Unsettled
<1> QED  BY <1>1 DEF SettingsInv, LeftTrue, IsPipe

LEMMA PolicyIsPolicy == \A config, ready : ready \in BOOLEAN => L!Policy(config, ready) \in Policies
  BY DEF L!Policy, Policies

(* A step of a call that goes on with t. *)
LEMMA CallContinues ==
  ASSUME SettingsInv, NEW c \in Callers, ~Idle(c), NEW t, L!Goes(c, t),
         t.pc # "idle", IsVisit(t), t.alone = thread[c].alone, UNCHANGED settled,
         IsConsole(console'), IsPipe(pipe'),
         thread[c].alone => Holds(t, disk', service', console', pipe')
  PROVE  SettingsInv'
<1>1. thread' = [d \in Callers |-> IF d = c THEN t ELSE thread[d]]
  BY DEF L!Goes, SettingsInv
<1>2. thread' = [d \in Callers |-> thread'[d]]
  BY <1>1
<1>3. \A d \in Callers : IsVisit(thread'[d])
  BY <1>1 DEF SettingsInv
<1>4. settled' = L!Unsettled /\ settled = L!Unsettled
  BY DEF SettingsInv
<1>5. LeftTrue(settled', disk', service', console', pipe')
  BY <1>4 DEF LeftTrue
<1>6. IsLeft(settled')
  BY DEF SettingsInv
<1>7. ASSUME NEW d \in Callers, thread'[d].pc # "idle", thread'[d].alone
      PROVE  /\ \A e \in Callers \ {d} : thread'[e].pc = "idle"
             /\ Holds(thread'[d], disk', service', console', pipe')
  <2>1. CASE d = c
    BY <1>1, <1>7, <2>1 DEF SettingsInv, Idle
  <2>2. CASE d # c
    BY <1>1, <1>7, <2>2 DEF SettingsInv, Idle
  <2> QED  BY <2>1, <2>2
<1> QED  BY <1>2, <1>3, <1>4, <1>5, <1>6, <1>7 DEF SettingsInv, Idle

(* A call that ends and leaves settings behind. *)
LEMMA CallEnds ==
  ASSUME SettingsInv, NEW c \in Callers, ~Idle(c), NEW was, L!Ends(c, was),
         IsLeft(was),
         IsConsole(console'), IsPipe(pipe'),
         thread[c].alone => LeftTrue(was, disk', service', console', pipe')
  PROVE  SettingsInv'
<1>1. thread' = [d \in Callers |-> IF d = c THEN L!Resting ELSE thread[d]]
  BY DEF L!Ends, L!Goes, SettingsInv
<1>2. thread' = [d \in Callers |-> thread'[d]]
  BY <1>1
<1>3. \A d \in Callers : IsVisit(thread'[d])
  BY <1>1 DEF SettingsInv, IsVisit, L!Resting
<1>4. settled = L!Unsettled
  BY DEF SettingsInv
<1>5. /\ IsLeft(settled')
      /\ LeftTrue(settled', disk', service', console', pipe')
  <2>1. CASE thread[c].alone
    BY <2>1 DEF L!Ends
  <2>2. CASE ~thread[c].alone
    BY <2>2, <1>4 DEF L!Ends, LeftTrue, SettingsInv
  <2> QED  BY <2>1, <2>2
<1>6. ASSUME NEW d \in Callers, thread'[d].pc # "idle"
      PROVE  settled' = L!Unsettled /\ ~thread'[d].alone
  <2>1. d # c /\ ~Idle(d) /\ thread'[d] = thread[d]
    BY <1>1, <1>6 DEF L!Resting, Idle
  <2>2. ~thread[c].alone /\ ~thread[d].alone
    BY <2>1 DEF SettingsInv
  <2> QED  BY <1>4, <2>1, <2>2 DEF L!Ends
<1> QED  BY <1>2, <1>3, <1>5, <1>6 DEF SettingsInv, Idle

LEMMA UnsettledIsLeft == IsLeft(L!Unsettled) /\ L!Unsettled.services = FALSE
  BY DEF L!Unsettled, IsLeft

(* A call that begins. *)
LEMMA CallBegins ==
  ASSUME SettingsInv, NEW c \in Callers, NEW t, L!Begins(c, t),
         UNCHANGED <<disk, service, console, pipe>>,
         t.pc # "idle", IsVisit(t), t.alone = L!Alone(c),
         L!Alone(c) => Holds(t, disk, service, console, pipe)
  PROVE  SettingsInv'
<1>1. thread' = [d \in Callers |->
         IF d = c THEN t
         ELSE IF Idle(d) THEN thread[d] ELSE [thread[d] EXCEPT !.alone = FALSE, !.left = L!Unsettled]]
  BY DEF L!Begins, L!In, Idle
<1>2. thread' = [d \in Callers |-> thread'[d]]
  BY <1>1
<1>3. ASSUME NEW d \in Callers, d # c, ~Idle(d)
      PROVE  IsVisit(thread'[d]) /\ ~thread'[d].alone
  <2> DEFINE v == thread[d]
             w == [v EXCEPT !.alone = FALSE, !.left = L!Unsettled]
  <2>1. thread'[d] = w
    BY <1>1, <1>3
  <2>2. IsVisit(v) /\ v.pc # "idle"
    BY <1>3 DEF SettingsInv, Idle
  <2>3. CASE v.pc \in SavingPcs /\ IsSave(v)
    <3>1. w \in [pc : SavingPcs, payload : {v.payload}, next : {v.next}, policy : {v.policy},
                 before : {v.before}, alone : BOOLEAN, left : {L!Unsettled}]
      BY <2>3 DEF IsSave
    <3>2. w.pc = v.pc /\ w.payload = v.payload /\ w.next = v.next /\ w.policy = v.policy
          /\ w.before = v.before /\ w.left = L!Unsettled /\ w.alone = FALSE
      BY <2>3 DEF IsSave
    <3> HIDE DEF w, v
    <3>3. IsSave(w)
      BY <2>3, <3>1, <3>2, UnsettledIsLeft DEF IsSave
    <3> QED  BY <2>1, <2>3, <3>2, <3>3 DEF IsVisit
  <2>4. CASE v.pc = "keep" /\ IsAsk(v)
    <3>1. /\ w \in [pc : {"keep"}, retrieval : {v.retrieval}, chat : {v.chat}, alone : BOOLEAN,
               left : {L!Unsettled}]
          /\ w.retrieval = v.retrieval /\ w.chat = v.chat
          /\ w.alone = FALSE /\ w.left = L!Unsettled
      BY <2>4 DEF IsAsk
    <3> HIDE DEF w, v
    <3>2. IsAsk(w) /\ w.pc = "keep"
      BY <3>1, UnsettledIsLeft DEF IsAsk
    <3> QED  BY <2>1, <3>1, <3>2 DEF IsVisit
  <2>5. CASE v.pc = "prepared" /\ IsPrepare(v)
    <3>1. /\ w \in [pc : {"prepared"}, policy : Policies, alone : BOOLEAN, left : {L!Unsettled}]
          /\ w.alone = FALSE /\ w.left = L!Unsettled
      BY <2>5 DEF IsPrepare
    <3> HIDE DEF w, v
    <3>2. IsPrepare(w) /\ w.pc = "prepared"
      BY <3>1, UnsettledIsLeft DEF IsPrepare
    <3> QED  BY <2>1, <3>1, <3>2 DEF IsVisit
  <2> QED  BY <2>2, <2>3, <2>4, <2>5 DEF IsVisit
<1>4. ASSUME NEW d \in Callers, d # c, Idle(d) PROVE thread'[d].pc = "idle"
  BY <1>1, <1>4 DEF Idle
<1>5. thread'[c] = t
  BY <1>1
<1>6. settled' = L!Unsettled
  BY DEF L!Begins
<1>7. \A d \in Callers : IsVisit(thread'[d])
  BY <1>3, <1>4, <1>5 DEF IsVisit
<1>8. LeftTrue(settled', disk', service', console', pipe')
      /\ IsLeft(settled')
  BY <1>6, UnsettledIsLeft DEF LeftTrue
<1>9. ASSUME NEW d \in Callers, thread'[d].pc # "idle", thread'[d].alone
      PROVE  /\ \A e \in Callers \ {d} : thread'[e].pc = "idle"
             /\ Holds(thread'[d], disk', service', console', pipe')
  <2>1. d = c
    BY <1>3, <1>4, <1>9
  <2>2. L!Alone(c)
    BY <1>5, <1>9, <2>1
  <2>3. \A e \in Callers \ {c} : thread'[e].pc = "idle"
    BY <1>4, <2>2 DEF L!Alone, L!In, Idle
  <2> QED  BY <1>5, <2>1, <2>2, <2>3
<1> QED  BY <1>2, <1>6, <1>7, <1>8, <1>9 DEF SettingsInv, Idle

LEMMA SaveOf ==
  ASSUME SettingsInv, NEW c \in Callers, thread[c].pc \in SavingPcs
  PROVE  /\ ~Idle(c) /\ IsSave(thread[c])
         /\ IsConsole(console) /\ IsPipe(pipe)
         /\ thread[c].alone => SaveHolds(thread[c], disk, service, console, pipe)
<1>1. ~Idle(c) /\ IsVisit(thread[c])
  BY DEF SettingsInv, Idle, SavingPcs
<1>2. IsSave(thread[c])
  BY <1>1 DEF IsVisit, SavingPcs
<1> QED  BY <1>1, <1>2 DEF SettingsInv, Holds

(* A save that goes on with t and holds what t needs. *)
LEMMA SaveContinues ==
  ASSUME SettingsInv, NEW c \in Callers, ~Idle(c), NEW t, L!Goes(c, t), IsSave(t),
         t.alone = thread[c].alone, UNCHANGED settled, IsConsole(console'), IsPipe(pipe'),
         thread[c].alone => SaveHolds(t, disk', service', console', pipe')
  PROVE  SettingsInv'
<1>1. t.pc \in SavingPcs /\ t.pc # "idle" /\ t.pc # "keep" /\ t.pc # "prepared"
  BY DEF IsSave, SavingPcs
<1> QED  BY <1>1, CallContinues DEF IsVisit, Holds

LEMMA FailsKeeps ==
  ASSUME SettingsInv, NEW c \in Callers, thread[c].pc \in SavingPcs, L!Fails(c)
  PROVE  SettingsInv'
<1> DEFINE t == thread[c]
           u == [t EXCEPT !.pc = "undo", !.payload = none, !.policy = none, !.next = none]
<1>1. ~Idle(c) /\ IsSave(t) /\ (t.alone => SaveHolds(t, disk, service, console, pipe))
  BY SaveOf
<1>2. L!Goes(c, u) /\ UNCHANGED <<disk, service, pipe, settled>>
  BY DEF L!Fails, L!Forgets
<1>3. IsConsole(console') /\ IsPipe(pipe')
  <2>1. console' = [console EXCEPT !.applying = FALSE] /\ IsConsole(console)
    BY SaveOf DEF L!Fails
  <2>2. IsConsole(console')
    BY <2>1 DEF IsConsole
  <2> QED  BY <1>2, <2>2 DEF SettingsInv
<1>4. /\ u.pc = "undo" /\ u.before = t.before /\ u.left = t.left /\ u.alone = t.alone
      /\ u.payload = none /\ u.policy = none /\ u.next = none
  BY <1>1 DEF IsSave
<1>5. IsSave(u)
  BY <1>1 DEF IsSave, SavingPcs
<1> HIDE DEF u
<1>6. t.alone => SaveHolds(u, disk', service', console', pipe')
  BY <1>1, <1>4 DEF SaveHolds
<1> HIDE DEF t
<1> USE DEF t
<1> QED  BY <1>1, <1>2, <1>3, <1>4, <1>5, <1>6, SaveContinues

LEMMA SaveBegins ==
  ASSUME SettingsInv, NEW c \in Callers, L!Save(c)
  PROVE  SettingsInv'
<1>1. PICK payload \in L!Payloads :
        L!Begins(c, [pc |-> "measure", payload |-> payload, next |-> L!Prepared(payload),
                     policy |-> none, before |-> [console EXCEPT !.applying = FALSE],
                     alone |-> L!Alone(c), left |-> L!Left(c)])
  BY DEF L!Save
<1> DEFINE before == [console EXCEPT !.applying = FALSE]
           next == L!Prepared(payload)
           t == [pc |-> "measure", payload |-> payload, next |-> next, policy |-> none,
                 before |-> before, alone |-> L!Alone(c), left |-> L!Left(c)]
<1>2. UNCHANGED <<disk, service, console, pipe>>
  BY DEF L!Save
<1>3. /\ IsConsole(before) /\ before.config = console.config /\ before.policy = console.policy
      /\ before.retrieval = console.retrieval /\ before.chat = console.chat
  BY DEF SettingsInv, IsConsole
<1> HIDE DEF before, next
<1>4. L!Alone(c) \in BOOLEAN /\ IsLeft(L!Left(c))
  BY UnsettledIsLeft DEF L!Alone, L!Left, SettingsInv
<1>5. IsSave(t) /\ t.pc = "measure"
  BY <1>3, <1>4 DEF IsSave, SavingPcs
<1>6. ASSUME L!Alone(c) PROVE Holds(t, disk, service, console, pipe)
  <2>1. t.left = settled
    BY <1>6 DEF L!Left
  <2>2. settled.services => Current(console.retrieval, console.chat, console)
    BY DEF SettingsInv, LeftTrue, L!Unsettled
  <2>3. t.left.services => Current(t.before.retrieval, t.before.chat, t.before)
    BY <1>3, <2>1, <2>2 DEF Current
  <2> QED
    <3>1. Current(before.retrieval, before.chat, before) <=> Current(console.retrieval, console.chat, console)
      BY <1>3 DEF Current
    <3> QED  BY <2>3, <1>5 DEF Holds, SaveHolds
<1>7. t.alone = L!Alone(c) /\ IsVisit(t)
  BY <1>5 DEF IsVisit, SavingPcs
<1>8. L!Begins(c, t)
  BY <1>1 DEF before, next
<1> HIDE DEF t
<1> QED  BY <1>2, <1>5, <1>6, <1>7, <1>8, CallBegins

LEMMA MeasureKeeps ==
  ASSUME SettingsInv, NEW c \in Callers, L!MeasurePolicy(c)
  PROVE  SettingsInv'
<1> DEFINE t == thread[c]
<1>1. t.pc = "measure" /\ t.pc \in SavingPcs
  BY DEF L!MeasurePolicy, L!In, SavingPcs
<1>2. ~Idle(c) /\ IsSave(t) /\ IsConsole(console) /\ IsPipe(pipe)
      /\ (t.alone => SaveHolds(t, disk, service, console, pipe))
  BY <1>1, SaveOf
<1>3. CASE L!Fails(c)
  BY <1>1, <1>3, FailsKeeps
<1>4. ASSUME NEW ready \in BOOLEAN,
             L!Goes(c, [t EXCEPT !.pc = "write", !.policy = L!Policy(t.next, ready)]),
             console' = [console EXCEPT !.applying = TRUE],
             UNCHANGED <<disk, service, pipe, settled>>
      PROVE  SettingsInv'
  <2> DEFINE p == L!Policy(t.next, ready)
             u == [t EXCEPT !.pc = "write", !.policy = p]
  <2>1. p \in Policies
    BY PolicyIsPolicy
  <2> HIDE DEF p
  <2>2. IsSave(u) /\ u.pc = "write" /\ u.alone = t.alone /\ u.left = t.left /\ u.before = t.before
    BY <1>2, <2>1 DEF IsSave, SavingPcs
  <2>3. IsConsole(console') /\ IsPipe(pipe')
    BY <1>2, <1>4 DEF IsConsole
  <2>4. L!Goes(c, u)
    BY <1>4 DEF p
  <2> HIDE DEF u
  <2>5. t.alone => SaveHolds(u, disk', service', console', pipe')
    BY <1>2, <2>2 DEF SaveHolds
  <2> QED  BY <1>2, <1>4, <2>2, <2>3, <2>4, <2>5, SaveContinues
<1> QED  BY <1>3, <1>4 DEF L!MeasurePolicy

LEMMA WriteKeeps ==
  ASSUME SettingsInv, NEW c \in Callers, L!WriteConfig(c)
  PROVE  SettingsInv'
<1> DEFINE t == thread[c]
           config == L!Prepared(t.payload)
           u == [t EXCEPT !.pc = "apply", !.payload = none, !.next = config]
<1>1. t.pc = "write" /\ t.pc \in SavingPcs
  BY DEF L!WriteConfig, L!In, SavingPcs
<1>2. ~Idle(c) /\ IsSave(t) /\ IsConsole(console) /\ IsPipe(pipe)
      /\ (t.alone => SaveHolds(t, disk, service, console, pipe))
  BY <1>1, SaveOf
<1>3. CASE L!Fails(c)
  BY <1>1, <1>3, FailsKeeps
<1>4. CASE disk' = config /\ L!Goes(c, u) /\ UNCHANGED <<service, console, pipe, settled>>
  <2> HIDE DEF config
  <2>1. /\ IsSave(u) /\ u.pc = "apply" /\ u.alone = t.alone /\ u.left = t.left
        /\ u.before = t.before /\ u.next = config
    BY <1>1, <1>2 DEF IsSave, SavingPcs
  <2> HIDE DEF u
  <2>2. t.alone => SaveHolds(u, disk', service', console', pipe')
    BY <1>2, <1>4, <2>1 DEF SaveHolds
  <2> QED  BY <1>2, <1>4, <2>1, <2>2, SaveContinues
<1> QED  BY <1>3, <1>4 DEF L!WriteConfig

(* The step of a save that only moves on. *)
LEMMA Stepped ==
  ASSUME NEW c, IsSave(thread[c]), NEW pc \in SavingPcs, L!Steps(c, pc),
         pc \in {"write", "apply", "configure", "policy", "adopt", "build"} =>
           thread[c].policy \in Policies
  PROVE  \E u : /\ L!Goes(c, u) /\ IsSave(u) /\ u.pc = pc /\ u.alone = thread[c].alone
                /\ u.left = thread[c].left /\ u.before = thread[c].before
                /\ u.next = thread[c].next /\ u.policy = thread[c].policy
<1> DEFINE t == thread[c]
           u == [t EXCEPT !.pc = pc]
<1>1. L!Goes(c, u)
  BY DEF L!Steps
<1>2. /\ IsSave(u) /\ u.pc = pc /\ u.alone = t.alone /\ u.left = t.left
      /\ u.before = t.before /\ u.next = t.next /\ u.policy = t.policy
  BY DEF IsSave, SavingPcs
<1> HIDE DEF u
<1> QED  BY <1>1, <1>2

LEMMA ApplyKeeps ==
  ASSUME SettingsInv, NEW c \in Callers, L!ApplyConfig(c)
  PROVE  SettingsInv'
<1> DEFINE t == thread[c]
<1>1. t.pc = "apply" /\ t.pc \in SavingPcs
  BY DEF L!ApplyConfig, L!In, SavingPcs
<1>2. ~Idle(c) /\ IsSave(t) /\ IsConsole(console) /\ IsPipe(pipe)
      /\ (t.alone => SaveHolds(t, disk, service, console, pipe))
  BY <1>1, SaveOf
<1>3. t.policy \in Policies
  BY <1>1, <1>2 DEF IsSave
<1>4. L!Steps(c, "configure") /\ service' = t.next /\ UNCHANGED <<disk, pipe, settled>>
  BY DEF L!ApplyConfig
<1>5. PICK u : /\ L!Goes(c, u) /\ IsSave(u) /\ u.pc = "configure" /\ u.alone = t.alone
               /\ u.left = t.left /\ u.before = t.before /\ u.next = t.next /\ u.policy = t.policy
  BY <1>2, <1>3, <1>4, Stepped DEF SavingPcs
<1>6. /\ IsConsole(console') /\ console'.config = t.next /\ console'.governor = t.next.url
  <2> DEFINE next == t.next
             pol == IF console.applying THEN console.policy ELSE L!Policy(next, FALSE)
             new == [console EXCEPT !.config = next, !.governor = next.url, !.chat = none, !.policy = pol]
  <2>1. console' = new
    BY DEF L!ApplyConfig, L!Applied
  <2>2. pol \in Policies
    BY <1>2, PolicyIsPolicy DEF IsConsole
  <2> HIDE DEF pol, next
  <2>3. IsConsole(new) /\ new.config = next /\ new.governor = next.url
    BY <1>2, <2>2 DEF IsConsole
  <2> HIDE DEF new
  <2> QED  BY <2>1, <2>3 DEF next
<1>7. t.alone => SaveHolds(u, disk', service', console', pipe')
  BY <1>1, <1>2, <1>4, <1>5, <1>6 DEF SaveHolds
<1> QED  BY <1>2, <1>4, <1>5, <1>6, <1>7, SaveContinues

LEMMA ConfigureKeeps ==
  ASSUME SettingsInv, NEW c \in Callers, L!ConfigurePipeline(c)
  PROVE  SettingsInv'
<1> DEFINE t == thread[c]
<1>1. t.pc = "configure" /\ t.pc \in SavingPcs
  BY DEF L!ConfigurePipeline, L!In, SavingPcs
<1>2. ~Idle(c) /\ IsSave(t) /\ IsConsole(console) /\ IsPipe(pipe)
      /\ (t.alone => SaveHolds(t, disk, service, console, pipe))
  BY <1>1, SaveOf
<1>3. t.policy \in Policies
  BY <1>1, <1>2 DEF IsSave
<1>4. L!Steps(c, "policy") /\ UNCHANGED <<disk, service, settled>>
  BY DEF L!ConfigurePipeline
<1>5. PICK u : /\ L!Goes(c, u) /\ IsSave(u) /\ u.pc = "policy" /\ u.alone = t.alone
               /\ u.left = t.left /\ u.before = t.before /\ u.next = t.next /\ u.policy = t.policy
  BY <1>2, <1>3, <1>4, Stepped DEF SavingPcs
<1>6. /\ IsPipe(pipe') /\ pipe'.config = t.next /\ pipe'.governor = t.next.url
  <2> DEFINE next == t.next
             new == [pipe EXCEPT !.config = next, !.governor = next.url]
  <2>1. pipe' = new
    BY DEF L!ConfigurePipeline, L!Configured
  <2> HIDE DEF next
  <2>3. IsPipe(new) /\ new.config = next /\ new.governor = next.url
    BY <1>2 DEF IsPipe
  <2> HIDE DEF new
  <2> QED  BY <2>1, <2>3 DEF next
<1>7. /\ IsConsole(console') /\ console'.config = console.config
      /\ console'.governor = console.governor
  <2> DEFINE new == [console EXCEPT !.applying = FALSE]
  <2>1. console' = new
    BY DEF L!ConfigurePipeline
  <2>2. IsConsole(new) /\ new.config = console.config /\ new.governor = console.governor
    BY <1>2 DEF IsConsole
  <2> HIDE DEF new
  <2> QED  BY <2>1, <2>2
<1>8. t.alone => SaveHolds(u, disk', service', console', pipe')
  BY <1>1, <1>2, <1>4, <1>5, <1>6, <1>7 DEF SaveHolds
<1> QED  BY <1>2, <1>4, <1>5, <1>6, <1>7, <1>8, SaveContinues

(* ETLPipeline.set_runtime_policy() leaves an index that follows the policy. *)
LEMMA GovernedFollows ==
  ASSUME IsPipe(pipe), NEW pol \in Policies, NEW p, p = L!Governed(pol)
  PROVE  /\ IsPipe(p) /\ p.policy = pol
         /\ p.config = pipe.config /\ p.governor = pipe.governor
<1> DEFINE index == pol.vectors \/ (pipe.index /\ ~pipe.policy.vectors)
<1>1. /\ pipe.index = pipe.policy.vectors /\ pipe.index \in BOOLEAN
      /\ pol.vectors \in BOOLEAN
  BY DEF IsPipe, Policies
<1>2. index = pol.vectors
  BY <1>1, Zenon
<1>3. p = [pipe EXCEPT !.policy = pol, !.index = index]
  BY DEF L!Governed
<1> HIDE DEF index
<1>4. /\ p \in [config : {pipe.config}, governor : {pipe.governor}, policy : Policies, index : BOOLEAN]
      /\ p.policy = pol /\ p.index = index /\ p.config = pipe.config /\ p.governor = pipe.governor
  BY <1>1, <1>2, <1>3 DEF IsPipe
<1> QED  BY <1>2, <1>4 DEF IsPipe

LEMMA SetPolicyKeeps ==
  ASSUME SettingsInv, NEW c \in Callers, L!SetPipelinePolicy(c)
  PROVE  SettingsInv'
<1> DEFINE t == thread[c]
<1>1. t.pc = "policy" /\ t.pc \in SavingPcs
  BY DEF L!SetPipelinePolicy, L!In, SavingPcs
<1>2. ~Idle(c) /\ IsSave(t) /\ IsConsole(console) /\ IsPipe(pipe)
      /\ (t.alone => SaveHolds(t, disk, service, console, pipe))
  BY <1>1, SaveOf
<1>3. t.policy \in Policies
  BY <1>1, <1>2 DEF IsSave
<1>4. CASE L!Fails(c)
  BY <1>1, <1>4, FailsKeeps
<1>5. CASE pipe' = L!Governed(t.policy) /\ L!Steps(c, "adopt")
           /\ UNCHANGED <<disk, service, console, settled>>
  <2>1. PICK u : /\ L!Goes(c, u) /\ IsSave(u) /\ u.pc = "adopt" /\ u.alone = t.alone
                 /\ u.left = t.left /\ u.before = t.before /\ u.next = t.next /\ u.policy = t.policy
    BY <1>2, <1>3, <1>5, Stepped DEF SavingPcs
  <2>2. /\ IsPipe(pipe') /\ pipe'.policy = t.policy
        /\ pipe'.config = pipe.config /\ pipe'.governor = pipe.governor
    BY <1>2, <1>3, <1>5, GovernedFollows
  <2>3. t.alone => SaveHolds(u, disk', service', console', pipe')
    BY <1>1, <1>2, <1>5, <2>1, <2>2 DEF SaveHolds
  <2> QED  BY <1>2, <1>5, <2>1, <2>2, <2>3, SaveContinues
<1> QED  BY <1>4, <1>5 DEF L!SetPipelinePolicy

LEMMA AdoptKeeps ==
  ASSUME SettingsInv, NEW c \in Callers, L!AdoptPolicy(c)
  PROVE  SettingsInv'
<1> DEFINE t == thread[c]
<1>1. t.pc = "adopt" /\ t.pc \in SavingPcs
  BY DEF L!AdoptPolicy, L!In, SavingPcs
<1>2. ~Idle(c) /\ IsSave(t) /\ IsConsole(console) /\ IsPipe(pipe)
      /\ (t.alone => SaveHolds(t, disk, service, console, pipe))
  BY <1>1, SaveOf
<1>3. t.policy \in Policies
  BY <1>1, <1>2 DEF IsSave
<1>4. L!Steps(c, "build") /\ UNCHANGED <<disk, service, pipe, settled>>
  BY DEF L!AdoptPolicy
<1>5. PICK u : /\ L!Goes(c, u) /\ IsSave(u) /\ u.pc = "build" /\ u.alone = t.alone
               /\ u.left = t.left /\ u.before = t.before /\ u.next = t.next /\ u.policy = t.policy
  BY <1>2, <1>3, <1>4, Stepped DEF SavingPcs
<1>6. /\ IsConsole(console') /\ console'.policy = t.policy /\ console'.retrieval = none
      /\ console'.chat = none /\ console'.config = console.config
      /\ console'.governor = console.governor
  <2> DEFINE pol == t.policy
             new == [console EXCEPT !.policy = pol, !.retrieval = none, !.chat = none]
  <2>1. console' = new
    BY DEF L!AdoptPolicy
  <2> HIDE DEF pol
  <2>2. /\ IsConsole(new) /\ new.policy = pol /\ new.retrieval = none
        /\ new.chat = none /\ new.config = console.config /\ new.governor = console.governor
    BY <1>2, <1>3 DEF IsConsole, pol
  <2> HIDE DEF new
  <2> QED  BY <2>1, <2>2 DEF pol
<1>7. t.alone => SaveHolds(u, disk', service', console', pipe')
  BY <1>1, <1>2, <1>4, <1>5, <1>6 DEF SaveHolds
<1> QED  BY <1>2, <1>4, <1>5, <1>6, <1>7, SaveContinues

LEMMA BuildKeeps ==
  ASSUME SettingsInv, NEW c \in Callers, L!BuildServices(c)
  PROVE  SettingsInv'
<1> DEFINE t == thread[c]
           was == [config |-> t.next, services |-> TRUE]
<1>1. t.pc = "build" /\ t.pc \in SavingPcs
  BY DEF L!BuildServices, L!In, SavingPcs
<1>2. ~Idle(c) /\ IsSave(t) /\ IsConsole(console) /\ IsPipe(pipe)
      /\ (t.alone => SaveHolds(t, disk, service, console, pipe))
  BY <1>1, SaveOf
<1>3. CASE L!Fails(c)
  BY <1>1, <1>3, FailsKeeps
<1>4. CASE console' = L!Built /\ L!Ends(c, was) /\ UNCHANGED <<disk, service, pipe>>
  <2> DEFINE retrieval == IF console.retrieval = none THEN console.policy ELSE console.retrieval
             chat == IF console.chat = none THEN console.config.url ELSE console.chat
  <2>1. console' = [console EXCEPT !.retrieval = retrieval, !.chat = chat]
    BY <1>4 DEF L!Built
  <2>2. console.retrieval = none /\ console.chat = none
        => retrieval = console.policy /\ chat = console.config.url
    OBVIOUS
  <2> HIDE DEF retrieval, chat
  <2>3. /\ IsConsole(console') /\ console'.retrieval = retrieval /\ console'.chat = chat
        /\ console'.config = console.config /\ console'.governor = console.governor
        /\ console'.policy = console.policy
    <3> DEFINE new == [console EXCEPT !.retrieval = retrieval, !.chat = chat]
    <3>1. /\ IsConsole(new) /\ new.retrieval = retrieval /\ new.chat = chat
          /\ new.config = console.config /\ new.governor = console.governor
          /\ new.policy = console.policy
      BY <1>2 DEF IsConsole
    <3> HIDE DEF new
    <3>2. console' = new
      BY <2>1 DEF new
    <3> QED  BY <3>1, <3>2
  <2>4. /\ was.config = t.next
        /\ IsLeft(was)
    BY DEF IsLeft
  <2> HIDE DEF was
  <2>5. ASSUME t.alone PROVE LeftTrue(was, disk', service', console', pipe')
    <3>1. /\ disk = t.next /\ service = t.next /\ console.config = t.next
          /\ console.governor = t.next.url /\ pipe.config = t.next /\ pipe.governor = t.next.url
          /\ pipe.policy = t.policy /\ console.policy = t.policy
          /\ console.retrieval = none /\ console.chat = none
      BY <1>1, <1>2, <2>5 DEF SaveHolds
    <3>2. Agree(was.config, disk', service', console', pipe')
      BY <1>4, <2>3, <2>4, <3>1 DEF Agree
    <3>3. Current(console'.retrieval, console'.chat, console')
      BY <2>2, <2>3, <3>1 DEF Current
    <3> QED  BY <3>2, <3>3 DEF LeftTrue
  <2>6. IsPipe(pipe')
    BY <1>2, <1>4
  <2> QED  BY <1>2, <1>4, <2>3, <2>4, <2>5, <2>6, CallEnds
<1> QED  BY <1>3, <1>4 DEF L!BuildServices

(* A call that knows nothing of what it leaves. *)
LEMMA EndsUnsettled ==
  ASSUME SettingsInv, NEW c \in Callers, ~Idle(c), L!Ends(c, L!Unsettled),
         IsConsole(console'), IsPipe(pipe')
  PROVE  SettingsInv'
  BY CallEnds, UnsettledIsLeft DEF LeftTrue

LEMMA GivesUpKeeps ==
  ASSUME SettingsInv, NEW c \in Callers, ~Idle(c), L!GivesUp(c)
  PROVE  SettingsInv'
<1>1. IsConsole(console') /\ IsPipe(pipe')
  BY DEF L!GivesUp, SettingsInv
<1> QED  BY <1>1, EndsUnsettled DEF L!GivesUp

LEMMA RestoreFileKeeps ==
  ASSUME SettingsInv, NEW c \in Callers, L!RestoreFile(c)
  PROVE  SettingsInv'
<1> DEFINE t == thread[c]
<1>1. t.pc = "undo" /\ t.pc \in SavingPcs
  BY DEF L!RestoreFile, L!In, SavingPcs
<1>2. ~Idle(c) /\ IsSave(t) /\ IsConsole(console) /\ IsPipe(pipe)
      /\ (t.alone => SaveHolds(t, disk, service, console, pipe))
  BY <1>1, SaveOf
<1>3. CASE L!GivesUp(c)
  BY <1>2, <1>3, GivesUpKeeps
<1>4. CASE disk' = t.before.config /\ L!Steps(c, "undo_console")
           /\ UNCHANGED <<service, console, pipe, settled>>
  <2>1. PICK u : /\ L!Goes(c, u) /\ IsSave(u) /\ u.pc = "undo_console" /\ u.alone = t.alone
                 /\ u.left = t.left /\ u.before = t.before /\ u.next = t.next /\ u.policy = t.policy
    BY <1>2, <1>4, Stepped DEF SavingPcs
  <2>2. t.alone => SaveHolds(u, disk', service', console', pipe')
    BY <1>1, <1>2, <1>4, <2>1 DEF SaveHolds
  <2> QED  BY <1>2, <1>4, <2>1, <2>2, SaveContinues
<1> QED  BY <1>3, <1>4 DEF L!RestoreFile

LEMMA RestoreConsoleKeeps ==
  ASSUME SettingsInv, NEW c \in Callers, L!RestoreConsole(c)
  PROVE  SettingsInv'
<1> DEFINE t == thread[c]
           before == t.before
<1>1. t.pc = "undo_console" /\ t.pc \in SavingPcs
  BY DEF L!RestoreConsole, L!In, SavingPcs
<1>2. ~Idle(c) /\ IsSave(t) /\ IsConsole(console) /\ IsPipe(pipe) /\ IsConsole(before)
      /\ (t.alone => SaveHolds(t, disk, service, console, pipe))
  BY <1>1, SaveOf DEF IsSave
<1>3. L!Steps(c, "undo_pipe") /\ service' = before.config /\ UNCHANGED <<disk, pipe, settled>>
  BY DEF L!RestoreConsole
<1>4. PICK u : /\ L!Goes(c, u) /\ IsSave(u) /\ u.pc = "undo_pipe" /\ u.alone = t.alone
               /\ u.left = t.left /\ u.before = before /\ u.next = t.next /\ u.policy = t.policy
  BY <1>2, <1>3, Stepped DEF SavingPcs
<1>5. /\ IsConsole(console') /\ console'.config = before.config
      /\ console'.governor = before.config.url /\ console'.policy = before.policy
  <2> DEFINE config == before.config
             pol == before.policy
             new == [console EXCEPT !.config = config, !.governor = config.url, !.policy = pol]
  <2>1. console' = new
    BY DEF L!RestoreConsole, L!Restored
  <2>2. pol \in Policies
    BY <1>2 DEF IsConsole
  <2> HIDE DEF pol, config
  <2>3. /\ IsConsole(new) /\ new.config = config /\ new.governor = config.url
        /\ new.policy = pol
    BY <1>2, <2>2 DEF IsConsole
  <2> HIDE DEF new
  <2> QED  BY <2>1, <2>3 DEF config, pol
<1> HIDE DEF before
<1>6. t.alone => SaveHolds(u, disk', service', console', pipe')
  BY <1>1, <1>2, <1>3, <1>4, <1>5 DEF SaveHolds, before
<1> QED  BY <1>2, <1>3, <1>4, <1>5, <1>6, SaveContinues

LEMMA RestorePipelineKeeps ==
  ASSUME SettingsInv, NEW c \in Callers, L!RestorePipeline(c)
  PROVE  SettingsInv'
<1> DEFINE t == thread[c]
           before == t.before
           was == [config |-> before.config, services |-> t.left.services]
<1>1. t.pc = "undo_pipe" /\ t.pc \in SavingPcs
  BY DEF L!RestorePipeline, L!In, SavingPcs
<1>2. ~Idle(c) /\ IsSave(t) /\ IsConsole(console) /\ IsPipe(pipe) /\ IsConsole(before)
      /\ (t.alone => SaveHolds(t, disk, service, console, pipe))
  BY <1>1, SaveOf DEF IsSave
<1>3. CASE L!GivesUp(c)
  BY <1>2, <1>3, GivesUpKeeps
<1>4. CASE /\ pipe' = [L!Governed(before.policy) EXCEPT !.config = before.config,
                                                        !.governor = before.config.url]
           /\ console' = [console EXCEPT !.retrieval = before.retrieval, !.chat = before.chat]
           /\ L!Ends(c, was) /\ UNCHANGED <<disk, service>>
  <2>1. /\ IsPipe(pipe') /\ pipe'.config = before.config /\ pipe'.governor = before.config.url
        /\ pipe'.policy = before.policy
    <3> DEFINE pol == before.policy
               config == before.config
               governed == L!Governed(pol)
               new == [governed EXCEPT !.config = config, !.governor = config.url]
    <3>1. pipe' = new
      BY <1>4
    <3>2. pol \in Policies
      BY <1>2 DEF IsConsole
    <3> HIDE DEF pol, config
    <3>3. IsPipe(governed) /\ governed.policy = pol
      BY <1>2, <3>2, GovernedFollows
    <3> HIDE DEF governed
    <3>4. /\ IsPipe(new) /\ new.config = config /\ new.governor = config.url
          /\ new.policy = pol
      BY <3>3 DEF IsPipe
    <3> HIDE DEF new
    <3> QED  BY <3>1, <3>4 DEF config, pol
  <2>2. /\ IsConsole(console') /\ console'.retrieval = before.retrieval
        /\ console'.chat = before.chat /\ console'.config = console.config
        /\ console'.governor = console.governor /\ console'.policy = console.policy
    <3> DEFINE retrieval == before.retrieval
               chat == before.chat
               new == [console EXCEPT !.retrieval = retrieval, !.chat = chat]
    <3>1. console' = new
      BY <1>4
    <3> HIDE DEF retrieval, chat
    <3>2. /\ IsConsole(new) /\ new.retrieval = retrieval /\ new.chat = chat
          /\ new.config = console.config /\ new.governor = console.governor
          /\ new.policy = console.policy
      BY <1>2 DEF IsConsole
    <3> HIDE DEF new
    <3> QED  BY <3>1, <3>2 DEF retrieval, chat
  <2>3. IsLeft(was) /\ was.config = before.config /\ was.services = t.left.services
    BY <1>2 DEF IsSave, IsLeft
  <2> HIDE DEF was
  <2>4. ASSUME t.alone PROVE LeftTrue(was, disk', service', console', pipe')
    <3>1. /\ disk = before.config /\ service = before.config /\ console.config = before.config
          /\ console.governor = before.config.url /\ console.policy = before.policy
          /\ t.left.services => Current(before.retrieval, before.chat, before)
      BY <1>1, <1>2, <2>4 DEF SaveHolds
    <3>2. Agree(was.config, disk', service', console', pipe')
      BY <1>4, <2>1, <2>2, <2>3, <3>1 DEF Agree
    <3>3. was.services => Current(console'.retrieval, console'.chat, console')
      BY <2>2, <2>3, <3>1 DEF Current
    <3> QED  BY <3>2, <3>3 DEF LeftTrue
  <2> QED  BY <1>2, <1>4, <2>1, <2>2, <2>3, <2>4, CallEnds
<1> QED  BY <1>3, <1>4 DEF L!RestorePipeline

LEMMA SettledHolds ==
  ASSUME SettingsInv, NEW c \in Callers, L!Alone(c), L!Left(c) # L!Unsettled
  PROVE  /\ Agree(L!Left(c).config, disk, service, console, pipe)
         /\ L!Left(c).services => Current(console.retrieval, console.chat, console)
  BY DEF L!Left, SettingsInv, LeftTrue

LEMMA LeftIsLeft ==
  ASSUME SettingsInv, NEW c \in Callers
  PROVE  L!Alone(c) \in BOOLEAN /\ IsLeft(L!Left(c))
  BY UnsettledIsLeft DEF L!Alone, L!Left, SettingsInv

LEMMA AskBegins ==
  ASSUME SettingsInv, NEW c \in Callers, L!Ask(c)
  PROVE  SettingsInv'
<1> DEFINE retrieval == L!Built.retrieval
           chat == L!Built.chat
           t == [pc |-> "keep", retrieval |-> retrieval, chat |-> chat,
                 alone |-> L!Alone(c), left |-> L!Left(c)]
<1>1. L!Begins(c, t) /\ UNCHANGED <<disk, service, console, pipe>>
  BY DEF L!Ask
<1>2. Current(console.retrieval, console.chat, console) => Current(retrieval, chat, console)
  <2>1. IsConsole(console)
    BY DEF SettingsInv
  <2>2. /\ retrieval = IF console.retrieval = none THEN console.policy ELSE console.retrieval
        /\ chat = IF console.chat = none THEN console.config.url ELSE console.chat
    BY <2>1 DEF L!Built, IsConsole
  <2> HIDE DEF retrieval, chat
  <2> QED  BY <2>2 DEF Current
<1> HIDE DEF retrieval, chat
<1>3. IsAsk(t) /\ t.pc = "keep" /\ t.alone = L!Alone(c) /\ t.left = L!Left(c)
      /\ t.retrieval = retrieval /\ t.chat = chat
  BY LeftIsLeft DEF IsAsk
<1> HIDE DEF t
<1>4. IsVisit(t) /\ t.pc # "idle" /\ t.pc \notin SavingPcs /\ t.pc # "prepared"
  BY <1>3 DEF IsVisit, SavingPcs
<1>5. L!Alone(c) => AskHolds(t, disk, service, console, pipe)
  BY <1>2, <1>3, SettledHolds DEF AskHolds
<1>6. L!Alone(c) => Holds(t, disk, service, console, pipe)
  BY <1>4, <1>5 DEF Holds
<1> QED  BY <1>1, <1>3, <1>4, <1>6, CallBegins

LEMMA KeepKeeps ==
  ASSUME SettingsInv, NEW c \in Callers, L!KeepServices(c)
  PROVE  SettingsInv'
<1> DEFINE t == thread[c]
<1>1. t.pc = "keep" /\ ~Idle(c) /\ IsVisit(t)
  BY DEF L!KeepServices, L!In, Idle, SettingsInv
<1>2. IsAsk(t) /\ (t.alone => AskHolds(t, disk, service, console, pipe))
      /\ IsConsole(console) /\ IsPipe(pipe)
  BY <1>1 DEF IsVisit, SavingPcs, SettingsInv, Holds
<1>3. L!Ends(c, t.left) /\ UNCHANGED <<disk, service, pipe>> /\ IsLeft(t.left)
  BY <1>2 DEF L!KeepServices, IsAsk
<1>4. /\ IsConsole(console') /\ console'.retrieval = t.retrieval /\ console'.chat = t.chat
      /\ console'.config = console.config /\ console'.governor = console.governor
      /\ console'.policy = console.policy
  <2> DEFINE retrieval == t.retrieval
             chat == t.chat
             new == [console EXCEPT !.retrieval = retrieval, !.chat = chat]
  <2>1. console' = new
    BY DEF L!KeepServices
  <2> HIDE DEF retrieval, chat
  <2>2. /\ IsConsole(new) /\ new.retrieval = retrieval /\ new.chat = chat
        /\ new.config = console.config /\ new.governor = console.governor
        /\ new.policy = console.policy
    BY <1>2 DEF IsConsole
  <2> HIDE DEF new
  <2> QED  BY <2>1, <2>2 DEF retrieval, chat
<1>5. ASSUME t.alone PROVE LeftTrue(t.left, disk', service', console', pipe')
  <2>1. AskHolds(t, disk, service, console, pipe)
    BY <1>2, <1>5
  <2>2. ASSUME t.left # L!Unsettled
        PROVE  /\ Agree(t.left.config, disk', service', console', pipe')
               /\ t.left.services => Current(console'.retrieval, console'.chat, console')
    BY <1>3, <1>4, <2>1, <2>2 DEF AskHolds, Agree, Current
  <2> QED  BY <2>2 DEF LeftTrue
<1>6. IsPipe(pipe')
  BY <1>2, <1>3
<1> QED  BY <1>1, <1>3, <1>4, <1>5, <1>6, CallEnds

LEMMA PrepareBegins ==
  ASSUME SettingsInv, NEW c \in Callers, L!PrepareModel(c)
  PROVE  SettingsInv'
<1>1. PICK ready \in BOOLEAN :
        L!Begins(c, [pc |-> "prepared", policy |-> L!Policy(console.config, ready),
                     alone |-> L!Alone(c), left |-> L!Left(c)])
  BY DEF L!PrepareModel
<1> DEFINE pol == L!Policy(console.config, ready)
           t == [pc |-> "prepared", policy |-> pol, alone |-> L!Alone(c), left |-> L!Left(c)]
<1>2. UNCHANGED <<disk, service, console, pipe>>
  BY DEF L!PrepareModel
<1>3. pol \in Policies
  BY PolicyIsPolicy
<1> HIDE DEF pol
<1>4. IsPrepare(t) /\ t.pc = "prepared" /\ t.alone = L!Alone(c) /\ t.left = L!Left(c)
  BY <1>3, LeftIsLeft DEF IsPrepare
<1>5. L!Begins(c, t)
  BY <1>1 DEF pol
<1> HIDE DEF t
<1>6. IsVisit(t) /\ t.pc # "idle" /\ t.pc \notin SavingPcs /\ t.pc # "keep"
  BY <1>4 DEF IsVisit, SavingPcs
<1>7. L!Alone(c) => PrepareHolds(t, disk, service, console, pipe)
  BY <1>4, SettledHolds DEF PrepareHolds
<1>8. L!Alone(c) => Holds(t, disk, service, console, pipe)
  BY <1>6, <1>7 DEF Holds
<1> QED  BY <1>2, <1>4, <1>5, <1>6, <1>8, CallBegins

LEMMA AdoptPreparedKeeps ==
  ASSUME SettingsInv, NEW c \in Callers, L!AdoptPrepared(c)
  PROVE  SettingsInv'
<1> DEFINE t == thread[c]
           pol == t.policy
<1>1. t.pc = "prepared" /\ ~Idle(c) /\ IsVisit(t)
  BY DEF L!AdoptPrepared, L!In, Idle, SettingsInv
<1>2. IsPrepare(t) /\ (t.alone => PrepareHolds(t, disk, service, console, pipe))
      /\ IsConsole(console) /\ IsPipe(pipe)
  BY <1>1 DEF IsVisit, SavingPcs, SettingsInv, Holds
<1>3. UNCHANGED <<disk, service>> /\ IsLeft(t.left) /\ pol \in Policies
  BY <1>2 DEF L!AdoptPrepared, IsPrepare
<1> HIDE DEF pol
<1>4. CASE /\ console' = [console EXCEPT !.policy = pol, !.retrieval = none, !.chat = none]
           /\ pipe' = L!Governed(pol) /\ L!Ends(c, t.left)
  <2>1. /\ IsConsole(console') /\ console'.retrieval = none /\ console'.chat = none
        /\ console'.config = console.config /\ console'.governor = console.governor
        /\ console'.policy = pol
    <3> DEFINE new == [console EXCEPT !.policy = pol, !.retrieval = none, !.chat = none]
    <3>1. /\ IsConsole(new) /\ new.retrieval = none /\ new.chat = none
          /\ new.config = console.config /\ new.governor = console.governor
          /\ new.policy = pol
      BY <1>2, <1>3 DEF IsConsole
    <3>2. console' = new
      BY <1>4
    <3> HIDE DEF new
    <3> QED  BY <3>1, <3>2
  <2>2. /\ IsPipe(pipe') /\ pipe'.policy = pol
        /\ pipe'.config = pipe.config /\ pipe'.governor = pipe.governor
    BY <1>2, <1>3, <1>4, GovernedFollows
  <2>3. ASSUME t.alone PROVE LeftTrue(t.left, disk', service', console', pipe')
    <3>1. PrepareHolds(t, disk, service, console, pipe)
      BY <1>2, <2>3
    <3>2. ASSUME t.left # L!Unsettled
          PROVE  Agree(t.left.config, disk', service', console', pipe')
      BY <1>3, <2>1, <2>2, <3>1, <3>2 DEF PrepareHolds, Agree
    <3>3. Current(console'.retrieval, console'.chat, console')
      BY <2>1 DEF Current
    <3> QED  BY <3>2, <3>3 DEF LeftTrue
  <2> QED  BY <1>1, <1>3, <1>4, <2>1, <2>2, <2>3, CallEnds
<1>5. CASE /\ console' = [console EXCEPT !.policy = pol] /\ UNCHANGED pipe
           /\ L!Ends(c, L!Unsettled)
  <2>1. IsConsole(console') /\ IsPipe(pipe')
    BY <1>2, <1>3, <1>5 DEF IsConsole
  <2> QED  BY <1>1, <1>5, <2>1, EndsUnsettled
<1> QED  BY <1>4, <1>5 DEF L!AdoptPrepared, pol

LEMMA SettingsStart == ASSUME L!Init PROVE SettingsInv
<1>1. PICK ready \in BOOLEAN :
        /\ service = disk
        /\ console = [config |-> disk, governor |-> disk.url, policy |-> L!Policy(disk, ready),
                      applying |-> FALSE, retrieval |-> none, chat |-> none]
        /\ pipe = [config |-> disk, governor |-> disk.url, policy |-> L!Policy(disk, ready),
                   index |-> disk.profile = "auto"]
        /\ thread = [c \in Callers |-> L!Resting]
        /\ settled = [config |-> disk, services |-> TRUE]
  BY DEF L!Init
<1> DEFINE pol == L!Policy(disk, ready)
           index == disk.profile = "auto"
<1>2. pol \in Policies /\ pol.vectors = index /\ index \in BOOLEAN
  BY PolicyIsPolicy DEF L!Policy
<1>3. /\ console = [config |-> disk, governor |-> disk.url, policy |-> pol,
                    applying |-> FALSE, retrieval |-> none, chat |-> none]
      /\ pipe = [config |-> disk, governor |-> disk.url, policy |-> pol, index |-> index]
  BY <1>1
<1> HIDE DEF pol, index
<1>4. IsConsole(console) /\ IsPipe(pipe)
  BY <1>2, <1>3 DEF IsConsole, IsPipe
<1>5. /\ thread = [c \in Callers |-> thread[c]]
      /\ \A c \in Callers : Idle(c) /\ IsVisit(thread[c])
  BY <1>1 DEF Idle, IsVisit, L!Resting
<1>6. IsLeft(settled) /\ settled.config = disk
  BY <1>1 DEF IsLeft
<1>7. LeftTrue(settled, disk, service, console, pipe)
  BY <1>1, <1>3, <1>6 DEF LeftTrue, Agree, Current
<1> QED  BY <1>4, <1>5, <1>6, <1>7 DEF SettingsInv

LEMMA SettingsGoOn == ASSUME SettingsInv, L!Next PROVE SettingsInv'
  BY SaveBegins, MeasureKeeps, WriteKeeps, ApplyKeeps, ConfigureKeeps, SetPolicyKeeps, AdoptKeeps,
     BuildKeeps, RestoreFileKeeps, RestoreConsoleKeeps, RestorePipelineKeeps, AskBegins, KeepKeeps,
     PrepareBegins, AdoptPreparedKeeps DEF L!Next

-----------------------------------------------------------------------------
(* The demo that is installed. *)

Named(s) == {s[i] : i \in DOMAIN s}

Places == [D!Names -> D!Texts \union {none}]

InstallPcs == {"check", "recheck", "write", "undo"}

(* What the thread of an installation remembers: the preflight found every name free
   or holding the bytes of the bundle, and only free names are written. *)
IsInstall(v) ==
  /\ v \in [pc : InstallPcs, todo : Seq(D!Names), plan : [D!Names -> {"create", "identical"}],
            attempted : Seq(D!Names), made : {v.made}, kept : {v.kept}, stamp : {v.stamp},
            alone : BOOLEAN, was : [D!Names -> {"demo", none}]]
  /\ \A n \in D!Names : v.plan[n] = "create" <=> v.was[n] = none
  /\ \A n \in Named(v.attempted) : v.was[n] = none
  /\ v.pc \in {"recheck", "write"} => v.todo # <<>> /\ v.plan[Head(v.todo)] = "create"

(* How far an installation that no other overlapped has come, people apart. *)
Placed(v, at, n) ==
  \/ v.was[n] = "demo" /\ at[n] = "demo"
  \/ v.was[n] = none /\ at[n] = "demo" /\ n \in Named(v.attempted)
  \/ v.was[n] = none /\ at[n] = none /\ n \in Named(v.todo)

Withdrawing(v, at, n) ==
  \/ v.was[n] = "demo" /\ at[n] = "demo"
  \/ v.was[n] = none /\ at[n] = "demo" /\ n \in Named(v.attempted)
  \/ v.was[n] = none /\ at[n] = none

Progress(v, at, changed) ==
  \A n \in D!Names \ changed : IF v.pc = "undo" THEN Withdrawing(v, at, n) ELSE Placed(v, at, n)

IsVisitor(v) ==
  \/ v.pc \in {"out", "dismiss"}
  \/ v.pc \in InstallPcs /\ IsInstall(v)

(* A name that is about to be replaced does not hold what a person wrote. *)
WritesFree(v, at) == v.pc = "write" => at[Head(v.todo)] # "other"

DemoInv ==
  /\ vault \in Places /\ theirs \subseteq D!Names
  /\ D!DemoIsHonest
  /\ visitor = [c \in Callers |-> visitor[c]]
  /\ \A c \in Callers : IsVisitor(visitor[c]) /\ WritesFree(visitor[c], vault)
  /\ \A c \in Callers : D!Installing(c) =>
       /\ told = none
       /\ visitor[c].alone =>
            /\ \A d \in Callers \ {c} : ~D!Installing(d)
            /\ Progress(visitor[c], vault, touched)

-----------------------------------------------------------------------------
(* Sequences of names *)

LEMMA TailNamed ==
  ASSUME NEW S, NEW s \in Seq(S), s # <<>>
  PROVE  /\ Head(s) \in S /\ Tail(s) \in Seq(S)
         /\ \A n : n \in Named(s) => n = Head(s) \/ n \in Named(Tail(s))
<1>1. Head(s) \in S /\ Tail(s) \in Seq(S)
  OBVIOUS
<1>2. ASSUME NEW i \in DOMAIN s, i # 1 PROVE s[i] \in Named(Tail(s))
  <2>1. i \in 1 .. Len(s) /\ i - 1 \in 1 .. Len(s) - 1
    BY <1>2
  <2>2. i - 1 \in DOMAIN Tail(s) /\ Tail(s)[i - 1] = s[i]
    BY <2>1
  <2> QED  BY <2>2 DEF Named
<1>3. s[1] = Head(s)
  OBVIOUS
<1> QED  BY <1>1, <1>2, <1>3 DEF Named

LEMMA AppendNamed ==
  ASSUME NEW S, NEW s \in Seq(S), NEW n \in S
  PROVE  /\ Append(s, n) \in Seq(S)
         /\ \A m : m \in Named(Append(s, n)) <=> m = n \/ m \in Named(s)
<1>1. /\ Append(s, n) \in Seq(S) /\ Len(Append(s, n)) = Len(s) + 1
      /\ DOMAIN Append(s, n) = 1 .. Len(s) + 1 /\ DOMAIN s = 1 .. Len(s) /\ Len(s) \in Nat
      /\ Append(s, n)[Len(s) + 1] = n
      /\ \A i \in 1 .. Len(s) : Append(s, n)[i] = s[i]
  OBVIOUS
<1> QED  BY <1>1 DEF Named

LEMMA FrontNamed ==
  ASSUME NEW S, NEW s \in Seq(S), s # <<>>
  PROVE  /\ s[Len(s)] \in S /\ s[Len(s)] \in Named(s) /\ SubSeq(s, 1, Len(s) - 1) \in Seq(S)
         /\ Named(SubSeq(s, 1, Len(s) - 1)) \subseteq Named(s)
         /\ \A n : n \in Named(s) => n = s[Len(s)] \/ n \in Named(SubSeq(s, 1, Len(s) - 1))
<1> DEFINE r == SubSeq(s, 1, Len(s) - 1)
<1>1. Len(s) \in Nat \ {0} /\ DOMAIN s = 1 .. Len(s) /\ s[Len(s)] \in S
  OBVIOUS
<1>2. r \in Seq(S) /\ Len(r) = Len(s) - 1 /\ DOMAIN r = 1 .. Len(s) - 1
  BY <1>1
<1>3. \A i \in 1 .. Len(s) - 1 : r[i] = s[i]
  BY <1>1
<1> HIDE DEF r
<1>4. \A n : n \in Named(s) => n = s[Len(s)] \/ n \in Named(r)
  <2> SUFFICES ASSUME NEW i \in DOMAIN s, i # Len(s) PROVE s[i] \in Named(r)
    BY DEF Named
  <2>1. i \in DOMAIN r /\ r[i] = s[i]
    BY <1>1, <1>2, <1>3
  <2> QED  BY <2>1 DEF Named
<1>5. Named(r) \subseteq Named(s)
  <2> SUFFICES ASSUME NEW i \in DOMAIN r PROVE r[i] \in Named(s)
    BY DEF Named
  <2>1. i \in DOMAIN s /\ r[i] = s[i]
    BY <1>1, <1>2, <1>3
  <2> QED  BY <2>1 DEF Named
<1>6. s[Len(s)] \in Named(s)
  BY <1>1 DEF Named
<1> QED  BY <1>1, <1>2, <1>4, <1>5, <1>6 DEF r

LEMMA NothingNamed == Named(<<>>) = {}
  BY DEF Named

-----------------------------------------------------------------------------
(* Steps of an installation *)

LEMMA InstallOf ==
  ASSUME DemoInv, NEW c \in Callers, visitor[c].pc \in InstallPcs
  PROVE  /\ D!Installing(c) /\ IsInstall(visitor[c]) /\ WritesFree(visitor[c], vault) /\ told = none
         /\ visitor[c].alone => Progress(visitor[c], vault, touched)
         /\ \A d \in Callers \ {c} : D!Installing(d) => ~visitor[d].alone
<1>1. D!Installing(c) /\ IsVisitor(visitor[c]) /\ WritesFree(visitor[c], vault)
  BY DEF DemoInv, InstallPcs, D!Installing, D!At
<1>2. IsInstall(visitor[c])
  BY <1>1 DEF IsVisitor, InstallPcs
<1> QED  BY <1>1, <1>2 DEF DemoInv

(* An installation that goes on with v: the vault changes only where no person wrote. *)
LEMMA InstallContinues ==
  ASSUME DemoInv, NEW c \in Callers, visitor[c].pc \in InstallPcs, NEW v, D!Visits(c, v),
         v.pc \in InstallPcs, IsInstall(v), v.alone => visitor[c].alone,
         UNCHANGED <<touched, theirs, told>>,
         vault' \in Places,
         \A n \in D!Names : vault'[n] = "other" <=> vault[n] = "other",
         WritesFree(v, vault'),
         v.alone => Progress(v, vault', touched)
  PROVE  DemoInv'
<1>1. visitor' = [d \in Callers |-> IF d = c THEN v ELSE visitor[d]]
  BY DEF D!Visits, DemoInv
<1>2. told = none /\ D!Installing(c) /\ \A d \in Callers \ {c} : D!Installing(d) => ~visitor[d].alone
  BY InstallOf
<1>3. visitor' = [d \in Callers |-> visitor'[d]]
  BY <1>1
<1>4. D!TheirsStay' /\ D!ToldIsTrue'
  BY <1>2 DEF D!TheirsStay, D!ToldIsTrue, D!DemoIsHonest, DemoInv
<1>5. ASSUME NEW d \in Callers PROVE IsVisitor(visitor'[d]) /\ WritesFree(visitor'[d], vault')
  <2>1. CASE d = c
    BY <1>1, <2>1 DEF IsVisitor
  <2>2. CASE d # c
    <3>1. visitor'[d] = visitor[d] /\ IsVisitor(visitor[d]) /\ WritesFree(visitor[d], vault)
      BY <1>1, <2>2 DEF DemoInv
    <3>2. visitor[d].pc = "write" => Head(visitor[d].todo) \in D!Names
      BY <3>1, TailNamed DEF IsVisitor, IsInstall
    <3> QED  BY <3>1, <3>2 DEF WritesFree
  <2> QED  BY <2>1, <2>2
<1>6. ASSUME NEW d \in Callers, D!Installing(d)', visitor'[d].alone
      PROVE  /\ \A e \in Callers \ {d} : ~D!Installing(e)'
             /\ Progress(visitor'[d], vault', touched')
  <2>1. CASE d = c
    BY <1>1, <1>2, <1>6, <2>1 DEF DemoInv, D!Installing, D!At
  <2>2. CASE d # c
    BY <1>1, <1>2, <1>6, <2>2 DEF D!Installing, D!At
  <2> QED  BY <2>1, <2>2
<1> QED  BY <1>2, <1>3, <1>4, <1>5, <1>6 DEF DemoInv, D!DemoIsHonest

(* An installation that is over, with what it told. *)
LEMMA InstallEnds ==
  ASSUME DemoInv, NEW c \in Callers, visitor[c].pc \in InstallPcs, NEW status, D!Leaves(c, status),
         UNCHANGED <<vault, touched, theirs>>,
         visitor[c].alone =>
           \A n \in D!Names \ touched :
             IF status = "demo_installed" THEN vault[n] = "demo" ELSE vault[n] = visitor[c].was[n]
  PROVE  DemoInv'
<1>1. visitor' = [d \in Callers |-> IF d = c THEN D!Out ELSE visitor[d]]
  BY DEF D!Visits, D!Leaves, DemoInv
<1>2. told = none /\ D!Installing(c) /\ \A d \in Callers \ {c} : D!Installing(d) => ~visitor[d].alone
  BY InstallOf
<1>3. visitor' = [d \in Callers |-> visitor'[d]]
  BY <1>1
<1>4. D!TheirsStay'
  BY DEF D!TheirsStay, D!DemoIsHonest, DemoInv
<1>5. D!ToldIsTrue'
  <2>1. CASE visitor[c].alone
    <3>1. told' = [status |-> status, was |-> visitor[c].was]
      BY <2>1 DEF D!Leaves
    <3>2. told'.status = status /\ told'.was = visitor[c].was
      BY <3>1
    <3> QED  BY <2>1, <3>2 DEF D!ToldIsTrue
  <2>2. CASE ~visitor[c].alone
    BY <2>2 DEF D!Leaves, D!ToldIsTrue
  <2> QED  BY <2>1, <2>2
<1>6. \A d \in Callers : IsVisitor(visitor'[d]) /\ WritesFree(visitor'[d], vault')
  BY <1>1 DEF DemoInv, IsVisitor, WritesFree, D!Out
<1>7. ASSUME NEW d \in Callers, D!Installing(d)'
      PROVE  told' = none /\ ~visitor'[d].alone
  <2>1. d # c /\ visitor'[d] = visitor[d] /\ D!Installing(d)
    BY <1>1, <1>7 DEF D!Installing, D!At, D!Out
  <2>2. ~visitor[d].alone /\ ~visitor[c].alone
    BY <1>2, <2>1 DEF DemoInv
  <2> QED  BY <2>1, <2>2 DEF D!Leaves
<1>8. vault' \in Places /\ theirs' \subseteq D!Names
  BY DEF DemoInv
<1> QED  BY <1>3, <1>4, <1>5, <1>6, <1>7, <1>8 DEF DemoInv, D!DemoIsHonest

(* It turns to the roll-back. *)
LEMMA UndoBegins ==
  ASSUME NEW v, IsInstall(v), v.pc # "undo", NEW u, u = [v EXCEPT !.pc = "undo", !.todo = <<>>]
  PROVE  /\ u.pc = "undo" /\ IsInstall(u) /\ u.alone = v.alone
         /\ \A at, changed : Progress(v, at, changed) => Progress(u, at, changed)
<1>1. /\ u.pc = "undo" /\ u.todo = <<>> /\ u.alone = v.alone /\ u.was = v.was
      /\ u.plan = v.plan /\ u.attempted = v.attempted /\ u.made = v.made
      /\ u.kept = v.kept /\ u.stamp = v.stamp
  BY DEF IsInstall
<1>2. IsInstall(u)
  <2>1. u \in [pc : InstallPcs, todo : Seq(D!Names), plan : [D!Names -> {"create", "identical"}],
               attempted : Seq(D!Names), made : {v.made}, kept : {v.kept}, stamp : {v.stamp},
               alone : BOOLEAN, was : [D!Names -> {"demo", none}]]
    <3> DEFINE empty == <<>>
               pc == "undo"
    <3>1. empty \in Seq(D!Names) /\ pc \in InstallPcs
      BY DEF InstallPcs
    <3>2. u = [v EXCEPT !.pc = pc, !.todo = empty]
      OBVIOUS
    <3> HIDE DEF empty, pc
    <3> QED  BY <3>1, <3>2 DEF IsInstall
  <2> QED  BY <1>1, <2>1 DEF IsInstall
<1>3. ASSUME NEW at, NEW changed, Progress(v, at, changed) PROVE Progress(u, at, changed)
  BY <1>1, <1>3 DEF Progress, Placed, Withdrawing
<1> QED  BY <1>1, <1>2, <1>3

LEMMA UndoKeeps ==
  ASSUME DemoInv, NEW c \in Callers, visitor[c].pc \in InstallPcs, visitor[c].pc # "undo",
         D!ToUndo(c), UNCHANGED <<vault, touched, theirs, told>>
  PROVE  DemoInv'
<1> DEFINE v == visitor[c]
           u == [v EXCEPT !.pc = "undo", !.todo = <<>>]
<1>1. D!Visits(c, u)
  BY DEF D!ToUndo
<1>2. IsInstall(v) /\ (v.alone => Progress(v, vault, touched))
  BY InstallOf
<1> HIDE DEF u
<1>3. /\ u.pc = "undo" /\ IsInstall(u) /\ u.alone = v.alone
      /\ Progress(v, vault, touched) => Progress(u, vault, touched)
  BY <1>2, UndoBegins DEF u
<1>4. WritesFree(u, vault') /\ u.pc \in InstallPcs
  BY <1>3 DEF WritesFree, InstallPcs
<1>5. vault' \in Places
  BY DEF DemoInv
<1> QED  BY <1>1, <1>2, <1>3, <1>4, <1>5, InstallContinues

Turn(v, pc, todo, made) == [v EXCEPT !.pc = pc, !.todo = todo, !.made = made]

LEMMA Turned ==
  ASSUME NEW v, IsInstall(v), NEW pc \in InstallPcs, NEW todo \in Seq(D!Names), NEW made,
         NEW u, u = Turn(v, pc, todo, made),
         pc \in {"recheck", "write"} => todo # <<>> /\ v.plan[Head(todo)] = "create"
  PROVE  /\ IsInstall(u) /\ u.pc = pc /\ u.todo = todo /\ u.alone = v.alone /\ u.was = v.was
         /\ u.attempted = v.attempted
<1>1. /\ u.pc = pc /\ u.todo = todo /\ u.alone = v.alone /\ u.was = v.was
      /\ u.plan = v.plan /\ u.attempted = v.attempted /\ u.made = made
      /\ u.kept = v.kept /\ u.stamp = v.stamp
  BY DEF IsInstall, Turn
<1>2. u \in [pc : InstallPcs, todo : Seq(D!Names), plan : [D!Names -> {"create", "identical"}],
             attempted : Seq(D!Names), made : {made}, kept : {v.kept}, stamp : {v.stamp},
             alone : BOOLEAN, was : [D!Names -> {"demo", none}]]
  BY DEF IsInstall, Turn
<1> QED  BY <1>1, <1>2 DEF IsInstall

LEMMA CheckKeeps ==
  ASSUME DemoInv, NEW c \in Callers, D!Check(c)
  PROVE  DemoInv'
<1> DEFINE v == visitor[c]
           n == Head(v.todo)
<1>1. /\ v.pc = "check" /\ v.pc \in InstallPcs /\ v.todo # <<>>
      /\ UNCHANGED <<vault, marker, touched, theirs, told>>
  BY DEF D!Check, D!At, InstallPcs
<1>2. IsInstall(v) /\ (v.alone => Progress(v, vault, touched))
  BY <1>1, InstallOf
<1>3. /\ n \in D!Names /\ Tail(v.todo) \in Seq(D!Names) /\ v.todo \in Seq(D!Names)
      /\ \A m : m \in Named(v.todo) => m = n \/ m \in Named(Tail(v.todo))
  BY <1>1, <1>2, TailNamed DEF IsInstall
<1>4. vault' \in Places
  BY <1>1 DEF DemoInv
<1>5. CASE v.plan[n] = "identical" /\ D!Visits(c, [v EXCEPT !.todo = Tail(@)])
  <2> DEFINE u == [v EXCEPT !.pc = "check", !.todo = Tail(v.todo), !.made = v.made]
  <2>1. D!Visits(c, u)
    <3>1. u = [v EXCEPT !.todo = Tail(v.todo)]
      BY <1>1, <1>2 DEF IsInstall
    <3> QED  BY <1>5, <3>1
  <2> HIDE DEF u
  <2>2. /\ IsInstall(u) /\ u.pc = "check" /\ u.todo = Tail(v.todo) /\ u.alone = v.alone
        /\ u.was = v.was /\ u.attempted = v.attempted
    <3>1. u = Turn(v, "check", Tail(v.todo), v.made)
      BY DEF u, Turn
    <3>2. Tail(v.todo) \in Seq(D!Names)
      BY <1>3
    <3> DEFINE rest == Tail(v.todo)
    <3> HIDE DEF rest
    <3>3. rest \in Seq(D!Names) /\ u = Turn(v, "check", rest, v.made) /\ "check" \in InstallPcs
      BY <3>1, <3>2 DEF rest, InstallPcs
    <3>4. /\ IsInstall(u) /\ u.pc = "check" /\ u.todo = rest /\ u.alone = v.alone
          /\ u.was = v.was /\ u.attempted = v.attempted
      BY <1>2, <3>3, Turned
    <3> QED  BY <3>4 DEF rest
  <2>3. v.was[n] # none
    BY <1>2, <1>3, <1>5 DEF IsInstall
  <2>4. ASSUME Progress(v, vault, touched) PROVE Progress(u, vault', touched)
    BY <1>1, <1>3, <2>2, <2>3, <2>4 DEF Progress, Placed
  <2>5. WritesFree(u, vault')
    BY <2>2 DEF WritesFree
  <2> QED  BY <1>1, <1>2, <1>4, <2>1, <2>2, <2>4, <2>5, InstallContinues
<1>6. CASE D!ToUndo(c)
  BY <1>1, <1>6, UndoKeeps
<1>7. CASE v.plan[n] = "create"
           /\ D!Visits(c, [v EXCEPT !.pc = "recheck", !.made = @ \/ ~folder])
  <2> DEFINE made == v.made \/ ~folder
             u == [v EXCEPT !.pc = "recheck", !.todo = v.todo, !.made = made]
  <2>1. D!Visits(c, u)
    <3>1. u = [v EXCEPT !.pc = "recheck", !.made = made]
      BY <1>2 DEF IsInstall
    <3> QED  BY <1>7, <3>1
  <2> HIDE DEF made, u
  <2>2. /\ IsInstall(u) /\ u.pc = "recheck" /\ u.todo = v.todo /\ u.alone = v.alone
        /\ u.was = v.was /\ u.attempted = v.attempted
    <3>1. u = Turn(v, "recheck", v.todo, made)
      BY DEF u, Turn
    <3> QED  BY <1>1, <1>2, <1>3, <1>7, <3>1, Turned DEF InstallPcs
  <2>3. ASSUME Progress(v, vault, touched) PROVE Progress(u, vault', touched)
    BY <1>1, <2>2, <2>3 DEF Progress, Placed
  <2>4. WritesFree(u, vault') /\ u.pc \in InstallPcs
    BY <2>2 DEF WritesFree, InstallPcs
  <2> QED  BY <1>1, <1>2, <1>4, <2>1, <2>2, <2>3, <2>4, InstallContinues
<1> QED  BY <1>5, <1>6, <1>7 DEF D!Check

LEMMA RecheckKeeps ==
  ASSUME DemoInv, NEW c \in Callers, D!Recheck(c)
  PROVE  DemoInv'
<1> DEFINE v == visitor[c]
           n == Head(v.todo)
<1>1. /\ v.pc = "recheck" /\ v.pc \in InstallPcs
      /\ UNCHANGED <<vault, marker, touched, theirs, told>>
  BY DEF D!Recheck, D!At, InstallPcs
<1>2. IsInstall(v) /\ (v.alone => Progress(v, vault, touched))
  BY <1>1, InstallOf
<1>3. vault' \in Places
  BY <1>1 DEF DemoInv
<1>4. CASE vault[n] # none
  <2>1. D!ToUndo(c)
    BY <1>4 DEF D!Recheck
  <2> QED  BY <1>1, <2>1, UndoKeeps
<1>5. CASE vault[n] = none
  <2> DEFINE u == [v EXCEPT !.pc = "write", !.todo = v.todo, !.made = v.made]
  <2>1. D!Visits(c, u)
    <3>1. u = [v EXCEPT !.pc = "write"]
      BY <1>2 DEF IsInstall
    <3> QED  BY <1>5, <3>1 DEF D!Recheck, D!Turns
  <2>2. v.todo \in Seq(D!Names) /\ v.todo # <<>> /\ v.plan[Head(v.todo)] = "create"
    BY <1>1, <1>2 DEF IsInstall
  <2> HIDE DEF u
  <2>3. /\ IsInstall(u) /\ u.pc = "write" /\ u.todo = v.todo /\ u.alone = v.alone
        /\ u.was = v.was /\ u.attempted = v.attempted
    <3>1. u = Turn(v, "write", v.todo, v.made)
      BY DEF u, Turn
    <3> QED  BY <1>1, <1>2, <2>2, <3>1, Turned DEF InstallPcs
  <2>4. ASSUME Progress(v, vault, touched) PROVE Progress(u, vault', touched)
    BY <1>1, <2>3, <2>4 DEF Progress, Placed
  <2>5. WritesFree(u, vault') /\ u.pc \in InstallPcs
    BY <1>1, <1>5, <2>3, DemoAssumption DEF WritesFree, InstallPcs
  <2> QED  BY <1>1, <1>2, <1>3, <2>1, <2>3, <2>4, <2>5, InstallContinues
<1> QED  BY <1>4, <1>5

(* The attempt to write name n. *)
Tried(v, n, pc, todo) == [v EXCEPT !.attempted = Append(@, n), !.pc = pc, !.todo = todo]

LEMMA TriedIsInstall ==
  ASSUME NEW v, IsInstall(v), NEW n \in D!Names, v.was[n] = none, NEW pc \in InstallPcs,
         pc # "recheck", pc # "write", NEW todo \in Seq(D!Names)
  PROVE  LET u == Tried(v, n, pc, todo) IN
         /\ IsInstall(u) /\ u.pc = pc /\ u.todo = todo /\ u.alone = v.alone /\ u.was = v.was
         /\ \A m : m \in Named(u.attempted) <=> m = n \/ m \in Named(v.attempted)
<1> DEFINE u == Tried(v, n, pc, todo)
           attempted == Append(v.attempted, n)
<1>1. v.attempted \in Seq(D!Names)
  BY DEF IsInstall
<1>2. /\ attempted \in Seq(D!Names)
      /\ \A m : m \in Named(attempted) <=> m = n \/ m \in Named(v.attempted)
  BY <1>1, AppendNamed
<1>3. u = [v EXCEPT !.attempted = attempted, !.pc = pc, !.todo = todo]
  BY DEF Tried
<1> HIDE DEF attempted, u
<1>4. pc \in InstallPcs
  OBVIOUS
<1>5. /\ u.pc = pc /\ u.todo = todo /\ u.alone = v.alone /\ u.was = v.was
      /\ u.plan = v.plan /\ u.attempted = attempted /\ u.made = v.made
      /\ u.kept = v.kept /\ u.stamp = v.stamp
  BY <1>3 DEF IsInstall
<1>6. u \in [pc : InstallPcs, todo : Seq(D!Names), plan : [D!Names -> {"create", "identical"}],
             attempted : Seq(D!Names), made : {v.made}, kept : {v.kept}, stamp : {v.stamp},
             alone : BOOLEAN, was : [D!Names -> {"demo", none}]]
  BY <1>2, <1>3, <1>4 DEF IsInstall
<1>7. IsInstall(u)
  BY <1>2, <1>5, <1>6 DEF IsInstall
<1> QED  BY <1>2, <1>5, <1>7 DEF u

LEMMA WriteNoteKeeps ==
  ASSUME DemoInv, NEW c \in Callers, D!Write(c)
  PROVE  DemoInv'
<1> DEFINE v == visitor[c]
           n == Head(v.todo)
<1>1. /\ v.pc = "write" /\ v.pc \in InstallPcs
      /\ UNCHANGED <<marker, touched, theirs, told>>
  BY DEF D!Write, D!At, InstallPcs
<1>2. IsInstall(v) /\ (v.alone => Progress(v, vault, touched)) /\ WritesFree(v, vault)
  BY <1>1, InstallOf
<1>3. v.todo \in Seq(D!Names) /\ v.todo # <<>> /\ v.plan[n] = "create"
  BY <1>1, <1>2 DEF IsInstall
<1>4. /\ n \in D!Names /\ Tail(v.todo) \in Seq(D!Names)
      /\ \A m : m \in Named(v.todo) => m = n \/ m \in Named(Tail(v.todo))
  BY <1>3, TailNamed
<1>5. v.was[n] = none /\ vault[n] # "other" /\ vault \in Places
  BY <1>1, <1>2, <1>3, <1>4 DEF IsInstall, WritesFree, DemoInv
<1>6. CASE /\ vault' = [vault EXCEPT ![n] = "demo"]
           /\ D!Visits(c, [[v EXCEPT !.attempted = Append(@, n)] EXCEPT !.pc = "check", !.todo = Tail(@)])
  <2> DEFINE u == Tried(v, n, "check", Tail(v.todo))
  <2>1. D!Visits(c, u)
    <3>1. u = [[v EXCEPT !.attempted = Append(@, n)] EXCEPT !.pc = "check", !.todo = Tail(@)]
      BY <1>2 DEF IsInstall, Tried
    <3> QED  BY <1>6, <3>1
  <2> HIDE DEF u
  <2>2. /\ IsInstall(u) /\ u.pc = "check" /\ u.todo = Tail(v.todo) /\ u.alone = v.alone /\ u.was = v.was
        /\ \A m : m \in Named(u.attempted) <=> m = n \/ m \in Named(v.attempted)
    <3> DEFINE rest == Tail(v.todo)
    <3> HIDE DEF n, v, rest
    <3>1. rest \in Seq(D!Names) /\ u = Tried(v, n, "check", rest)
      BY <1>4 DEF u, rest
    <3>2. /\ IsInstall(u) /\ u.pc = "check" /\ u.todo = rest /\ u.alone = v.alone /\ u.was = v.was
          /\ \A m : m \in Named(u.attempted) <=> m = n \/ m \in Named(v.attempted)
      <4>1. IsInstall(v) /\ n \in D!Names /\ v.was[n] = none /\ "check" \in InstallPcs
        BY <1>2, <1>4, <1>5 DEF InstallPcs
      <4> QED  BY <3>1, <4>1, TriedIsInstall
    <3> QED  BY <3>2 DEF rest
  <2>3. /\ vault' \in Places /\ vault'[n] = "demo"
        /\ \A m \in D!Names \ {n} : vault'[m] = vault[m]
    BY <1>4, <1>5, <1>6 DEF Places, D!Texts
  <2>4. \A m \in D!Names : vault'[m] = "other" <=> vault[m] = "other"
    BY <1>5, <2>3
  <2>5. ASSUME Progress(v, vault, touched) PROVE Progress(u, vault', touched)
    <3>1. ASSUME NEW m \in D!Names \ touched PROVE Placed(u, vault', m)
      <4>1. Placed(v, vault, m)
        BY <1>1, <2>5, <3>1 DEF Progress
      <4>2. CASE m = n
        BY <1>5, <2>2, <2>3, <4>2 DEF Placed
      <4>3. CASE m # n
        BY <1>4, <2>2, <2>3, <4>1, <4>3 DEF Placed
      <4> QED  BY <4>2, <4>3
    <3> QED  BY <2>2, <3>1 DEF Progress
  <2>6. WritesFree(u, vault') /\ u.pc \in InstallPcs
    BY <2>2 DEF WritesFree, InstallPcs
  <2> QED  BY <1>1, <1>2, <2>1, <2>2, <2>3, <2>4, <2>5, <2>6, InstallContinues
<1>7. CASE /\ D!Visits(c, [[v EXCEPT !.attempted = Append(@, n)] EXCEPT !.pc = "undo", !.todo = <<>>])
           /\ UNCHANGED vault
  <2> DEFINE u == Tried(v, n, "undo", <<>>)
  <2>1. D!Visits(c, u)
    <3>1. u = [[v EXCEPT !.attempted = Append(@, n)] EXCEPT !.pc = "undo", !.todo = <<>>]
      BY <1>2 DEF IsInstall, Tried
    <3> QED  BY <1>7, <3>1
  <2> HIDE DEF u
  <2>2. /\ IsInstall(u) /\ u.pc = "undo" /\ u.alone = v.alone /\ u.was = v.was
        /\ \A m : m \in Named(u.attempted) <=> m = n \/ m \in Named(v.attempted)
    <3> DEFINE rest == <<>>
    <3>1. rest \in Seq(D!Names)
      OBVIOUS
    <3> HIDE DEF n, v, rest
    <3>2. u = Tried(v, n, "undo", rest)
      BY DEF u, rest
    <3>3. IsInstall(v) /\ n \in D!Names /\ v.was[n] = none /\ "undo" \in InstallPcs
      BY <1>2, <1>4, <1>5 DEF InstallPcs
    <3> QED  BY <3>1, <3>2, <3>3, TriedIsInstall
  <2>3. ASSUME Progress(v, vault, touched) PROVE Progress(u, vault', touched)
    BY <1>1, <1>7, <2>2, <2>3 DEF Progress, Placed, Withdrawing
  <2>4. WritesFree(u, vault') /\ u.pc \in InstallPcs
    BY <2>2 DEF WritesFree, InstallPcs
  <2> QED  BY <1>1, <1>2, <1>5, <1>7, <2>1, <2>2, <2>3, <2>4, InstallContinues
<1> QED  BY <1>6, <1>7 DEF D!Write

LEMMA MarkerKeeps ==
  ASSUME DemoInv, NEW c \in Callers, D!WriteMarker(c)
  PROVE  DemoInv'
<1> DEFINE v == visitor[c]
<1>1. /\ v.pc = "check" /\ v.pc \in InstallPcs /\ v.todo = <<>>
      /\ UNCHANGED <<vault, touched, theirs>>
  BY DEF D!WriteMarker, D!At, InstallPcs
<1>2. v.alone => Progress(v, vault, touched)
  BY <1>1, InstallOf
<1>3. CASE D!Leaves(c, "demo_installed")
  <2>1. v.alone => \A n \in D!Names \ touched : vault[n] = "demo"
    BY <1>1, <1>2, NothingNamed DEF Progress, Placed
  <2> QED  BY <1>1, <1>3, <2>1, InstallEnds
<1>4. CASE D!ToUndo(c) /\ UNCHANGED told
  BY <1>1, <1>4, UndoKeeps
<1> QED  BY <1>3, <1>4 DEF D!WriteMarker

LEMMA RestoreKeeps ==
  ASSUME DemoInv, NEW c \in Callers, D!Restore(c)
  PROVE  DemoInv'
<1> DEFINE v == visitor[c]
<1>1. /\ v.pc = "undo" /\ v.pc \in InstallPcs /\ v.attempted = <<>>
      /\ UNCHANGED <<vault, touched, theirs>> /\ D!Leaves(c, "blocked")
  BY DEF D!Restore, D!At, InstallPcs
<1>2. v.alone => Progress(v, vault, touched)
  BY <1>1, InstallOf
<1>3. v.alone => \A n \in D!Names \ touched : vault[n] = v.was[n]
  BY <1>1, <1>2, NothingNamed DEF Progress, Withdrawing
<1> QED  BY <1>1, <1>3, InstallEnds

(* The roll-back of the last name that was tried. *)
Rest(v, alone) == [v EXCEPT !.attempted = SubSeq(@, 1, Len(@) - 1), !.alone = alone]

LEMMA RestIsInstall ==
  ASSUME NEW v, IsInstall(v), v.pc = "undo", v.attempted # <<>>, NEW alone \in BOOLEAN
  PROVE  LET u == Rest(v, alone) IN
         /\ IsInstall(u) /\ u.pc = "undo" /\ u.alone = alone /\ u.was = v.was
         /\ \A m : m \in Named(v.attempted) =>
              m = v.attempted[Len(v.attempted)] \/ m \in Named(u.attempted)
         /\ v.attempted[Len(v.attempted)] \in D!Names
         /\ v.was[v.attempted[Len(v.attempted)]] = none
<1> DEFINE u == Rest(v, alone)
           s == v.attempted
           r == SubSeq(s, 1, Len(s) - 1)
           last == s[Len(s)]
<1>1. s \in Seq(D!Names)
  BY DEF IsInstall
<1>2. /\ last \in D!Names /\ last \in Named(s) /\ r \in Seq(D!Names) /\ Named(r) \subseteq Named(s)
      /\ \A m : m \in Named(s) => m = last \/ m \in Named(r)
  BY <1>1, FrontNamed
<1>3. u = [v EXCEPT !.attempted = r, !.alone = alone]
  BY DEF Rest
<1>4. v.was[last] = none
  BY <1>2 DEF IsInstall
<1> HIDE DEF u, r, last
<1>5. /\ u.pc = v.pc /\ u.todo = v.todo /\ u.alone = alone /\ u.was = v.was
      /\ u.plan = v.plan /\ u.attempted = r /\ u.made = v.made
      /\ u.kept = v.kept /\ u.stamp = v.stamp
  BY <1>3 DEF IsInstall
<1>6. u \in [pc : InstallPcs, todo : Seq(D!Names), plan : [D!Names -> {"create", "identical"}],
             attempted : Seq(D!Names), made : {v.made}, kept : {v.kept}, stamp : {v.stamp},
             alone : BOOLEAN, was : [D!Names -> {"demo", none}]]
  BY <1>2, <1>3 DEF IsInstall
<1>7. IsInstall(u)
  BY <1>2, <1>5, <1>6 DEF IsInstall
<1> QED  BY <1>2, <1>4, <1>5, <1>7 DEF u, last

LEMMA WithdrawKeeps ==
  ASSUME DemoInv, NEW c \in Callers, D!Withdraw(c)
  PROVE  DemoInv'
<1> DEFINE v == visitor[c]
           n == v.attempted[Len(v.attempted)]
<1>1. /\ v.pc = "undo" /\ v.pc \in InstallPcs /\ v.attempted # <<>>
      /\ UNCHANGED <<touched, theirs, told>>
  BY DEF D!Withdraw, D!At, InstallPcs
<1>2. IsInstall(v) /\ (v.alone => Progress(v, vault, touched)) /\ vault \in Places
  BY <1>1, InstallOf DEF DemoInv
<1>3. CASE /\ vault' = [vault EXCEPT ![n] = IF @ = "demo" THEN none ELSE @]
           /\ D!Visits(c, [v EXCEPT !.attempted = SubSeq(@, 1, Len(@) - 1)])
  <2> DEFINE u == Rest(v, v.alone)
  <2>1. D!Visits(c, u)
    <3>1. u = [v EXCEPT !.attempted = SubSeq(@, 1, Len(@) - 1)]
      BY <1>2 DEF IsInstall, Rest
    <3> QED  BY <1>3, <3>1
  <2>2. v.alone \in BOOLEAN
    BY <1>2 DEF IsInstall
  <2>3. /\ IsInstall(u) /\ u.pc = "undo" /\ u.alone = v.alone /\ u.was = v.was
        /\ \A m : m \in Named(v.attempted) => m = n \/ m \in Named(u.attempted)
        /\ n \in D!Names /\ v.was[n] = none
    <3> HIDE DEF v
    <3> QED  BY <1>1, <1>2, <2>2, RestIsInstall
  <2> HIDE DEF u, n
  <2>4. /\ vault' \in Places
        /\ vault'[n] = IF vault[n] = "demo" THEN none ELSE vault[n]
        /\ \A m \in D!Names \ {n} : vault'[m] = vault[m]
    BY <1>2, <1>3, <2>3 DEF Places, D!Texts
  <2>5. \A m \in D!Names : vault'[m] = "other" <=> vault[m] = "other"
    BY <2>3, <2>4, DemoAssumption
  <2>6. ASSUME Progress(v, vault, touched) PROVE Progress(u, vault', touched)
    <3>1. ASSUME NEW m \in D!Names \ touched PROVE Withdrawing(u, vault', m)
      <4>1. Withdrawing(v, vault, m)
        BY <1>1, <2>6, <3>1 DEF Progress
      <4>2. CASE m = n
        BY <2>3, <2>4, <4>1, <4>2, DemoAssumption DEF Withdrawing
      <4>3. CASE m # n
        BY <2>3, <2>4, <4>1, <4>3 DEF Withdrawing
      <4> QED  BY <4>2, <4>3
    <3> QED  BY <2>3, <3>1 DEF Progress
  <2>7. WritesFree(u, vault') /\ u.pc \in InstallPcs
    BY <2>3 DEF WritesFree, InstallPcs
  <2> QED  BY <1>1, <1>2, <2>1, <2>3, <2>4, <2>5, <2>6, <2>7, InstallContinues
<1>4. CASE /\ UNCHANGED vault
           /\ D!Visits(c, [[v EXCEPT !.attempted = SubSeq(@, 1, Len(@) - 1)] EXCEPT !.alone = FALSE])
  <2> DEFINE u == Rest(v, FALSE)
  <2>1. D!Visits(c, u)
    <3>1. u = [[v EXCEPT !.attempted = SubSeq(@, 1, Len(@) - 1)] EXCEPT !.alone = FALSE]
      BY <1>2 DEF IsInstall, Rest
    <3> QED  BY <1>4, <3>1
  <2>2. /\ IsInstall(u) /\ u.pc = "undo" /\ u.alone = FALSE
    <3> HIDE DEF v
    <3> QED  BY <1>1, <1>2, RestIsInstall
  <2> HIDE DEF u, n
  <2>3. WritesFree(u, vault') /\ u.pc \in InstallPcs
    BY <2>2 DEF WritesFree, InstallPcs
  <2> QED  BY <1>1, <1>2, <1>4, <2>1, <2>2, <2>3, InstallContinues
<1> QED  BY <1>3, <1>4 DEF D!Withdraw, D!Withdrawn

-----------------------------------------------------------------------------
(* The other steps *)

(* Threads that install nothing come and go. *)
LEMMA OthersKeep ==
  ASSUME DemoInv, NEW c \in Callers, ~D!Installing(c), NEW v, D!Visits(c, v),
         v.pc \in {"out", "dismiss"}, UNCHANGED <<vault, touched, theirs, told>>
  PROVE  DemoInv'
<1>1. visitor' = [d \in Callers |-> IF d = c THEN v ELSE visitor[d]]
  BY DEF D!Visits, DemoInv
<1>2. visitor' = [d \in Callers |-> visitor'[d]]
  BY <1>1
<1>3. D!TheirsStay' /\ D!ToldIsTrue'
  BY DEF D!TheirsStay, D!ToldIsTrue, D!DemoIsHonest, DemoInv
<1>4. \A d \in Callers : IsVisitor(visitor'[d]) /\ WritesFree(visitor'[d], vault')
  BY <1>1 DEF DemoInv, IsVisitor, WritesFree
<1>5. \A d \in Callers : D!Installing(d)' => d # c /\ D!Installing(d) /\ visitor'[d] = visitor[d]
  BY <1>1 DEF D!Installing, D!At
<1> QED  BY <1>2, <1>3, <1>4, <1>5 DEF DemoInv, D!DemoIsHonest

LEMMA DismissKeeps ==
  ASSUME DemoInv, NEW c \in Callers, D!BeginDismiss(c) \/ D!Dismiss(c)
  PROVE  DemoInv'
<1>1. ~D!Installing(c) /\ UNCHANGED <<vault, touched, theirs, told>>
  BY DEF D!BeginDismiss, D!Dismiss, D!Installing, D!At
<1>2. \E v : D!Visits(c, v) /\ v.pc \in {"out", "dismiss"}
  BY DEF D!BeginDismiss, D!Dismiss, D!Out
<1> QED  BY <1>1, <1>2, OthersKeep

LEMMA CrashKeeps == ASSUME DemoInv, D!Crash PROVE DemoInv'
<1>1. /\ visitor' = [c \in Callers |-> D!Out]
      /\ UNCHANGED <<vault, touched, theirs, told>>
  BY DEF D!Crash
<1>2. \A c \in Callers : visitor'[c].pc = "out"
  BY <1>1 DEF D!Out
<1>3. visitor' = [c \in Callers |-> visitor'[c]]
  BY <1>1
<1>4. D!TheirsStay' /\ D!ToldIsTrue'
  BY <1>1 DEF D!TheirsStay, D!ToldIsTrue, D!DemoIsHonest, DemoInv
<1> QED  BY <1>1, <1>2, <1>3, <1>4
         DEF DemoInv, IsVisitor, WritesFree, D!Installing, D!At, D!DemoIsHonest

LEMMA PeopleKeep == ASSUME DemoInv, D!People PROVE DemoInv'
<1>1. PICK n \in D!Names, text \in {"other", none} :
        /\ \A c \in Callers : D!At(c, "write") => Head(visitor[c].todo) # n
        /\ vault' = [vault EXCEPT ![n] = text]
        /\ theirs' = IF text = none THEN theirs \ {n} ELSE theirs \union {n}
        /\ touched' = touched \union {n}
        /\ UNCHANGED <<visitor, told>>
  BY DEF D!People
<1>2. /\ vault' \in Places /\ vault'[n] = text
      /\ \A m \in D!Names \ {n} : vault'[m] = vault[m]
  BY <1>1 DEF DemoInv, Places, D!Texts
<1>3. theirs' \subseteq D!Names /\ D!TheirsStay'
  BY <1>1, <1>2, DemoAssumption DEF DemoInv, D!TheirsStay, D!DemoIsHonest
<1>4. D!ToldIsTrue'
  BY <1>1, <1>2 DEF DemoInv, D!ToldIsTrue, D!DemoIsHonest
<1>5. ASSUME NEW c \in Callers PROVE WritesFree(visitor[c], vault')
  <2>1. IsVisitor(visitor[c]) /\ WritesFree(visitor[c], vault)
    BY DEF DemoInv
  <2>2. visitor[c].pc = "write" => Head(visitor[c].todo) \in D!Names \ {n}
    BY <1>1, <2>1, TailNamed DEF IsVisitor, IsInstall, D!At
  <2> QED  BY <1>2, <2>1, <2>2 DEF WritesFree
<1>6. ASSUME NEW c \in Callers, Progress(visitor[c], vault, touched)
      PROVE  Progress(visitor[c], vault', touched')
  BY <1>1, <1>2, <1>6 DEF Progress, Placed, Withdrawing
<1> QED  BY <1>1, <1>2, <1>3, <1>4, <1>5, <1>6 DEF DemoInv, D!DemoIsHonest, D!Installing, D!At

LEMMA BeginKeeps ==
  ASSUME DemoInv, NEW c \in Callers, D!Begin(c)
  PROVE  DemoInv'
<1> DEFINE others == {d \in Callers : D!Installing(d)}
           plan == D!Classified
           stamp == D!Marked("demo_installed")
           v == [pc |-> "check", todo |-> DemoNotes, plan |-> plan, attempted |-> <<>>,
                 made |-> FALSE, kept |-> marker, stamp |-> stamp,
                 alone |-> others = {}, was |-> vault]
<1>1. /\ visitor' = [d \in Callers |-> IF d = c THEN v
                                       ELSE IF d \in others THEN [visitor[d] EXCEPT !.alone = FALSE]
                                       ELSE visitor[d]]
      /\ told' = none /\ touched' = IF others = {} THEN {} ELSE touched
      /\ UNCHANGED <<vault, theirs>>
      /\ \A n \in D!Names : plan[n] # "collision"
  BY DEF D!Begin
<1>2. vault \in Places
  BY DEF DemoInv
<1>3. /\ vault \in [D!Names -> {"demo", none}] /\ plan \in [D!Names -> {"create", "identical"}]
      /\ \A n \in D!Names : plan[n] = "create" <=> vault[n] = none
      /\ \A n \in D!Names : plan[n] # "create" => vault[n] = "demo"
  <2>1. \A n \in D!Names : plan[n] = IF vault[n] = none THEN "create"
                                     ELSE IF vault[n] = "demo" THEN "identical" ELSE "collision"
    BY DEF D!Classified
  <2>2. plan = [n \in D!Names |-> plan[n]]
    BY DEF D!Classified
  <2> HIDE DEF plan
  <2>3. \A n \in D!Names : vault[n] \in {"demo", none} /\ plan[n] \in {"create", "identical"}
    BY <1>1, <1>2, <2>1 DEF Places, D!Texts
  <2>4. vault = [n \in D!Names |-> vault[n]]
    BY <1>2 DEF Places
  <2> QED  BY <2>1, <2>2, <2>3, <2>4, DemoAssumption
<1>4. DemoNotes \in Seq(D!Names) /\ Named(DemoNotes) = D!Names
  BY DemoAssumption DEF D!Names, Named
<1> DEFINE alone == others = {}
           empty == <<>>
<1>5. alone \in BOOLEAN /\ empty \in Seq(D!Names) /\ Named(empty) = {}
  BY NothingNamed
<1>6. v = [pc |-> "check", todo |-> DemoNotes, plan |-> plan, attempted |-> empty,
           made |-> FALSE, kept |-> marker, stamp |-> stamp, alone |-> alone, was |-> vault]
  OBVIOUS
<1> HIDE DEF v, plan, stamp, empty
<1>7. IsInstall(v) /\ v.pc = "check" /\ v.alone = alone /\ v.was = vault /\ v.todo = DemoNotes
  BY <1>3, <1>4, <1>5, <1>6 DEF IsInstall, InstallPcs
<1>8. visitor' = [d \in Callers |-> visitor'[d]]
  BY <1>1
<1>9. ASSUME NEW d \in Callers, d # c, d \in others
      PROVE  /\ IsVisitor(visitor'[d]) /\ WritesFree(visitor'[d], vault') /\ ~visitor'[d].alone
             /\ ~alone
  <2> DEFINE w == visitor[d]
             u == [w EXCEPT !.alone = FALSE]
  <2>1. visitor'[d] = u
    BY <1>1, <1>9
  <2>2. w.pc \in InstallPcs /\ IsInstall(w) /\ WritesFree(w, vault)
    BY <1>9 DEF DemoInv, IsVisitor, D!Installing, D!At
  <2> HIDE DEF w
  <2>3. /\ u.pc = w.pc /\ u.todo = w.todo /\ u.alone = FALSE /\ u.was = w.was
        /\ u.plan = w.plan /\ u.attempted = w.attempted /\ u.made = w.made
        /\ u.kept = w.kept /\ u.stamp = w.stamp
    BY <2>2 DEF IsInstall
  <2>4. u \in [pc : InstallPcs, todo : Seq(D!Names), plan : [D!Names -> {"create", "identical"}],
               attempted : Seq(D!Names), made : {w.made}, kept : {w.kept}, stamp : {w.stamp},
               alone : BOOLEAN, was : [D!Names -> {"demo", none}]]
    BY <2>2 DEF IsInstall
  <2> HIDE DEF u
  <2>5. IsInstall(u) /\ WritesFree(u, vault')
    BY <1>1, <2>2, <2>3, <2>4 DEF IsInstall, WritesFree
  <2> QED  BY <1>9, <2>1, <2>2, <2>3, <2>5 DEF IsVisitor
<1>10. ASSUME NEW d \in Callers, d # c, d \notin others
       PROVE  visitor'[d] = visitor[d] /\ ~D!Installing(d)
  BY <1>1, <1>10
<1>11. visitor'[c] = v
  BY <1>1
<1>12. ASSUME NEW d \in Callers PROVE IsVisitor(visitor'[d]) /\ WritesFree(visitor'[d], vault')
  <2>1. CASE d = c
    BY <1>7, <1>11, <2>1 DEF IsVisitor, WritesFree, InstallPcs
  <2>2. CASE d # c /\ d \in others
    BY <1>9, <2>2
  <2>3. CASE d # c /\ d \notin others
    BY <1>1, <1>10, <2>3 DEF DemoInv, WritesFree, D!Installing, D!At
  <2> QED  BY <2>1, <2>2, <2>3
<1>13. ASSUME alone PROVE Progress(v, vault', touched')
  BY <1>1, <1>3, <1>4, <1>7 DEF Progress, Placed
<1>14. ASSUME NEW d \in Callers, D!Installing(d)', visitor'[d].alone
       PROVE  /\ \A e \in Callers \ {d} : ~D!Installing(e)'
              /\ Progress(visitor'[d], vault', touched')
  <2>1. d = c
    BY <1>9, <1>10, <1>14 DEF D!Installing, D!At
  <2>2. alone
    BY <1>7, <1>11, <1>14, <2>1
  <2>3. \A e \in Callers \ {c} : ~D!Installing(e)'
    BY <1>10, <2>2 DEF D!Installing, D!At
  <2> QED  BY <1>11, <1>13, <2>1, <2>2, <2>3
<1>15. D!TheirsStay' /\ D!ToldIsTrue' /\ vault' \in Places /\ theirs' \subseteq D!Names
  BY <1>1 DEF D!TheirsStay, D!ToldIsTrue, D!DemoIsHonest, DemoInv
<1> QED  BY <1>1, <1>8, <1>12, <1>14, <1>15 DEF DemoInv, D!DemoIsHonest

LEMMA DemoStarts == ASSUME D!Init PROVE DemoInv
<1>1. /\ vault \in Places /\ theirs = {n \in D!Names : vault[n] = "other"} /\ told = none
      /\ visitor = [c \in Callers |-> D!Out]
  BY DEF D!Init, Places
<1>2. \A c \in Callers : visitor[c].pc = "out"
  BY <1>1 DEF D!Out
<1>3. visitor = [c \in Callers |-> visitor[c]]
  BY <1>1
<1> QED  BY <1>1, <1>2, <1>3 DEF DemoInv, IsVisitor, WritesFree, D!Installing, D!At,
         D!DemoIsHonest, D!TheirsStay, D!ToldIsTrue

LEMMA DemoGoesOn == ASSUME DemoInv, D!Next PROVE DemoInv'
  BY BeginKeeps, CheckKeeps, RecheckKeeps, WriteNoteKeeps, MarkerKeeps, WithdrawKeeps, RestoreKeeps,
     DismissKeeps, CrashKeeps, PeopleKeep DEF D!Next

-----------------------------------------------------------------------------
(* The scenes together *)

WindowHolds == scene = "window" => WindowInv
ModelHolds == scene = "model" => ModelInv
SettingsHold == scene = "settings" => SettingsInv
DemoHolds == scene = "demo" => DemoInv

LEMMA SettingsStay == ASSUME SettingsInv, UNCHANGED settingsVars PROVE SettingsInv'
  BY DEF settingsVars, SettingsInv, IsConsole, IsPipe, IsVisit, IsLeft, LeftTrue, Idle

LEMMA DemoStays == ASSUME DemoInv, UNCHANGED demoVars PROVE DemoInv'
  BY DEF demoVars, DemoInv, D!DemoIsHonest, D!TheirsStay, D!ToldIsTrue, D!Installing, D!At

LEMMA WindowStays == ASSUME WindowInv, UNCHANGED windowVars PROVE WindowInv'
  BY DEF windowVars, WindowInv, WindowTypes, Closable

LEMMA ModelMeaning == ModelInv => M!ModelIsReady
  BY DEF ModelInv, CallReady, M!ModelIsReady, M!At

(* No step changes the scene. *)
LEMMA ModelForever == Spec => []ModelHolds
<1>1. Init => ModelHolds
  BY ModelStarts DEF Init, ModelHolds
<1>2. ModelHolds /\ [Next]_vars => ModelHolds'
  <2> SUFFICES ASSUME ModelHolds, [Next]_vars, scene' = "model" PROVE ModelInv'
    BY DEF ModelHolds
  <2>1. CASE UNCHANGED vars
    <3>1. scene = "model" /\ UNCHANGED modelVars
      BY <2>1 DEF vars
    <3> QED  BY <3>1 DEF ModelHolds, ModelInv, modelVars
  <2>2. CASE Next
    <3>1. scene = "model" /\ M!Next
      BY <2>2 DEF Next
    <3> QED  BY <3>1, ModelGoesOn DEF ModelHolds
  <2> QED  BY <2>1, <2>2
<1> QED  BY <1>1, <1>2, PTL DEF Spec

LEMMA SettingsForever == Spec => []SettingsHold
<1>1. Init => SettingsHold
  BY SettingsStart DEF Init, SettingsHold
<1>2. SettingsHold /\ [Next]_vars => SettingsHold'
  <2> SUFFICES ASSUME SettingsHold, [Next]_vars, scene' = "settings" PROVE SettingsInv'
    BY DEF SettingsHold
  <2>1. CASE UNCHANGED vars
    <3>1. scene = "settings" /\ UNCHANGED settingsVars
      BY <2>1 DEF vars
    <3> QED  BY <3>1, SettingsStay DEF SettingsHold
  <2>2. CASE Next
    <3>1. scene = "settings" /\ L!Next
      BY <2>2 DEF Next
    <3> QED  BY <3>1, SettingsGoOn DEF SettingsHold
  <2> QED  BY <2>1, <2>2
<1> QED  BY <1>1, <1>2, PTL DEF Spec

LEMMA DemoForever == Spec => []DemoHolds
<1>1. Init => DemoHolds
  BY DemoStarts DEF Init, DemoHolds
<1>2. DemoHolds /\ [Next]_vars => DemoHolds'
  <2> SUFFICES ASSUME DemoHolds, [Next]_vars, scene' = "demo" PROVE DemoInv'
    BY DEF DemoHolds
  <2>1. CASE UNCHANGED vars
    <3>1. scene = "demo" /\ UNCHANGED demoVars
      BY <2>1 DEF vars
    <3> QED  BY <3>1, DemoStays DEF DemoHolds
  <2>2. CASE Next
    <3>1. scene = "demo" /\ D!Next
      BY <2>2 DEF Next
    <3> QED  BY <3>1, DemoGoesOn DEF DemoHolds
  <2> QED  BY <2>1, <2>2
<1> QED  BY <1>1, <1>2, PTL DEF Spec

LEMMA WindowForever == ASSUME InOrder PROVE Spec => []WindowHolds
<1>1. Init => WindowHolds
  BY WindowStarts DEF Init, WindowHolds
<1>2. WindowHolds /\ [Next]_vars => WindowHolds'
  <2> SUFFICES ASSUME WindowHolds, [Next]_vars, scene' = "window" PROVE WindowInv'
    BY DEF WindowHolds
  <2>1. CASE UNCHANGED vars
    <3>1. scene = "window" /\ UNCHANGED windowVars
      BY <2>1 DEF vars
    <3> QED  BY <3>1, WindowStays DEF WindowHolds
  <2>2. CASE Next
    <3>1. scene = "window" /\ W!Next
      BY <2>2 DEF Next
    <3> QED  BY <3>1, WindowGoesOn DEF WindowHolds
  <2> QED  BY <2>1, <2>2
<1> QED  BY <1>1, <1>2, PTL DEF Spec

-----------------------------------------------------------------------------
(* The list that is read page by page: what a page takes, by counting the rows
   before a row, whatever the table holds. *)

LEMMA NatMinimum ==
  ASSUME NEW T, T \subseteq Nat, T # {}
  PROVE  \E x \in T : \A y \in T : x <= y
<1>1. \E x \in T : \A y \in T : <<y, x>> \notin OpToRel(<, Nat)
  BY NatLessThanWellFounded, WFMin
<1>2. OpToRel(<, Nat) = {p \in Nat \X Nat : p[1] < p[2]} BY DEF OpToRel
<1>3. PICK x \in T : \A y \in T : <<y, x>> \notin {p \in Nat \X Nat : p[1] < p[2]}
  BY <1>1, <1>2, Zenon
<1>4. ASSUME NEW y \in T PROVE x <= y
  <2>1. <<y, x>> \in Nat \X Nat /\ <<y, x>>[1] = y /\ <<y, x>>[2] = x OBVIOUS
  <2>2. ~ (y < x) BY <1>3, <2>1
  <2> QED BY <2>2
<1> QED BY <1>4

Dated == \A n \in Rows : table[n].at \in Nat

(* The order of the rows is strict and total. *)
LEMMA NewerOrders ==
  ASSUME Dated
  PROVE  /\ \A n \in Rows : ~F!Newer(n, n)
         /\ \A m, n \in Rows : m = n \/ F!Newer(m, n) \/ F!Newer(n, m)
         /\ \A l, m, n \in Rows : F!Newer(l, m) /\ F!Newer(m, n) => F!Newer(l, n)
<1>1. \A n \in Rows : n \in Nat /\ F!Key(n)[1] \in Nat /\ F!Key(n)[1] = table[n].at /\ F!Key(n)[2] = n
  BY FeedAssumption DEF F!Key, Dated
<1>2. \A m, n \in Rows :
        F!Newer(m, n) <=> (table[m].at > table[n].at \/ (table[m].at = table[n].at /\ m > n))
  BY <1>1 DEF F!Newer, F!Precedes
<1> QED  BY <1>1, <1>2

LEMMA CountsOf ==
  ASSUME NEW rows \in SUBSET Rows
  PROVE  IsFiniteSet(rows) /\ Cardinality(rows) \in Nat
BY FeedAssumption, FS_Subset, FS_CardinalityType

LEMMA CountsLess ==
  ASSUME NEW rows \in SUBSET Rows, NEW s \in SUBSET rows
  PROVE  /\ Cardinality(s) <= Cardinality(rows)
         /\ s # rows => Cardinality(s) < Cardinality(rows)
<1>1. IsFiniteSet(rows) /\ Cardinality(rows) \in Nat /\ Cardinality(s) \in Nat
  BY CountsOf
<1>2. Cardinality(s) <= Cardinality(rows) /\ (Cardinality(s) = Cardinality(rows) => s = rows)
  BY <1>1, FS_Subset
<1> QED  BY <1>1, <1>2

Ahead(rows, n) == {m \in rows : F!Newer(m, n)}

LEMMA FrontIs ==
  \A rows, count : F!Front(rows, count) = {n \in rows : Cardinality(Ahead(rows, n)) < count}
BY DEF F!Front, Ahead, F!Cardinality, Cardinality

(* Who is before a row of the front is in the front. *)
LEMMA FrontIsFirst ==
  ASSUME Dated, NEW rows \in SUBSET Rows, NEW count \in Nat,
         NEW n \in F!Front(rows, count), NEW m \in rows, F!Newer(m, n)
  PROVE  m \in F!Front(rows, count)
<1>1. n \in rows /\ Cardinality(Ahead(rows, n)) < count
  BY FrontIs
<1>2. Ahead(rows, m) \in SUBSET Ahead(rows, n) /\ Ahead(rows, n) \in SUBSET Rows
  BY <1>1, NewerOrders DEF Ahead
<1>3. Cardinality(Ahead(rows, m)) <= Cardinality(Ahead(rows, n))
  BY <1>2, CountsLess
<1>4. Cardinality(Ahead(rows, m)) \in Nat /\ Cardinality(Ahead(rows, n)) \in Nat
  BY <1>2, CountsOf
<1> QED  BY <1>1, <1>3, <1>4, FrontIs

(* A front that holds all there is, or is not full, leaves nobody out. *)
LEMMA FrontIsAll ==
  ASSUME Dated, NEW rows \in SUBSET Rows, NEW count \in Nat, Cardinality(rows) <= count
  PROVE  F!Front(rows, count) = rows
<1> SUFFICES ASSUME NEW n \in rows PROVE Cardinality(Ahead(rows, n)) < count
  BY FrontIs
<1>1. Ahead(rows, n) \in SUBSET rows /\ n \notin Ahead(rows, n)
  BY NewerOrders DEF Ahead
<1>2. Cardinality(Ahead(rows, n)) < Cardinality(rows)
  BY <1>1, CountsLess
<1>3. Cardinality(Ahead(rows, n)) \in Nat /\ Cardinality(rows) \in Nat
  BY <1>1, CountsOf
<1> QED  BY <1>2, <1>3

(* A set of rows that is not empty has a newest and an oldest. *)
LEMMA NewestExists ==
  ASSUME Dated, NEW rows \in SUBSET Rows, rows # {}
  PROVE  \E n \in rows : Ahead(rows, n) = {}
<1> DEFINE counts == {Cardinality(Ahead(rows, n)) : n \in rows}
<1>1. \A n \in rows : Ahead(rows, n) \in SUBSET rows
  BY DEF Ahead
<1>2. counts \subseteq Nat /\ counts # {}
  BY <1>1, CountsOf
<1> HIDE DEF counts
<1>3. PICK c \in counts : \A d \in counts : c <= d
  BY <1>2, NatMinimum
<1>4. PICK n \in rows : c = Cardinality(Ahead(rows, n))
  BY <1>3 DEF counts
<1>5. ASSUME NEW m \in Ahead(rows, n) PROVE FALSE
  <2>1. m \in rows /\ F!Newer(m, n)
    BY <1>5 DEF Ahead
  <2>2. Ahead(rows, m) \in SUBSET Ahead(rows, n) /\ m \notin Ahead(rows, m)
    BY <2>1, NewerOrders DEF Ahead
  <2>3. Cardinality(Ahead(rows, m)) < Cardinality(Ahead(rows, n))
    BY <1>1, <1>5, <2>2, CountsLess
  <2>4. Cardinality(Ahead(rows, m)) \in counts
    BY <2>1 DEF counts
  <2>5. c <= Cardinality(Ahead(rows, m))
    BY <1>3, <2>4
  <2>6. c \in Nat /\ Cardinality(Ahead(rows, m)) \in Nat
    BY <1>2, <2>4
  <2> QED  BY <1>4, <2>3, <2>5, <2>6
<1> QED  BY <1>5

Behind(rows, n) == {m \in rows : F!Newer(n, m)}

LEMMA OldestExists ==
  ASSUME Dated, NEW rows \in SUBSET Rows, rows # {}
  PROVE  F!Oldest(rows) \in rows /\ \A m \in rows : ~F!Newer(F!Oldest(rows), m)
<1> DEFINE counts == {Cardinality(Behind(rows, n)) : n \in rows}
<1>1. \A n \in rows : Behind(rows, n) \in SUBSET rows
  BY DEF Behind
<1>2. counts \subseteq Nat /\ counts # {}
  BY <1>1, CountsOf
<1> HIDE DEF counts
<1>3. PICK c \in counts : \A d \in counts : c <= d
  BY <1>2, NatMinimum
<1>4. PICK n \in rows : c = Cardinality(Behind(rows, n))
  BY <1>3 DEF counts
<1>5. ASSUME NEW m \in rows, F!Newer(n, m) PROVE FALSE
  <2>1. m \in Behind(rows, n)
    BY <1>5 DEF Behind
  <2>2. Behind(rows, m) \in SUBSET Behind(rows, n) /\ m \notin Behind(rows, m)
    BY <1>5, NewerOrders DEF Behind
  <2>3. Cardinality(Behind(rows, m)) < Cardinality(Behind(rows, n))
    BY <1>1, <2>1, <2>2, CountsLess
  <2>4. Cardinality(Behind(rows, m)) \in counts
    BY <1>5 DEF counts
  <2>5. c <= Cardinality(Behind(rows, m))
    BY <1>3, <2>4
  <2>6. c \in Nat /\ Cardinality(Behind(rows, m)) \in Nat
    BY <1>2, <2>4
  <2> QED  BY <1>4, <2>3, <2>5, <2>6
<1>6. \E o \in rows : \A m \in rows : ~F!Newer(o, m)
  BY <1>5
<1> QED  BY <1>6 DEF F!Oldest

(* A front that is not full is all. *)
LEMMA FrontNotFull ==
  ASSUME Dated, NEW rows \in SUBSET Rows, NEW count \in Nat,
         Cardinality(F!Front(rows, count)) < count
  PROVE  F!Front(rows, count) = rows
<1> DEFINE front == F!Front(rows, count)
           rest == rows \ front
<1>1. front \in SUBSET rows
  BY FrontIs
<1> SUFFICES ASSUME rest # {} PROVE FALSE
  BY <1>1
<1>2. PICK n \in rest : Ahead(rest, n) = {}
  BY NewestExists
<1>3. Ahead(rows, n) \in SUBSET front /\ Ahead(rows, n) \in SUBSET Rows
  BY <1>2 DEF Ahead
<1>4. Cardinality(Ahead(rows, n)) <= Cardinality(front)
  BY <1>1, <1>3, CountsLess
<1>5. ~(Cardinality(Ahead(rows, n)) < count)
  BY <1>2, FrontIs
<1>6. Cardinality(Ahead(rows, n)) \in Nat /\ Cardinality(front) \in Nat
  BY <1>1, <1>3, CountsOf
<1> QED  BY <1>4, <1>5, <1>6

(* What a reader has been shown: the pages he has, and the one that is on its way. *)
Cursors == {<<>>} \union (Nat \X Rows)

IsWalk(w) ==
  /\ w \in [reader : {w.reader}, filter : {w.filter}, cursor : Cursors, page : SUBSET Rows,
            more : {w.more}, seen : Seq(SUBSET Rows), pc : {w.pc}]
  /\ w.reader = "queue" => w.filter \notin F!Urgencies

InList(w, n) ==
  /\ F!Listed(w.reader, table[n], w.filter) /\ F!Wanted(w.filter, n)
  /\ w.reader = "agent" => table[n].visible

Shown == IF walk.pc = "page" THEN Append(walk.seen, walk.page) ELSE walk.seen

\* A row nothing happened to is on a page, or the cursor is before it.
Told(pages, w, n) ==
  \/ \E i \in DOMAIN pages : n \in pages[i]
  \/ w.more /\ F!Beyond(w.cursor, n)

\* Such rows stand on the pages in their order, and the cursor is after them.
InOrderOf(pages, rows) ==
  \A i, j \in DOMAIN pages : i < j =>
    \A m \in pages[i] \intersect rows, n \in pages[j] \intersect rows : F!Newer(m, n)

Passed(pages, w, rows) ==
  w.cursor # <<>> =>
    \A i \in DOMAIN pages : \A n \in pages[i] \intersect rows : ~F!Precedes(w.cursor, F!Key(n))

FeedInv ==
  /\ Dated /\ clock \in Nat /\ steady \in SUBSET Rows /\ IsWalk(walk)
  /\ \A n \in steady : InList(walk, n)
  /\ walk.pc = "closed" => steady = {} /\ walk.seen = <<>>
  /\ walk.pc = "ask" => walk.cursor # <<>>
  /\ walk.pc = "done" => ~walk.more
  /\ \A n \in steady : Told(Shown, walk, n)
  /\ InOrderOf(Shown, steady)
  /\ Passed(Shown, walk, steady)

LEMMA FeedMeaning == FeedInv => F!PagesAreComplete
<1> SUFFICES ASSUME FeedInv, walk.pc = "done" PROVE F!PagesAreComplete
  BY DEF F!PagesAreComplete
<1> DEFINE seen == walk.seen
<1>1. /\ Dated /\ steady \in SUBSET Rows /\ seen \in Seq(SUBSET Rows)
      /\ \A n \in steady : \E i \in DOMAIN seen : n \in seen[i]
      /\ InOrderOf(seen, steady)
  BY DEF FeedInv, IsWalk, Shown, Told
<1>2. \A i, j \in DOMAIN seen : i < j =>
        \A m \in seen[i] \intersect steady, n \in seen[j] \intersect steady : F!Newer(m, n)
  BY <1>1 DEF InOrderOf
<1>3. ASSUME NEW n \in steady, NEW i \in DOMAIN seen, NEW j \in DOMAIN seen \ {i},
             n \in seen[i], n \in seen[j]
      PROVE  FALSE
  <2>1. i \in Nat /\ j \in Nat /\ (i < j \/ j < i)
    BY <1>1
  <2>2. F!Newer(n, n)
    BY <1>2, <1>3, <2>1
  <2> QED  BY <1>1, <2>2, NewerOrders
<1>4. \A n \in steady : \E i \in DOMAIN seen :
         n \in seen[i] /\ \A j \in DOMAIN seen \ {i} : n \notin seen[j]
  BY <1>1, <1>3
<1> QED  BY <1>2, <1>4 DEF F!PagesAreComplete

(* Keys in their order. *)
LEMMA PrecedesOrders ==
  ASSUME Dated
  PROVE  /\ \A n \in Rows : F!Key(n) \in Nat \X Rows /\ F!Key(n) # <<>>
         /\ \A c \in Nat \X Rows, m, n \in Rows :
              F!Precedes(c, F!Key(m)) /\ ~F!Precedes(c, F!Key(n)) => F!Newer(n, m)
         /\ \A c \in Nat \X Rows, m, n \in Rows :
              F!Precedes(c, F!Key(m)) /\ F!Newer(m, n) => F!Precedes(c, F!Key(n))
<1>1. \A n \in Rows : F!Key(n) \in Nat \X Rows /\ F!Key(n) # <<>>
  BY DEF F!Key, Dated
<1>2. \A a, b, c \in Nat \X Rows :
        /\ F!Precedes(c, a) /\ ~F!Precedes(c, b) => F!Precedes(b, a)
        /\ F!Precedes(c, a) /\ F!Precedes(a, b) => F!Precedes(c, b)
  <2> TAKE a, b, c \in Nat \X Rows
  <2>1. /\ a[1] \in Nat /\ b[1] \in Nat /\ c[1] \in Nat
        /\ a[2] \in Nat /\ b[2] \in Nat /\ c[2] \in Nat
    BY FeedAssumption
  <2> QED  BY <2>1 DEF F!Precedes
<1> QED  BY <1>1, <1>2 DEF F!Newer

(* What list_feed() and list_jobs() return. *)
LEMMA QueryTells ==
  ASSUME Dated, NEW w, IsWalk(w)
  PROVE  LET q == F!Query(w) IN
         /\ IsWalk(q) /\ q.reader = w.reader /\ q.filter = w.filter /\ q.seen = w.seen /\ q.pc = "page"
         /\ \A n \in q.page : F!Beyond(w.cursor, n)
         /\ \A n \in Rows :
              F!Listed(w.reader, table[n], w.filter) /\ F!Wanted(w.filter, n) /\ F!Beyond(w.cursor, n)
                => n \in q.page \/ (q.more /\ F!Beyond(q.cursor, n))
         /\ q.cursor # <<>> => /\ F!Beyond(w.cursor, q.cursor[2]) /\ q.cursor = F!Key(q.cursor[2])
                               /\ q.cursor[2] \in Rows
                               /\ \A n \in q.page : ~F!Precedes(q.cursor, F!Key(n))
<1> DEFINE all == {n \in Rows : F!Listed(w.reader, table[n], w.filter) /\ F!Beyond(w.cursor, n)}
           count == F!FetchLimit(w.filter)
           rows == F!Front(all, count)
           items == {n \in rows : F!Wanted(w.filter, n)}
           shown == F!Front(items, Limit)
           more == Cardinality(items) > Limit \/ (w.reader # "queue" /\ Cardinality(rows) >= count)
           cursor == IF more /\ shown # {} THEN F!Key(F!Oldest(shown)) ELSE <<>>
           q == F!Query(w)
<1>1. q = [w EXCEPT !.page = shown, !.more = more, !.pc = "page", !.cursor = cursor]
  BY DEF F!Query, F!Fetched, F!Cardinality, Cardinality
<1>2. count \in Nat /\ Limit \in Nat
  BY DesktopAssumption, FeedAssumption DEF F!FetchLimit
<1>3. all \in SUBSET Rows /\ rows \in SUBSET all /\ items \in SUBSET rows /\ shown \in SUBSET items
  BY FrontIs
<1>4. Cardinality(rows) \in Nat /\ Cardinality(items) \in Nat
  BY <1>3, CountsOf
<1> HIDE DEF all, rows, items, shown, count
<1>5. ~more => shown = items /\ rows = all
  <2> SUFFICES ASSUME ~more PROVE shown = items /\ rows = all
    OBVIOUS
  <2>1. Cardinality(items) <= Limit
    BY <1>2, <1>4
  <2>2. shown = items
    BY <1>2, <1>3, <2>1, FrontIsAll DEF shown
  <2>3. Cardinality(rows) < count
    <3>1. CASE w.reader = "queue"
      <4>1. w.filter \notin F!Urgencies
        BY <3>1 DEF IsWalk
      <4>2. count = Limit + 1 /\ items = rows
        BY <1>3, <4>1 DEF F!FetchLimit, F!Wanted, F!Urgencies, count, items
      <4> QED  BY <1>2, <1>4, <2>1, <4>2
    <3>2. CASE w.reader # "queue"
      BY <1>2, <1>4, <3>2
    <3> QED  BY <3>1, <3>2
  <2>4. rows = all
    BY <1>2, <1>3, <2>3, FrontNotFull DEF rows
  <2> QED  BY <2>2, <2>4
<1>6. shown # {} => /\ F!Oldest(shown) \in shown
                    /\ \A m \in shown : ~F!Newer(F!Oldest(shown), m)
  BY <1>3, OldestExists
<1> DEFINE last == F!Oldest(shown)
<1> HIDE DEF last
<1>7. cursor # <<>> => cursor = F!Key(last) /\ last \in shown /\ \A m \in shown : ~F!Newer(last, m)
  BY <1>6 DEF last
<1>8. cursor \in Cursors
  BY <1>3, <1>7, PrecedesOrders DEF Cursors
<1> HIDE DEF more, cursor
<1>9. /\ IsWalk(q) /\ q.reader = w.reader /\ q.filter = w.filter /\ q.seen = w.seen /\ q.pc = "page"
      /\ q.page = shown /\ q.more = more /\ q.cursor = cursor
  <2>1. shown \in SUBSET Rows
    BY <1>3
  <2> QED  BY <1>1, <1>8, <2>1 DEF IsWalk
<1> HIDE DEF q
<1>10. \A n \in shown : F!Beyond(w.cursor, n)
  BY <1>3 DEF all
<1>11. ASSUME NEW n \in Rows, F!Listed(w.reader, table[n], w.filter), F!Wanted(w.filter, n),
              F!Beyond(w.cursor, n), n \notin shown
       PROVE  more /\ F!Beyond(cursor, n)
  <2>1. n \in all
    BY <1>11 DEF all
  <2>2. more
    BY <1>5, <1>11, <2>1 DEF items
  <2>3. CASE cursor = <<>>
    BY <2>2, <2>3 DEF F!Beyond
  <2>4. CASE cursor # <<>>
    <3>1. cursor = F!Key(last) /\ last \in shown
      BY <1>7, <2>4
    <3>2. last \in items /\ last \in rows /\ last \in Rows /\ n # last
      BY <1>3, <1>11, <3>1
    <3>3. ~F!Newer(n, last)
      <4> SUFFICES ASSUME F!Newer(n, last) PROVE FALSE
        OBVIOUS
      <4>1. n \in rows
        BY <1>2, <1>3, <2>1, <3>2, FrontIsFirst DEF rows
      <4>2. n \in items
        BY <1>11, <4>1 DEF items
      <4>3. items \in SUBSET Rows /\ n \in F!Front(items, Limit)
        BY <1>2, <1>3, <3>1, <4>2, FrontIsFirst DEF shown
      <4> QED  BY <1>11, <4>3 DEF shown
    <3>4. F!Newer(last, n)
      BY <3>2, <3>3, NewerOrders
    <3> QED  BY <2>2, <3>1, <3>4 DEF F!Beyond, F!Newer
  <2> QED  BY <2>3, <2>4
<1>12. cursor # <<>> => /\ F!Beyond(w.cursor, cursor[2]) /\ cursor = F!Key(cursor[2]) /\ cursor[2] \in Rows
                        /\ \A n \in shown : ~F!Precedes(cursor, F!Key(n))
  <2> SUFFICES ASSUME cursor # <<>>
               PROVE  /\ F!Beyond(w.cursor, cursor[2]) /\ cursor = F!Key(cursor[2]) /\ cursor[2] \in Rows
                      /\ \A n \in shown : ~F!Precedes(cursor, F!Key(n))
    OBVIOUS
  <2>1. cursor[2] = last
    BY <1>7 DEF F!Key
  <2> QED  BY <1>3, <1>7, <1>10, <2>1 DEF F!Newer
<1>13. /\ \A n \in q.page : F!Beyond(w.cursor, n)
       /\ \A n \in Rows :
              F!Listed(w.reader, table[n], w.filter) /\ F!Wanted(w.filter, n) /\ F!Beyond(w.cursor, n)
                => n \in q.page \/ (q.more /\ F!Beyond(q.cursor, n))
  BY <1>9, <1>10, <1>11
<1>14. q.cursor # <<>> => /\ F!Beyond(w.cursor, q.cursor[2]) /\ q.cursor = F!Key(q.cursor[2])
                          /\ q.cursor[2] \in Rows /\ \A n \in q.page : ~F!Precedes(q.cursor, F!Key(n))
  BY <1>9, <1>12
<1> QED  BY <1>9, <1>13, <1>14 DEF q

LEMMA FeedStarts == ASSUME F!Init PROVE FeedInv
<1>1. /\ walk = F!Closed /\ steady = {} /\ clock = 1
      /\ table \in [Rows -> {r \in F!Row : ~r.gone /\ r.visible /\ (r.claimed => ~r.approved)}]
  BY DEF F!Init
<1>2. Dated
  BY <1>1 DEF Dated, F!Row
<1>3. IsWalk(walk) /\ Shown = <<>> /\ walk.pc = "closed" /\ walk.seen = <<>> /\ walk.cursor = <<>>
  BY <1>1 DEF F!Closed, IsWalk, Shown, Cursors
<1>4. InOrderOf(Shown, steady) /\ Passed(Shown, walk, steady)
  BY <1>3 DEF InOrderOf, Passed
<1> QED  BY <1>1, <1>2, <1>3, <1>4 DEF FeedInv

(* A query goes on from the cursor, with the pages that came before it. *)
LEMMA QueryKeeps ==
  ASSUME FeedInv, NEW w, IsWalk(w), walk' = F!Query(w), UNCHANGED <<table, clock>>,
         steady' \in SUBSET Rows, \A n \in steady' : InList(w, n) /\ Told(w.seen, [w EXCEPT !.more = TRUE], n),
         InOrderOf(w.seen, steady'), Passed(w.seen, w, steady'),
         w.cursor = <<>> => w.seen = <<>>
  PROVE  FeedInv'
<1> DEFINE q == F!Query(w)
           pages == Append(w.seen, q.page)
           rows == steady'
<1>1. Dated
  BY DEF FeedInv
<1>2. /\ IsWalk(q) /\ q.reader = w.reader /\ q.filter = w.filter /\ q.seen = w.seen /\ q.pc = "page"
      /\ \A n \in q.page : F!Beyond(w.cursor, n)
      /\ \A n \in Rows :
           F!Listed(w.reader, table[n], w.filter) /\ F!Wanted(w.filter, n) /\ F!Beyond(w.cursor, n)
             => n \in q.page \/ (q.more /\ F!Beyond(q.cursor, n))
      /\ q.cursor # <<>> => /\ F!Beyond(w.cursor, q.cursor[2]) /\ q.cursor = F!Key(q.cursor[2])
                            /\ q.cursor[2] \in Rows
                            /\ \A n \in q.page : ~F!Precedes(q.cursor, F!Key(n))
  BY <1>1, QueryTells
<1>3. w.seen \in Seq(SUBSET Rows) /\ q.page \in SUBSET Rows /\ w.cursor \in Cursors
  BY <1>2 DEF IsWalk
<1> HIDE DEF q
<1>4. /\ DOMAIN pages = DOMAIN w.seen \union {Len(w.seen) + 1} /\ Len(w.seen) + 1 \notin DOMAIN w.seen
      /\ \A i \in DOMAIN w.seen : pages[i] = w.seen[i] /\ i \in Nat /\ i < Len(w.seen) + 1
      /\ pages[Len(w.seen) + 1] = q.page
  BY <1>3
<1> HIDE DEF pages
<1>5. \A n \in rows : Told(pages, q, n)
  <2> SUFFICES ASSUME NEW n \in rows PROVE Told(pages, q, n)
    OBVIOUS
  <2>1. F!Listed(w.reader, table[n], w.filter) /\ F!Wanted(w.filter, n)
    BY DEF InList
  <2>2. (\E i \in DOMAIN w.seen : n \in w.seen[i]) \/ F!Beyond(w.cursor, n)
    BY DEF Told
  <2>3. CASE \E i \in DOMAIN w.seen : n \in w.seen[i]
    BY <1>4, <2>3 DEF Told
  <2>4. CASE F!Beyond(w.cursor, n)
    BY <1>2, <1>4, <2>1, <2>4 DEF Told
  <2> QED  BY <2>2, <2>3, <2>4
<1>6. w.cursor # <<>> => w.cursor \in Nat \X Rows
  BY <1>3 DEF Cursors
<1>7. InOrderOf(pages, rows)
  <2> SUFFICES ASSUME NEW i \in DOMAIN pages, NEW j \in DOMAIN pages, i < j,
                      NEW m \in pages[i] \intersect rows, NEW n \in pages[j] \intersect rows
               PROVE  F!Newer(m, n)
    BY DEF InOrderOf
  <2>1. i \in DOMAIN w.seen
    BY <1>3, <1>4
  <2>2. CASE j \in DOMAIN w.seen
    BY <1>4, <2>1, <2>2 DEF InOrderOf
  <2>3. CASE j = Len(w.seen) + 1
    <3>1. w.cursor # <<>>
      BY <1>3, <2>1
    <3>2. ~F!Precedes(w.cursor, F!Key(m))
      BY <1>4, <2>1, <3>1 DEF Passed
    <3>3. F!Precedes(w.cursor, F!Key(n))
      BY <1>2, <1>4, <2>3, <3>1 DEF F!Beyond
    <3> QED  BY <1>1, <1>6, <3>1, <3>2, <3>3, PrecedesOrders
  <2> QED  BY <1>4, <2>2, <2>3
<1>8. Passed(pages, q, rows)
  <2> SUFFICES ASSUME q.cursor # <<>>, NEW i \in DOMAIN pages, NEW n \in pages[i] \intersect rows
               PROVE  ~F!Precedes(q.cursor, F!Key(n))
    BY DEF Passed
  <2>1. CASE i = Len(w.seen) + 1
    BY <1>2, <1>4, <2>1
  <2>2. CASE i \in DOMAIN w.seen
    <3>1. w.cursor # <<>>
      BY <1>3, <2>2
    <3>2. ~F!Precedes(w.cursor, F!Key(n))
      BY <1>4, <2>2, <3>1 DEF Passed
    <3>3. F!Precedes(w.cursor, F!Key(q.cursor[2])) /\ q.cursor = F!Key(q.cursor[2]) /\ q.cursor[2] \in Rows
      BY <1>2, <3>1 DEF F!Beyond
    <3>4. F!Newer(n, q.cursor[2])
      BY <1>1, <1>6, <3>1, <3>2, <3>3, PrecedesOrders
    <3>5. ~F!Newer(q.cursor[2], n)
      BY <1>1, <3>3, <3>4, NewerOrders
    <3> QED  BY <3>3, <3>5 DEF F!Newer
  <2> QED  BY <1>4, <2>1, <2>2
<1>9. walk' = q /\ Shown' = pages /\ \A n \in rows : InList(q, n)
  BY <1>2 DEF Shown, InList, q, pages
<1>10. /\ Dated' /\ clock' \in Nat /\ steady' \in SUBSET Rows /\ IsWalk(walk')
       /\ \A n \in steady' : InList(walk, n)'
       /\ walk'.pc = "page"
  BY <1>1, <1>2, <1>9 DEF FeedInv, Dated, IsWalk, InList
<1>11. /\ \A n \in steady' : Told(Shown, walk, n)'
       /\ InOrderOf(Shown, steady)' /\ Passed(Shown, walk, steady)'
  BY <1>5, <1>7, <1>8, <1>9 DEF Told, InOrderOf, Passed, F!Beyond, F!Newer, F!Key
<1> QED  BY <1>10, <1>11 DEF FeedInv

LEMMA OpenKeeps == ASSUME FeedInv, F!Open PROVE FeedInv'
<1>1. PICK reader \in {"window", "agent", "queue"}, filter \in F!FeedFilters \union F!QueueFilters :
        /\ filter \in (IF reader = "queue" THEN F!QueueFilters
                       ELSE IF reader = "agent" THEN {"none"} ELSE F!FeedFilters)
        /\ walk' = F!Query([F!Closed EXCEPT !.reader = reader, !.filter = filter])
        /\ steady' = {n \in Rows : /\ F!Listed(reader, table[n], filter)
                                   /\ F!Wanted(filter, n)
                                   /\ reader = "agent" => table[n].visible}
  BY DEF F!Open
<1> DEFINE w == [F!Closed EXCEPT !.reader = reader, !.filter = filter]
<1>2. reader = "queue" => filter \notin F!Urgencies
  BY <1>1 DEF F!QueueFilters, F!Urgencies
<1>3. w.reader = reader /\ w.filter = filter /\ w.cursor = <<>> /\ w.seen = <<>>
  BY DEF F!Closed
<1>4. IsWalk(w)
  <2>1. <<>> \in Cursors /\ <<>> \in Seq(SUBSET Rows) /\ {} \in SUBSET Rows
    BY DEF Cursors
  <2>2. F!Closed \in [reader : {"nobody"}, filter : {"none"}, cursor : Cursors, page : SUBSET Rows,
                      more : {FALSE}, seen : Seq(SUBSET Rows), pc : {"closed"}]
    BY <2>1 DEF F!Closed
  <2>3. w \in [reader : {reader}, filter : {filter}, cursor : Cursors, page : SUBSET Rows,
               more : {FALSE}, seen : Seq(SUBSET Rows), pc : {"closed"}]
    BY <2>2
  <2> HIDE DEF w
  <2>4. w.more = FALSE /\ w.pc = "closed"
    BY <2>3
  <2> QED  BY <1>2, <1>3, <2>3, <2>4 DEF IsWalk
<1> HIDE DEF w
<1>5. steady' \in SUBSET Rows /\ walk' = F!Query(w) /\ UNCHANGED <<table, clock>>
  BY <1>1 DEF F!Open, w
<1>6. \A n \in steady' : InList(w, n)
  BY <1>1, <1>3 DEF InList
<1>7. [w EXCEPT !.more = TRUE].more = TRUE /\ [w EXCEPT !.more = TRUE].cursor = <<>>
  BY <1>3, <1>4 DEF IsWalk
<1>8. \A n \in steady' : Told(w.seen, [w EXCEPT !.more = TRUE], n)
  BY <1>7 DEF Told, F!Beyond
<1>9. InOrderOf(w.seen, steady') /\ Passed(w.seen, w, steady')
  BY <1>3 DEF InOrderOf, Passed
<1> QED  BY <1>3, <1>4, <1>5, <1>6, <1>8, <1>9, QueryKeeps

LEMMA MoreKeeps == ASSUME FeedInv, F!More PROVE FeedInv'
<1>1. walk.pc = "ask" /\ walk' = F!Query(walk) /\ UNCHANGED <<table, clock, steady>>
  BY DEF F!More
<1>2. IsWalk(walk) /\ Shown = walk.seen /\ walk.cursor # <<>>
  BY <1>1 DEF FeedInv, Shown
<1>3. [walk EXCEPT !.more = TRUE].more = TRUE /\ [walk EXCEPT !.more = TRUE].cursor = walk.cursor
  BY <1>2 DEF IsWalk
<1>4. \A n \in steady : InList(walk, n) /\ Told(walk.seen, [walk EXCEPT !.more = TRUE], n)
  BY <1>2, <1>3 DEF FeedInv, Told
<1>5. steady' = steady /\ steady \in SUBSET Rows /\ InOrderOf(walk.seen, steady) /\ Passed(walk.seen, walk, steady)
  BY <1>1, <1>2 DEF FeedInv
<1> QED  BY <1>1, <1>2, <1>4, <1>5, QueryKeeps

LEMMA DeliverKeeps == ASSUME FeedInv, F!Deliver PROVE FeedInv'
<1> DEFINE arrived == {n \in walk.page : walk.reader = "agent" => table[n].visible}
           next == IF ~walk.more THEN "done" ELSE IF walk.cursor = <<>> THEN "lost" ELSE "ask"
           old == Append(walk.seen, walk.page)
           new == Append(walk.seen, arrived)
<1>1. /\ walk.pc = "page" /\ UNCHANGED <<table, clock, steady>>
      /\ walk' = [walk EXCEPT !.seen = new, !.page = {}, !.pc = next]
  BY DEF F!Deliver
<1>2. IsWalk(walk) /\ Shown = old /\ walk.seen \in Seq(SUBSET Rows) /\ walk.page \in SUBSET Rows
  BY <1>1 DEF FeedInv, Shown, IsWalk
<1>3. arrived \in SUBSET walk.page
  OBVIOUS
<1>4. \A n \in steady : n \in walk.page <=> n \in arrived
  BY DEF FeedInv, InList
<1> HIDE DEF arrived
<1>5. /\ new \in Seq(SUBSET Rows) /\ DOMAIN new = DOMAIN old
      /\ \A i \in DOMAIN new : new[i] \intersect steady = old[i] \intersect steady
  BY <1>2, <1>3, <1>4
<1> HIDE DEF old, new
<1>6. /\ IsWalk(walk') /\ walk'.seen = new /\ walk'.more = walk.more /\ walk'.cursor = walk.cursor
      /\ walk'.reader = walk.reader /\ walk'.filter = walk.filter /\ walk'.pc = next
  BY <1>1, <1>2, <1>5 DEF IsWalk
<1>7. Shown' = new
  BY <1>6 DEF Shown
<1>8. /\ \A n \in steady : Told(new, walk', n)
      /\ InOrderOf(new, steady) /\ Passed(new, walk', steady)
  <2>1. /\ \A n \in steady : Told(old, walk, n)
        /\ InOrderOf(old, steady) /\ Passed(old, walk, steady)
    BY <1>2 DEF FeedInv
  <2>2. \A n \in steady : Told(new, walk', n)
    BY <1>5, <1>6, <2>1 DEF Told
  <2>3. InOrderOf(new, steady)
    BY <1>5, <2>1, Zenon DEF InOrderOf
  <2>4. Passed(new, walk', steady)
    BY <1>5, <1>6, <2>1 DEF Passed
  <2> QED  BY <2>2, <2>3, <2>4
<1>9. /\ \A n \in steady' : Told(Shown, walk, n)'
      /\ InOrderOf(Shown, steady)' /\ Passed(Shown, walk, steady)'
  BY <1>1, <1>7, <1>8 DEF Told, InOrderOf, Passed, F!Beyond, F!Newer, F!Key
<1>10. /\ Dated' /\ clock' \in Nat /\ steady' \in SUBSET Rows
       /\ \A n \in steady' : InList(walk, n)'
  BY <1>1, <1>6 DEF FeedInv, Dated, InList
<1>11. /\ walk'.pc # "closed"
       /\ walk'.pc = "ask" => walk'.cursor # <<>>
       /\ walk'.pc = "done" => ~walk'.more
  BY <1>6
<1> QED  BY <1>6, <1>9, <1>10, <1>11 DEF FeedInv

(* What happens to a row takes it out of those that stand still. *)
LEMMA HappensKeeps ==
  ASSUME FeedInv, NEW n \in Rows, NEW row, F!Happens(n, row), row.at \in Nat, clock' \in Nat
  PROVE  FeedInv'
<1>1. /\ table' = [table EXCEPT ![n] = row] /\ steady' = steady \ {n} /\ walk' = walk
      /\ walk.pc \in {"page", "ask"}
  BY DEF F!Happens
<1>2. \A m \in Rows \ {n} : table'[m] = table[m]
  BY <1>1
<1>3. Dated'
  <2> SUFFICES ASSUME NEW m \in Rows PROVE table'[m].at \in Nat
    BY DEF Dated
  <2>1. CASE m = n
    <3>1. table'[n] = row \/ table'[n] = table[n]
      BY <1>1
    <3> QED  BY <2>1, <3>1 DEF FeedInv, Dated
  <2>2. CASE m # n
    BY <1>2, <2>2 DEF FeedInv, Dated
  <2> QED  BY <2>1, <2>2
<1>4. steady' \in SUBSET Rows /\ \A m \in steady' : m \in steady /\ m \in Rows /\ table'[m] = table[m]
  BY <1>1, <1>2 DEF FeedInv
<1>5. Shown' = Shown
  BY <1>1 DEF Shown
<1>6. \A m \in steady' : InList(walk, m)'
  BY <1>1, <1>4 DEF FeedInv, InList
<1>7. \A m \in steady' : F!Key(m)' = F!Key(m)
  BY <1>4 DEF F!Key
<1>8. \A m \in steady' : Told(Shown, walk, m)'
  BY <1>1, <1>4, <1>5, <1>7 DEF FeedInv, Told, F!Beyond
<1>9. InOrderOf(Shown, steady)'
  BY <1>1, <1>4, <1>5, <1>7 DEF FeedInv, InOrderOf, F!Newer
<1>10. Passed(Shown, walk, steady)'
  BY <1>1, <1>4, <1>5, <1>7 DEF FeedInv, Passed
<1>11. IsWalk(walk)'
  BY <1>1 DEF FeedInv, IsWalk
<1> QED  BY <1>1, <1>3, <1>4, <1>6, <1>8, <1>9, <1>10, <1>11 DEF FeedInv

LEMMA UpdateKeeps == ASSUME FeedInv, NEW n \in Rows, F!Update(n) PROVE FeedInv'
<1>1. PICK row \in F!Row, now \in {clock, clock + 1} :
        F!Happens(n, [row EXCEPT !.at = now]) /\ clock' = now
  BY DEF F!Update
<1>2. clock \in Nat /\ now \in Nat
  BY DEF FeedInv
<1>3. [row EXCEPT !.at = now].at = now
  BY DEF F!Row
<1> QED  BY <1>1, <1>2, <1>3, HappensKeeps

LEMMA MarkKeeps == ASSUME FeedInv, NEW n \in Rows, F!Mark(n) PROVE FeedInv'
<1>1. PICK what \in {"claimed", "gone", "visible"} : F!Happens(n, [table[n] EXCEPT ![what] = ~@])
  BY DEF F!Mark
<1>2. clock' = clock /\ clock \in Nat /\ table[n].at \in Nat
  BY DEF F!Mark, FeedInv, Dated
<1>3. [table[n] EXCEPT ![what] = ~@].at = table[n].at
  BY <1>1
<1> QED  BY <1>1, <1>2, <1>3, HappensKeeps

LEMMA FeedGoesOn == ASSUME FeedInv, F!Next PROVE FeedInv'
  BY OpenKeeps, DeliverKeeps, MoreKeeps, UpdateKeeps, MarkKeeps DEF F!Next

FeedHolds == scene = "feed" => FeedInv

LEMMA FeedStays == ASSUME FeedInv, UNCHANGED feedVars PROVE FeedInv'
  BY DEF feedVars, FeedInv, Dated, IsWalk, InList, Shown, Told, InOrderOf, Passed,
         F!Beyond, F!Newer, F!Key

LEMMA FeedForever == Spec => []FeedHolds
<1>1. Init => FeedHolds
  BY FeedStarts DEF Init, FeedHolds
<1>2. FeedHolds /\ [Next]_vars => FeedHolds'
  <2> SUFFICES ASSUME FeedHolds, [Next]_vars, scene' = "feed" PROVE FeedInv'
    BY DEF FeedHolds
  <2>1. CASE UNCHANGED vars
    <3>1. scene = "feed" /\ UNCHANGED feedVars
      BY <2>1 DEF vars
    <3> QED  BY <3>1, FeedStays DEF FeedHolds
  <2>2. CASE Next
    <3>1. scene = "feed" /\ F!Next
      BY <2>2 DEF Next
    <3> QED  BY <3>1, FeedGoesOn DEF FeedHolds
  <2> QED  BY <2>1, <2>2
<1> QED  BY <1>1, <1>2, PTL DEF Spec

-----------------------------------------------------------------------------
(* Theorems *)

(* Whatever models are brought in, measured again or purged, and however memory
   changes, a note is generated only by a model that is installed and that fits the
   memory its own call measured last (check_cycle_model, admit). *)
THEOREM ModelsAreReady == Spec => []ModelIsReady
<1>1. ModelHolds => ModelIsReady
  BY ModelMeaning DEF ModelHolds, ModelIsReady
<1> QED  BY <1>1, ModelForever, PTL

(* A save of the settings no other call overlapped, applied or rolled back at
   whatever point it failed, leaves one set of settings in the file, the console, the
   governor, the pipeline and the services (save_settings, _restore_live_settings). *)
THEOREM SavesAgree == Spec => []AloneAgrees
<1>1. SettingsHold => AloneAgrees
  BY SettingsMeaning DEF SettingsHold, AloneAgrees
<1> QED  BY <1>1, SettingsForever, PTL

(* Installing the demo leaves a person's notes alone, and says it was installed, or
   rolled back, only when it was, for demos of any length and any number of
   installations and crashes (install_demo_vault). *)
THEOREM DemoStaysHonest == Spec => []DemoIsHonest
<1>1. DemoHolds => DemoIsHonest
  BY DEF DemoHolds, DemoInv, DemoIsHonest
<1> QED  BY <1>1, DemoForever, PTL

(* A list read to its end has shown every row nothing happened to exactly once and in
   its order, for tables of any size, any pages, any changes meanwhile, and whoever
   reads: the window, the agent or the queue (list_feed, list_jobs). *)
THEOREM ListsAreComplete == Spec => []PagesAreComplete
<1>1. FeedHolds => PagesAreComplete
  BY FeedMeaning DEF FeedHolds, PagesAreComplete
<1> QED  BY <1>1, FeedForever, PTL

(* The window goes only when every change of the interface it was told of has been
   written, provided the bridge takes the page's calls up in the order they were
   made: any number of entries, changes, edits, refused writes and clicks
   (ui_state_pending_changed, set_ui_state, complete_pending_close, finish). *)
THEOREM AnnouncementsAreSaved == ASSUME InOrder PROVE Spec => []AnnouncedIsSaved
<1>1. WindowHolds => AnnouncedIsSaved
  BY WindowMeaning DEF WindowHolds, AnnouncedIsSaved
<1> QED  BY <1>1, WindowForever, PTL
=================================================================================
