--------------------------- MODULE LiveViewProofs ---------------------------
(***************************************************************************)
(* For any number of runs, channel sizes, loads, lost connections and      *)
(* moves of the user: the browser is told of every active run and of no    *)
(* other, but for what is on its way or was lost, and a list, a run's page *)
(* or a card that has heard everything shows the runs as they are stored.  *)
(***************************************************************************)
EXTENDS LiveView, FiniteSetTheorems, SequenceTheorems, TLAPS

-----------------------------------------------------------------------------
(* The inductive invariant.                                                *)

Fetches  == [newest : BOOLEAN, answer : {"unread", "fresh", "stale"}]
Lists    == [data : {"nothing", "fresh", "stale"}, error : BOOLEAN, sent : SUBSET Fetches, blind : BOOLEAN]
Streams  == [conn : {"closed", "subscribed", "open"}, q : Seq(Shown)]
Hooks    == [id : 0..BadId, conn : {"closed", "refused", "open"}, q : Seq(Shown),
             run : Shown \union {NoRun}, behind : BOOLEAN]
Initials == [loading : BOOLEAN, run : Shown \union {NoRun}, missing : BOOLEAN]

\* The server. The runs that have begun are the first ones, one of them active at most.
ServerInv ==
    /\ status \in [Runs -> Statuses] /\ unsent \subseteq Begun /\ stopAsked \subseteq Ongoing
    /\ \E n \in 0..MaxRun : Begun = 1..n
    /\ \A r, s \in Ongoing : r = s

\* The runs that the messages of a stream, or the rows of the list, are of.
Of(q) == {q[i].id : i \in DOMAIN q}

\* Each run has one row.
OneRowEach(s) == \A i, j \in DOMAIN s : s[i].id = s[j].id => i = j

\* The global stream tells of runs that have begun, and so do the rows, one each.
StreamInv ==
    /\ global \in Streams /\ (global.conn = "closed" => global.q = <<>>)
    /\ active \in Seq(Shown) /\ OneRowEach(active)
    /\ lost \subseteq Begun /\ Of(global.q) \union Of(active) \subseteq Begun

\* What the last message of a run tells, and what all of them tell.
EndsOver(q, r) ==
    \A i \in DOMAIN q : q[i].id = r /\ (\A j \in DOMAIN q : j > i => q[j].id # r) => ~isActive(q[i].status)
AllActive(q, r) == \A i \in DOMAIN q : q[i].id = r => isActive(q[i].status)

\* A run that is over, with nothing unsent or lost, is told to be over, or not listed.
OverTold(r) ==
    r \in Begun \ (Ongoing \union unsent \union lost) =>
        (r \in Of(active) => r \in Of(global.q)) /\ EndsOver(global.q, r)
\* An active run is told as nothing else, and to a browser that is connected.
ActiveTold(r) ==
    r \in Ongoing =>
        /\ AllActive(global.q, r)
        /\ global.conn = "open" => r \in Of(active) \union unsent \union Of(global.q) \union lost

ToldInv == \A r \in Runs : OverTold(r) /\ ActiveTold(r)

\* A hook that is not connected holds no message; only an address of no run is refused.
HookOK(h) == h \in Hooks /\ (h.conn # "open" => h.q = <<>>) /\ (h.conn = "refused" => h.id = BadId)

\* The browser's screens.
ScreenInv ==
    /\ HookOK(hook)
    /\ route \in 0..Activity /\ (route \in 1..BadId => hook.id = route)
    /\ initial \in Initials /\ (route \notin 1..BadId => initial = NoInitial)
    /\ ask \in BOOLEAN /\ starting \in BOOLEAN /\ (starting => ask) /\ (route # Jobs => ~starting)
    /\ breaks \in 0..MaxBreaks /\ visits \in 0..MaxVisits

\* What a run's own stream told last, or is about to.
LastTold(h) == IF h.q = <<>> THEN h.run ELSE h.q[Len(h.q)]

\* A stream that fell not behind was told of its run last as it is stored.
HookTold ==
    hook.conn = "open" =>
        hook.id \in Begun /\ (~hook.behind /\ hook.id \notin unsent => LastTold(hook) = Record(hook.id))

\* The user is at a run only when it has begun; the card follows the first active run.
WhereInv ==
    /\ route \in Runs => route \in Begun
    /\ initial.missing => route = BadId
    /\ route = Jobs => hook.id = activeRun.id

\* What the list screen holds: of its loads one at most is the newest, and it shows
\* nothing only while it loads or after a load that failed.
ListOK(l) ==
    /\ l \in Lists /\ \A f, h \in l.sent : f.newest /\ h.newest => f = h
    /\ l.data = "nothing" => loading(l) \/ l.error
\* What it shows, and what the newest load brings, is so.
ListTrue(l) ==
    /\ l.data = "stale" => loading(l) \/ l.error
    /\ \A f \in l.sent : f.newest => f.answer # "stale"

\* A list that shows what is no longer so, and is not being loaded, missed an
\* event or is about to be told.
AboutToBeTold == list.blind \/ unsent # {} \/ global.q # <<>>
ListInv == IF route = Activity THEN ListOK(list) /\ (AboutToBeTold \/ ListTrue(list)) ELSE list = NoList

IInv == ServerInv /\ StreamInv /\ ToldInv /\ ScreenInv /\ HookTold /\ WhereInv /\ ListInv

-----------------------------------------------------------------------------
(* Sequences of messages and rows.                                          *)

\* The bounds are numbers, and the screens are apart from the runs.
LEMMA Numbers ==
    /\ MaxRun \in Nat \ {0} /\ Buffer \in Nat \ {0} /\ MaxBreaks \in Nat /\ MaxVisits \in Nat
    /\ Runs = 1..MaxRun /\ BadId = MaxRun + 1 /\ Activity = MaxRun + 2 /\ Jobs = 0
BY BoundsAreNat DEF Runs, BadId, Activity, Jobs

\* A message is added at the end.
LEMMA Added ==
    ASSUME NEW q \in Seq(Shown), NEW m \in Shown, NEW t, t = Append(q, m)
    PROVE  /\ t \in Seq(Shown) /\ t # <<>> /\ Of(t) = Of(q) \union {m.id}
           /\ \A r : AllActive(q, r) /\ (m.id = r => isActive(m.status)) => AllActive(t, r)
           /\ \A r : m.id # r /\ EndsOver(q, r) => EndsOver(t, r)
           /\ ~isActive(m.status) => EndsOver(t, m.id)
<1>1. /\ Len(q) \in Nat /\ DOMAIN q = 1..Len(q)
      /\ t \in Seq(Shown) /\ t # <<>> /\ DOMAIN t = 1..(Len(q) + 1)
      /\ \A i \in 1..Len(q) : t[i] = q[i]
      /\ t[Len(q) + 1] = m
  BY LenProperties, AppendProperties
<1>2. Of(t) = Of(q) \union {m.id}
  <2>1. ASSUME NEW i \in DOMAIN t PROVE t[i].id \in Of(q) \union {m.id}
    <3>1. CASE i = Len(q) + 1
      BY <1>1, <3>1
    <3>2. CASE i # Len(q) + 1
      <4>1. i \in DOMAIN q /\ t[i] = q[i]
        BY <1>1, <3>2
      <4>2. QED
        BY <4>1 DEF Of
    <3>3. QED
      BY <3>1, <3>2
  <2>2. ASSUME NEW i \in DOMAIN q PROVE q[i].id \in Of(t)
    BY <1>1 DEF Of
  <2>3. m.id \in Of(t)
    BY <1>1 DEF Of
  <2>4. QED
    BY <2>1, <2>2, <2>3 DEF Of
<1>3. ASSUME NEW r, AllActive(q, r), m.id = r => isActive(m.status) PROVE AllActive(t, r)
  BY <1>1, <1>3 DEF AllActive
<1>4. ASSUME NEW r, m.id # r, EndsOver(q, r) PROVE EndsOver(t, r)
  <2>1. SUFFICES ASSUME NEW i \in DOMAIN t, t[i].id = r, \A j \in DOMAIN t : j > i => t[j].id # r
                 PROVE  ~isActive(t[i].status)
    BY DEF EndsOver
  <2>2. i \in DOMAIN q /\ t[i] = q[i]
    BY <1>1, <1>4, <2>1
  <2>3. \A j \in DOMAIN q : j > i => q[j].id # r
    BY <1>1, <2>1
  <2>4. QED
    BY <1>4, <2>1, <2>2, <2>3 DEF EndsOver
<1>5. ASSUME ~isActive(m.status) PROVE EndsOver(t, m.id)
  <2>1. SUFFICES ASSUME NEW i \in DOMAIN t, t[i].id = m.id, \A j \in DOMAIN t : j > i => t[j].id # m.id
                 PROVE  ~isActive(t[i].status)
    BY DEF EndsOver
  <2>2. i = Len(q) + 1
    BY <1>1, <2>1
  <2>3. QED
    BY <1>1, <1>5, <2>2
<1>6. QED
  BY <1>1, <1>2, <1>3, <1>4, <1>5

\* The first message is taken.
LEMMA Taken ==
    ASSUME NEW q \in Seq(Shown), q # <<>>, NEW m, m = Head(q), NEW t, t = Tail(q)
    PROVE  /\ t \in Seq(Shown) /\ m \in Shown /\ Of(q) = Of(t) \union {m.id}
           /\ \A r : AllActive(q, r) => AllActive(t, r) /\ (m.id = r => isActive(m.status))
           /\ \A r : EndsOver(q, r) => EndsOver(t, r)
           /\ EndsOver(q, m.id) /\ m.id \notin Of(t) => ~isActive(m.status)
<1>1. /\ Len(q) \in Nat \ {0} /\ DOMAIN q = 1..Len(q) /\ q[1] = m /\ m \in Shown
      /\ t \in Seq(Shown) /\ DOMAIN t = 1..(Len(q) - 1)
      /\ \A i \in 1..(Len(q) - 1) : t[i] = q[i + 1]
  <2>1. Len(q) \in Nat \ {0} /\ DOMAIN q = 1..Len(q) /\ q[1] = m
    BY EmptySeq, LenProperties
  <2>2. t \in Seq(Shown) /\ Len(t) = Len(q) - 1 /\ m \in Shown /\ \A i \in 1..Len(t) : t[i] = q[i + 1]
    BY HeadTailProperties
  <2>3. QED
    BY <2>1, <2>2, LenProperties
<1>2. \A i \in DOMAIN t : i + 1 \in DOMAIN q /\ t[i] = q[i + 1]
  BY <1>1
<1>3. \A i \in DOMAIN q : i = 1 \/ (i - 1 \in DOMAIN t /\ t[i - 1] = q[i])
  <2>1. SUFFICES ASSUME NEW i \in DOMAIN q, i # 1 PROVE i - 1 \in DOMAIN t /\ t[i - 1] = q[i]
    OBVIOUS
  <2>2. i - 1 \in 1..(Len(q) - 1) /\ (i - 1) + 1 = i
    BY <1>1, <2>1
  <2>3. QED
    BY <1>1, <2>2
<1>4. Of(q) = Of(t) \union {m.id}
  <2>1. ASSUME NEW i \in DOMAIN q PROVE q[i].id \in Of(t) \union {m.id}
    BY <1>1, <1>3 DEF Of
  <2>2. ASSUME NEW i \in DOMAIN t PROVE t[i].id \in Of(q)
    BY <1>2 DEF Of
  <2>3. m.id \in Of(q)
    BY <1>1 DEF Of
  <2>4. QED
    BY <2>1, <2>2, <2>3 DEF Of
<1>5. ASSUME NEW r, AllActive(q, r) PROVE AllActive(t, r) /\ (m.id = r => isActive(m.status))
  BY <1>1, <1>2, <1>5 DEF AllActive
<1>6. ASSUME NEW r, EndsOver(q, r) PROVE EndsOver(t, r)
  <2>1. SUFFICES ASSUME NEW i \in DOMAIN t, t[i].id = r, \A j \in DOMAIN t : j > i => t[j].id # r
                 PROVE  ~isActive(t[i].status)
    BY DEF EndsOver
  <2>2. i + 1 \in DOMAIN q /\ t[i] = q[i + 1]
    BY <1>2
  <2>3. ASSUME NEW j \in DOMAIN q, j > i + 1 PROVE q[j].id # r
    <3>1. j - 1 \in DOMAIN t /\ t[j - 1] = q[j] /\ j - 1 > i
      BY <1>1, <1>3, <2>3
    <3>2. QED
      BY <2>1, <3>1
  <2>4. QED
    BY <1>6, <2>1, <2>2, <2>3 DEF EndsOver
<1>7. ASSUME EndsOver(q, m.id), m.id \notin Of(t) PROVE ~isActive(m.status)
  <2>1. ASSUME NEW j \in DOMAIN q, j > 1 PROVE q[j].id # m.id
    <3>1. j - 1 \in DOMAIN t /\ t[j - 1] = q[j]
      BY <1>1, <1>3, <2>1
    <3>2. t[j - 1].id # m.id
      BY <1>7, <3>1 DEF Of
    <3>3. QED
      BY <3>1, <3>2
  <2>2. QED
    BY <1>1, <1>7, <2>1 DEF EndsOver
<1>8. QED
  BY <1>1, <1>4, <1>5, <1>6, <1>7

\* A message is written before those that wait.
LEMMA WrittenFirst ==
    ASSUME NEW q \in Seq(Shown), NEW m \in Shown, NEW t, t = <<m>> \o q
    PROVE  /\ t \in Seq(Shown) /\ t # <<>> /\ Of(t) = Of(q) \union {m.id}
           /\ \A r : AllActive(q, r) /\ (m.id = r => isActive(m.status)) => AllActive(t, r)
           /\ \A r : m.id # r /\ EndsOver(q, r) => EndsOver(t, r)
<1>1. /\ Len(q) \in Nat /\ DOMAIN q = 1..Len(q) /\ t[1] = m
      /\ t \in Seq(Shown) /\ DOMAIN t = 1..(Len(q) + 1)
      /\ \A i \in 1..Len(q) : t[i + 1] = q[i]
  <2>1. <<m>> \in Seq(Shown) /\ Len(<<m>>) = 1 /\ <<m>>[1] = m
    OBVIOUS
  <2>2. PICK e \in Seq(Shown) : e = <<m>> /\ Len(e) = 1 /\ e[1] = m
    BY <2>1
  <2>3. /\ t \in Seq(Shown) /\ Len(t) = Len(e) + Len(q)
        /\ \A i \in 1 .. Len(e) + Len(q) : t[i] = IF i <= Len(e) THEN e[i] ELSE q[i - Len(e)]
    BY <2>2, ConcatProperties
  <2>4. Len(q) \in Nat /\ DOMAIN q = 1..Len(q) /\ DOMAIN t = 1..Len(t)
    BY <2>3, LenProperties
  <2>5. QED
    BY <2>2, <2>3, <2>4
<1>2. \A i \in DOMAIN q : i + 1 \in DOMAIN t /\ t[i + 1] = q[i]
  BY <1>1
<1>3. \A i \in DOMAIN t : i = 1 \/ (i - 1 \in DOMAIN q /\ q[i - 1] = t[i])
  <2>1. SUFFICES ASSUME NEW i \in DOMAIN t, i # 1 PROVE i - 1 \in DOMAIN q /\ q[i - 1] = t[i]
    OBVIOUS
  <2>2. i - 1 \in 1..Len(q) /\ (i - 1) + 1 = i
    BY <1>1, <2>1
  <2>3. QED
    BY <1>1, <2>2
<1>4. Of(t) = Of(q) \union {m.id}
  <2>1. ASSUME NEW i \in DOMAIN t PROVE t[i].id \in Of(q) \union {m.id}
    BY <1>1, <1>3 DEF Of
  <2>2. ASSUME NEW i \in DOMAIN q PROVE q[i].id \in Of(t)
    BY <1>2 DEF Of
  <2>3. m.id \in Of(t)
    BY <1>1 DEF Of
  <2>4. QED
    BY <2>1, <2>2, <2>3 DEF Of
<1>5. ASSUME NEW r, AllActive(q, r), m.id = r => isActive(m.status) PROVE AllActive(t, r)
  BY <1>1, <1>3, <1>5 DEF AllActive
<1>6. ASSUME NEW r, m.id # r, EndsOver(q, r) PROVE EndsOver(t, r)
  <2>1. SUFFICES ASSUME NEW i \in DOMAIN t, t[i].id = r, \A j \in DOMAIN t : j > i => t[j].id # r
                 PROVE  ~isActive(t[i].status)
    BY DEF EndsOver
  <2>2. i - 1 \in DOMAIN q /\ q[i - 1] = t[i]
    BY <1>1, <1>3, <1>6, <2>1
  <2>3. ASSUME NEW j \in DOMAIN q, j > i - 1 PROVE q[j].id # r
    <3>1. j + 1 \in DOMAIN t /\ t[j + 1] = q[j]
      BY <1>2
    <3>2. i \in Int /\ j \in Int
      BY <1>1
    <3>3. j + 1 > i
      BY <2>3, <3>2
    <3>4. QED
      BY <2>1, <3>1, <3>3
  <2>4. QED
    BY <1>6, <2>1, <2>2, <2>3 DEF EndsOver
<1>7. t # <<>>
  BY <1>1
<1>8. QED
  BY <1>1, <1>4, <1>5, <1>6, <1>7

\* Nothing is of nobody.
LEMMA NothingWaits ==
    /\ <<>> \in Seq(Shown) /\ Of(<<>>) = {} /\ \A r : AllActive(<<>>, r) /\ EndsOver(<<>>, r)
    /\ \A q \in Seq(Shown) : <<>> \o q = q /\ (Of(q) = {} => q = <<>>)
<1>1. <<>> \in Seq(Shown) /\ DOMAIN <<>> = {}
  BY EmptySeq
<1>2. ASSUME NEW q \in Seq(Shown), Of(q) = {} PROVE q = <<>>
  <2>1. q # <<>> => Len(q) \in Nat \ {0} /\ DOMAIN q = 1..Len(q)
    BY EmptySeq, LenProperties
  <2>2. q # <<>> => 1 \in DOMAIN q
    BY <2>1
  <2>3. QED
    BY <1>2, <2>2 DEF Of
<1>3. QED
  BY <1>1, <1>2, ConcatEmptySeq DEF Of, AllActive, EndsOver

-----------------------------------------------------------------------------
(* The rows of the list.                                                    *)

\* The rows other than one run's, in their order, are there to choose.
LEMMA RestIsThere ==
    ASSUME NEW s \in Seq(Shown), OneRowEach(s), NEW id, NEW kept, kept = {i \in DOMAIN s : s[i].id # id}
    PROVE  /\ IsFiniteSet(kept) /\ Cardinality(kept) \in Nat
           /\ \E f \in [1..Cardinality(kept) -> kept] : \A i, j \in DOMAIN f : i < j => f[i] < f[j]
<1>1. Len(s) \in Nat /\ DOMAIN s = 1..Len(s)
  BY LenProperties
<1>2. IsFiniteSet(1..Len(s)) /\ Cardinality(1..Len(s)) = Len(s)
  BY <1>1, FS_Interval
<1>3. CASE \A i \in DOMAIN s : s[i].id # id
  <2>1. kept = 1..Len(s)
    BY <1>1, <1>3
  <2>2. PICK f : f = [i \in 1..Len(s) |-> i]
    OBVIOUS
  <2>3. f \in [1..Cardinality(kept) -> kept] /\ \A i, j \in DOMAIN f : i < j => f[i] < f[j]
    BY <1>2, <2>1, <2>2
  <2>4. QED
    BY <1>1, <1>2, <2>1, <2>3
<1>4. CASE ~(\A i \in DOMAIN s : s[i].id # id)
  <2>1. PICK k \in DOMAIN s : s[k].id = id
    BY <1>4
  <2>2. kept = (1..Len(s)) \ {k}
    BY <1>1, <2>1 DEF OneRowEach
  <2>3. IsFiniteSet(kept) /\ Cardinality(kept) = Len(s) - 1 /\ Len(s) - 1 \in Nat
    <3>1. k \in 1..Len(s) /\ Len(s) - 1 \in Nat
      BY <1>1, <2>1
    <3>2. PICK all : all = 1..Len(s)
      OBVIOUS
    <3>3. IsFiniteSet(all \ {k}) /\ Cardinality(all \ {k}) = Cardinality(all) - 1
      BY <1>2, <3>1, <3>2, FS_RemoveElement
    <3>4. QED
      BY <1>2, <2>2, <3>1, <3>2, <3>3
  <2>4. PICK f : f = [i \in 1..(Len(s) - 1) |-> IF i < k THEN i ELSE i + 1]
    OBVIOUS
  <2>5. k \in Int
    BY <1>1, <2>1
  <2>6. ASSUME NEW i \in 1..(Len(s) - 1) PROVE f[i] \in kept
    BY <1>1, <2>2, <2>4, <2>5
  <2>7. ASSUME NEW i \in 1..(Len(s) - 1), NEW j \in 1..(Len(s) - 1), i < j PROVE f[i] < f[j]
    BY <1>1, <2>4, <2>5, <2>7
  <2>8. DOMAIN f = 1..(Len(s) - 1) /\ f \in [1..Cardinality(kept) -> kept]
    BY <2>3, <2>4, <2>6
  <2>9. QED
    BY <2>3, <2>7, <2>8
<1>5. QED
  BY <1>3, <1>4

\* Without one run, the rows are those of the other runs.
LEMMA Dropped ==
    ASSUME NEW s \in Seq(Shown), OneRowEach(s), NEW id, NEW t, t = Without(s, id)
    PROVE  t \in Seq(Shown) /\ OneRowEach(t) /\ Of(t) = Of(s) \ {id}
<1>1. PICK kept : kept = {i \in DOMAIN s : s[i].id # id}
  OBVIOUS
<1>2. PICK n : n = Cardinality(kept)
  OBVIOUS
<1>3. IsFiniteSet(kept) /\ n \in Nat /\ \E f \in [1..n -> kept] : \A i, j \in DOMAIN f : i < j => f[i] < f[j]
  BY <1>1, <1>2, RestIsThere
<1>4. PICK at : /\ at \in [1..n -> kept] /\ \A i, j \in DOMAIN at : i < j => at[i] < at[j]
                /\ t = [i \in DOMAIN at |-> s[at[i]]]
  <2>1. PICK at : at = CHOOSE f \in [1..n -> kept] : \A i, j \in DOMAIN f : i < j => f[i] < f[j]
    OBVIOUS
  <2>2. at \in [1..n -> kept] /\ \A i, j \in DOMAIN at : i < j => at[i] < at[j]
    BY <1>3, <2>1
  <2>3. t = [i \in DOMAIN at |-> s[at[i]]]
    BY <1>1, <1>2, <2>1 DEF Without
  <2>4. QED
    BY <2>2, <2>3
<1>5. DOMAIN at = 1..n /\ DOMAIN t = 1..n /\ Len(s) \in Nat /\ DOMAIN s = 1..Len(s) /\ kept \subseteq 1..Len(s)
  BY <1>1, <1>4, LenProperties
<1>6. \A i, j \in 1..n : at[i] = at[j] => i = j
  <2>1. SUFFICES ASSUME NEW i \in 1..n, NEW j \in 1..n, i # j PROVE at[i] # at[j]
    OBVIOUS
  <2>2. at[i] \in Int /\ at[j] \in Int
    <3>1. at[i] \in kept /\ at[j] \in kept
      BY <1>4
    <3>2. at[i] \in 1..Len(s) /\ at[j] \in 1..Len(s)
      BY <1>5, <3>1
    <3>3. QED
      BY <1>5, <3>2
  <2>3. i < j \/ j < i
    BY <1>3, <2>1
  <2>4. at[i] < at[j] \/ at[j] < at[i]
    BY <1>4, <1>5, <2>3
  <2>5. QED
    BY <2>2, <2>4
<1>7. \A k \in kept : \E i \in 1..n : at[i] = k
  <2>1. at \in Injection(1..n, kept)
    BY <1>4, <1>6 DEF Injection, IsInjective
  <2>2. Cardinality(1..n) = n
    BY <1>3, FS_Interval
  <2>3. at \in Surjection(1..n, kept)
    BY <1>2, <1>3, <2>1, <2>2, FS_Injection
  <2>4. QED
    BY <2>3 DEF Surjection
<1>8. t \in Seq(Shown)
  <2>1. \A i \in 1..n : t[i] \in Shown
    BY <1>4, <1>5, ElementOfSeq
  <2>2. t \in [1..n -> Shown]
    BY <1>4, <1>5, <2>1
  <2>3. QED
    BY <1>3, <2>2, SeqDef
<1>9. OneRowEach(t)
  <2>1. SUFFICES ASSUME NEW i \in 1..n, NEW j \in 1..n, t[i].id = t[j].id PROVE i = j
    BY <1>5 DEF OneRowEach
  <2>2. at[i] \in DOMAIN s /\ at[j] \in DOMAIN s /\ t[i] = s[at[i]] /\ t[j] = s[at[j]]
    BY <1>4, <1>5
  <2>3. at[i] = at[j]
    BY <2>1, <2>2 DEF OneRowEach
  <2>4. QED
    BY <1>6, <2>3
<1>10. Of(t) = Of(s) \ {id}
  <2>1. ASSUME NEW i \in DOMAIN t PROVE t[i].id \in Of(s) /\ t[i].id # id
    <3>1. at[i] \in kept /\ t[i] = s[at[i]]
      BY <1>4, <1>5, <2>1
    <3>2. QED
      BY <1>1, <3>1 DEF Of
  <2>2. ASSUME NEW k \in DOMAIN s, s[k].id # id PROVE s[k].id \in Of(t)
    <3>1. PICK i \in 1..n : at[i] = k
      BY <1>1, <1>7, <2>2
    <3>2. i \in DOMAIN t /\ t[i] = s[k]
      BY <1>4, <1>5, <3>1
    <3>3. QED
      BY <3>2 DEF Of
  <2>3. QED
    BY <2>1, <2>2 DEF Of
<1>11. QED
  BY <1>8, <1>9, <1>10

\* A message gives its run a row if it is active, and takes it away if it is over.
LEMMA Merged ==
    ASSUME NEW s \in Seq(Shown), OneRowEach(s), NEW m \in Shown, NEW t, t = Merge(s, m)
    PROVE  /\ t \in Seq(Shown) /\ OneRowEach(t)
           /\ Of(t) = IF isActive(m.status) THEN Of(s) \union {m.id} ELSE Of(s) \ {m.id}
<1>1. PICK w : w = Without(s, m.id)
  OBVIOUS
<1>2. w \in Seq(Shown) /\ OneRowEach(w) /\ Of(w) = Of(s) \ {m.id}
  BY <1>1, Dropped
<1>3. CASE isActive(m.status)
  <2>1. t = Append(w, m)
    BY <1>1, <1>3 DEF Merge
  <2>2. t \in Seq(Shown) /\ Of(t) = Of(w) \union {m.id}
    BY <1>2, <2>1, Added
  <2>3. /\ Len(w) \in Nat /\ DOMAIN w = 1..Len(w) /\ DOMAIN t = 1..(Len(w) + 1)
        /\ (\A i \in 1..Len(w) : t[i] = w[i]) /\ t[Len(w) + 1] = m
    BY <1>2, <2>1, LenProperties, AppendProperties
  <2>4. \A i \in DOMAIN t : (i \in DOMAIN w /\ t[i] = w[i] /\ t[i].id # m.id) \/ (i = Len(w) + 1 /\ t[i].id = m.id)
    <3>1. SUFFICES ASSUME NEW i \in DOMAIN t, i # Len(w) + 1
                   PROVE  i \in DOMAIN w /\ t[i] = w[i] /\ t[i].id # m.id
      BY <2>3
    <3>2. i \in DOMAIN w /\ t[i] = w[i]
      BY <2>3, <3>1
    <3>3. w[i].id # m.id
      BY <1>2, <3>2 DEF Of
    <3>4. QED
      BY <3>2, <3>3
  <2>5. OneRowEach(t)
    BY <1>2, <2>4 DEF OneRowEach
  <2>6. QED
    BY <1>2, <1>3, <2>2, <2>5
<1>4. CASE ~isActive(m.status)
  BY <1>1, <1>2, <1>4 DEF Merge
<1>5. QED
  BY <1>3, <1>4

\* So the badge counts runs.
LEMMA BadgeCountsRuns ==
    ASSUME active \in Seq(Shown), OneRowEach(active)
    PROVE  RunningCount = Cardinality(ActiveRows)
<1>1. Len(active) \in Nat /\ DOMAIN active = 1..Len(active)
  BY LenProperties
<1>2. PICK f : f = [i \in 1..Len(active) |-> active[i].id]
  OBVIOUS
<1>3. f \in [1..Len(active) -> ActiveRows]
  BY <1>1, <1>2 DEF ActiveRows
<1>4. \A i, j \in 1..Len(active) : f[i] = f[j] => i = j
  BY <1>1, <1>2 DEF OneRowEach
<1>5. \A r \in ActiveRows : \E i \in 1..Len(active) : f[i] = r
  BY <1>1, <1>2 DEF ActiveRows
<1>6. f \in Bijection(1..Len(active), ActiveRows)
  BY <1>3, <1>4, <1>5 DEF Bijection, Injection, IsInjective, Surjection
<1>7. IsFiniteSet(1..Len(active)) /\ Cardinality(1..Len(active)) = Len(active)
  BY <1>1, FS_Interval
<1>8. Cardinality(ActiveRows) = Len(active)
  BY <1>6, <1>7, FS_Bijection DEF ExistsBijection
<1>9. QED
  BY <1>8 DEF RunningCount

-----------------------------------------------------------------------------
(* The runs: at most one is active, and the begun ones are the first.       *)

\* The next run is one that has not begun, and then the only active one.
LEMMA Begins ==
    ASSUME ServerInv, CanBegin, Begin
    PROVE  /\ status' \in [Runs -> Statuses] /\ Upcoming \in Runs /\ Upcoming \notin Begun
           /\ Begun' = Begun \union {Upcoming} /\ Ongoing' = {Upcoming} /\ Ongoing = {}
           /\ \E n \in 0..MaxRun : Begun' = 1..n
           /\ unsent' = unsent \union {Upcoming}
<1>1. PICK n \in 0..MaxRun : Begun = 1..n
  BY DEF ServerInv
<1>2. MaxRun \in Nat /\ n \in Nat
  BY <1>1, Numbers
<1>3. Cardinality(Begun) = n
  BY <1>1, <1>2, FS_Interval
<1>4. Upcoming = n + 1 /\ Upcoming \in Runs /\ n + 1 \in 0..MaxRun
  BY <1>2, <1>3, Numbers DEF Upcoming, CanBegin
<1>5. Upcoming \notin Begun
  BY <1>1, <1>2, <1>4
<1>6. PICK u : u = Upcoming
  OBVIOUS
<1>7. status' = [status EXCEPT ![u] = "running"] /\ u \in Runs /\ status \in [Runs -> Statuses]
  BY <1>4, <1>6 DEF Begin, ServerInv
<1>8. status' \in [Runs -> Statuses] /\ \A r \in Runs : status'[r] = IF r = u THEN "running" ELSE status[r]
  BY <1>7 DEF Statuses
<1>9. Ongoing = {}
  BY DEF CanBegin
<1>10. Ongoing' = {u}
  BY <1>7, <1>8, <1>9 DEF Ongoing, isActive
<1>11. Begun' = Begun \union {u}
  BY <1>7, <1>8 DEF Begun
<1>12. Begun' = 1..(n + 1)
  BY <1>1, <1>2, <1>4, <1>6, <1>11
<1>13. QED
  BY <1>4, <1>5, <1>6, <1>8, <1>9, <1>10, <1>11, <1>12 DEF Begin

\* A run that ends has begun and is active no more.
LEMMA Ends ==
    ASSUME ServerInv, NEW r \in Runs, Finalize(r)
    PROVE  /\ status' \in [Runs -> Statuses] /\ r \in Ongoing
           /\ Begun' = Begun /\ Ongoing' = Ongoing \ {r} /\ unsent' = unsent \union {r}
<1>1. PICK s : s \in Terminal /\ status' = [status EXCEPT ![r] = s]
  <2>1. status' = [status EXCEPT ![r] = IF r \in stopAsked THEN "canceled" ELSE "success"]
    BY DEF Finalize
  <2>2. QED
    BY <2>1 DEF Terminal
<1>2. status \in [Runs -> Statuses] /\ s \in Statuses /\ s # "none" /\ s # "running"
  BY <1>1 DEF ServerInv, Statuses, Terminal
<1>3. status' \in [Runs -> Statuses] /\ \A x \in Runs : status'[x] = IF x = r THEN s ELSE status[x]
  BY <1>1, <1>2
<1>4. r \in Ongoing /\ r \in Begun
  BY DEF Finalize, Ongoing, Begun, isActive
<1>5. Begun' = Begun
  BY <1>2, <1>3, <1>4 DEF Begun
<1>6. Ongoing' = Ongoing \ {r}
  BY <1>2, <1>3, <1>4 DEF Ongoing, isActive
<1>7. QED
  BY <1>3, <1>4, <1>5, <1>6 DEF Finalize

\* A restart leaves no run active.
LEMMA Interrupts ==
    ASSUME ServerInv, Restart
    PROVE  status' \in [Runs -> Statuses] /\ Begun' = Begun /\ Ongoing' = {}
<1>1. status \in [Runs -> Statuses] /\ status' = [r \in Runs |-> IF r \in Ongoing THEN "interrupted" ELSE status[r]]
  BY DEF ServerInv, Restart
<1>2. \A r \in Runs : status'[r] = IF isActive(status[r]) THEN "interrupted" ELSE status[r]
  BY <1>1 DEF Ongoing
<1>3. status' \in [Runs -> Statuses]
  BY <1>1 DEF Statuses, Terminal
<1>4. QED
  BY <1>2, <1>3 DEF Begun, Ongoing, isActive

\* What is active has begun.
LEMMA ActiveHasBegun == Ongoing \subseteq Begun /\ Begun \subseteq Runs
BY DEF Ongoing, Begun, isActive

\* The record of a run, as it is written to a stream.
LEMMA Recorded ==
    ASSUME ServerInv, NEW r \in Runs
    PROVE  Record(r) \in Shown /\ Record(r).id = r /\ (isActive(Record(r).status) <=> r \in Ongoing)
BY DEF ServerInv, Record, Shown, Ongoing

\* While no run begins, ends or is published, nor is stopped, the server stays as it is.
LEMMA ServerStays ==
    ASSUME ServerInv, UNCHANGED status, unsent' \subseteq unsent, UNCHANGED stopAsked
    PROVE  ServerInv' /\ Begun' = Begun /\ Ongoing' = Ongoing
<1>1. Begun' = Begun /\ Ongoing' = Ongoing
  BY DEF Begun, Ongoing
<1>2. QED
  BY <1>1 DEF ServerInv

\* Every step keeps the server in order.
LEMMA ServerStep_ServerInv == ServerInv /\ [Next]_vars => ServerInv'
<1> SUFFICES ASSUME ServerInv, [Next]_vars PROVE ServerInv'
  OBVIOUS
<1>1. ASSUME CanBegin, Begin, UNCHANGED stopAsked PROVE ServerInv'
  <2>1. stopAsked = {} /\ stopAsked' = {}
    BY <1>1 DEF ServerInv, CanBegin
  <2>2. unsent \subseteq Begun
    BY DEF ServerInv
  <2>3. QED
    BY <1>1, <2>1, <2>2, Begins DEF ServerInv
<1>2. CASE ScheduledRun
  BY <1>1, <1>2 DEF ScheduledRun
<1>3. CASE Restart
  BY <1>3, Interrupts DEF Restart, ServerInv
<1>4. ASSUME NEW r \in Runs, Finalize(r) PROVE ServerInv'
  <2>1. stopAsked' = stopAsked \ {r}
    BY <1>4 DEF Finalize
  <2>2. QED
    BY <1>4, <2>1, Ends, ActiveHasBegun DEF ServerInv
<1>5. ASSUME NEW r \in Runs, Publish(r) PROVE ServerInv'
  BY <1>5, ServerStays DEF Publish
<1>6. CASE StreamStep
  BY <1>6, ServerStays DEF StreamStep, server, GlobalConnect, GlobalSnapshot, GlobalDeliver, GlobalBreak,
       HookConnect, HookRefused, HookDeliver, HookBreak
<1>7. CASE LoadStep
  BY <1>7, ServerStays DEF LoadStep, server, ListRead, ListArrives, ListFails, InitialLoaded, InitialFails
<1>8. ASSUME NEW r, Visit(r) PROVE ServerInv'
  BY <1>8, ServerStays DEF Visit, server
<1>9. CASE RunNow
  BY <1>9, ServerStays DEF RunNow, server
<1>10. CASE RunAnswered
  <2>1. CASE CanBegin /\ Begin /\ GoTo(Upcoming)
    BY <1>1, <1>10, <2>1 DEF RunAnswered
  <2>2. CASE Ongoing # {} /\ UNCHANGED <<status, unsent>>
    BY <1>10, <2>2, ServerStays DEF RunAnswered
  <2>3. QED
    BY <1>10, <2>1, <2>2 DEF RunAnswered
<1>11. CASE Stop
  <2>1. UNCHANGED <<status, unsent>> /\ stopAsked' \subseteq Ongoing
    BY <1>11 DEF Stop, ServerInv
  <2>2. Begun' = Begun /\ Ongoing' = Ongoing
    BY <2>1 DEF Begun, Ongoing
  <2>3. QED
    BY <2>1, <2>2 DEF ServerInv
<1>12. CASE UNCHANGED vars
  BY <1>12, ServerStays DEF vars, server
<1>13. QED
  BY <1>2, <1>3, <1>4, <1>5, <1>6, <1>7, <1>8, <1>9, <1>10, <1>11, <1>12 DEF Next, ServerStep, UserStep

-----------------------------------------------------------------------------
(* The global stream.                                                       *)

\* What the stream and the badge are told.
TellInv == StreamInv /\ ToldInv

\* The history's names for who is told of.
LEMMA SameNames == Queued = Of(global.q) /\ ActiveRows = Of(active)
BY DEF Queued, ActiveRows, Of

\* A stream is its connection and its messages; a closed one has none.
LEMMA StreamFields ==
    /\ \A s \in Streams : s = [conn |-> s.conn, q |-> s.q] /\ s.q \in Seq(Shown)
    /\ Closed \in Streams /\ Closed.conn = "closed" /\ Closed.q = <<>>
BY NothingWaits DEF Streams, Closed

\* As long as no run begins or ends and nothing is sent, what was told stays told.
LEMMA ToldStays ==
    ASSUME TellInv, UNCHANGED <<status, unsent, global, active, lost>> PROVE TellInv'
<1>1. Begun' = Begun /\ Ongoing' = Ongoing
  BY DEF Begun, Ongoing
<1>2. StreamInv'
  BY <1>1 DEF TellInv, StreamInv
<1>3. ToldInv'
  BY <1>1 DEF TellInv, ToldInv, OverTold, ActiveTold
<1>4. QED
  BY <1>2, <1>3 DEF TellInv

\* A run that begins is still to be published, and no message is of it.
LEMMA TellBegin ==
    ASSUME ServerInv, TellInv, CanBegin, Begin, UNCHANGED <<global, active, lost>> PROVE TellInv'
<1>1. PICK u : u = Upcoming
  OBVIOUS
<1>2. /\ u \in Runs \ Begun /\ Begun' = Begun \union {u} /\ Ongoing' = {u} /\ Ongoing = {}
      /\ unsent' = unsent \union {u}
  BY <1>1, Begins
<1>3. StreamInv'
  BY <1>2 DEF TellInv, StreamInv
<1>4. ASSUME NEW r \in Runs PROVE OverTold(r)'
  BY <1>2 DEF TellInv, ToldInv, OverTold
<1>5. ASSUME NEW r \in Runs PROVE ActiveTold(r)'
  <2>1. AllActive(global.q, u)
    BY <1>2 DEF TellInv, StreamInv, AllActive, Of
  <2>2. QED
    BY <1>2, <2>1 DEF ActiveTold
<1>6. QED
  BY <1>3, <1>4, <1>5 DEF TellInv, ToldInv

\* So is the end of a run.
LEMMA TellEnd ==
    ASSUME ServerInv, TellInv, NEW u \in Runs, Finalize(u) PROVE TellInv'
<1>1. /\ Begun' = Begun /\ Ongoing' = Ongoing \ {u} /\ unsent' = unsent \union {u}
      /\ UNCHANGED <<global, active, lost>>
  BY Ends DEF Finalize, live
<1>2. StreamInv'
  BY <1>1 DEF TellInv, StreamInv
<1>3. ToldInv'
  BY <1>1 DEF TellInv, ToldInv, OverTold, ActiveTold
<1>4. QED
  BY <1>2, <1>3 DEF TellInv

\* A change that is published is told, or lost.
LEMMA TellPublish ==
    ASSUME ServerInv, TellInv, NEW u \in Runs, Publish(u) PROVE TellInv'
<1>1. /\ u \in unsent /\ unsent' = unsent \ {u} /\ global' = Send(global, Record(u))
      /\ lost' = (IF global.conn = "closed" \/ Full(global) THEN lost \union {u} ELSE lost \ {u})
      /\ UNCHANGED <<status, active>>
  BY DEF Publish
<1>2. Begun' = Begun /\ Ongoing' = Ongoing /\ u \in Begun
  BY <1>1 DEF Begun, Ongoing, ServerInv
<1>3. Record(u) \in Shown /\ Record(u).id = u /\ (isActive(Record(u).status) <=> u \in Ongoing)
  BY Recorded
<1>4. global \in Streams /\ global.q \in Seq(Shown)
  BY StreamFields DEF TellInv, StreamInv
<1>5. CASE global.conn = "closed" \/ Full(global)
  <2>1. global' = global /\ lost' = lost \union {u}
    BY <1>1, <1>5 DEF Send
  <2>2. StreamInv'
    BY <1>1, <1>2, <2>1 DEF TellInv, StreamInv
  <2>3. ToldInv'
    BY <1>1, <1>2, <2>1 DEF TellInv, ToldInv, OverTold, ActiveTold
  <2>4. QED
    BY <2>2, <2>3 DEF TellInv
<1>6. CASE ~(global.conn = "closed" \/ Full(global))
  <2>1. global' = [global EXCEPT !.q = Append(@, Record(u))] /\ lost' = lost \ {u} /\ global.conn # "closed"
    BY <1>1, <1>6 DEF Send
  <2>2. PICK t : t = Append(global.q, Record(u))
    OBVIOUS
  <2>3. PICK m : m = Record(u)
    OBVIOUS
  <2>4. /\ t \in Seq(Shown) /\ t # <<>> /\ Of(t) = Of(global.q) \union {u}
        /\ \A r : AllActive(global.q, r) /\ (u = r => u \in Ongoing) => AllActive(t, r)
        /\ \A r : u # r /\ EndsOver(global.q, r) => EndsOver(t, r)
        /\ u \notin Ongoing => EndsOver(t, u)
    <3>1. m \in Shown /\ m.id = u /\ (isActive(m.status) <=> u \in Ongoing) /\ t = Append(global.q, m)
      BY <1>3, <2>2, <2>3
    <3>2. /\ t \in Seq(Shown) /\ t # <<>> /\ Of(t) = Of(global.q) \union {m.id}
          /\ \A r : AllActive(global.q, r) /\ (m.id = r => isActive(m.status)) => AllActive(t, r)
          /\ \A r : m.id # r /\ EndsOver(global.q, r) => EndsOver(t, r)
          /\ ~isActive(m.status) => EndsOver(t, m.id)
      BY <1>4, <3>1, Added
    <3>3. QED
      BY <3>1, <3>2
  <2>5. global' \in Streams /\ global'.q = t /\ global'.conn = global.conn
    BY <1>4, <2>1, <2>2, <2>4 DEF Streams
  <2>6. StreamInv'
    BY <1>1, <1>2, <2>1, <2>4, <2>5 DEF TellInv, StreamInv
  <2>7. ASSUME NEW r \in Runs PROVE OverTold(r)' /\ ActiveTold(r)'
    <3>1. OverTold(r) /\ ActiveTold(r)
      BY DEF TellInv, ToldInv
    <3>2. OverTold(r)'
      BY <1>1, <1>2, <2>1, <2>4, <2>5, <3>1 DEF OverTold
    <3>3. ActiveTold(r)'
      BY <1>1, <1>2, <2>1, <2>4, <2>5, <3>1 DEF ActiveTold
    <3>4. QED
      BY <3>2, <3>3
  <2>8. QED
    BY <2>6, <2>7 DEF TellInv, ToldInv
<1>7. QED
  BY <1>5, <1>6

\* What was on its way when the server went down is lost.
LEMMA TellRestart ==
    ASSUME ServerInv, TellInv, Restart PROVE TellInv'
<1>1. /\ Begun' = Begun /\ Ongoing' = {} /\ unsent' = {} /\ active' = active /\ global' = Closed
      /\ lost' = lost \union (unsent \union Ongoing \union Of(global.q))
  BY Interrupts, SameNames DEF Restart
<1>2. unsent \subseteq Begun /\ Ongoing \subseteq Begun
  BY ActiveHasBegun DEF ServerInv
<1>3. global'.q = <<>> /\ Of(<<>>) = {}
  BY <1>1, StreamFields, NothingWaits
<1>4. StreamInv'
  BY <1>1, <1>2, <1>3, StreamFields DEF TellInv, StreamInv
<1>5. ASSUME NEW r \in Runs PROVE OverTold(r)' /\ ActiveTold(r)'
  <2>1. EndsOver(<<>>, r) /\ OverTold(r)
    BY NothingWaits DEF TellInv, ToldInv
  <2>2. OverTold(r)'
    BY <1>1, <1>3, <2>1 DEF OverTold
  <2>3. ActiveTold(r)'
    BY <1>1 DEF ActiveTold
  <2>4. QED
    BY <2>2, <2>3
<1>6. QED
  BY <1>4, <1>5 DEF TellInv, ToldInv

\* Subscribing tells nothing.
LEMMA TellConnect ==
    ASSUME TellInv, GlobalConnect PROVE TellInv'
<1>1. /\ global.conn = "closed" /\ global' = [global EXCEPT !.conn = "subscribed", !.q = <<>>]
      /\ UNCHANGED <<status, unsent, active, lost>>
  BY DEF GlobalConnect, Subscribe, server
<1>2. global \in Streams /\ global.q = <<>>
  BY <1>1 DEF TellInv, StreamInv
<1>3. global' \in Streams /\ global'.q = global.q /\ global'.conn = "subscribed"
  BY <1>1, <1>2 DEF Streams
<1>4. Begun' = Begun /\ Ongoing' = Ongoing
  BY <1>1 DEF Begun, Ongoing
<1>5. StreamInv'
  BY <1>1, <1>3, <1>4 DEF TellInv, StreamInv
<1>6. ToldInv'
  BY <1>1, <1>3, <1>4 DEF TellInv, ToldInv, OverTold, ActiveTold
<1>7. QED
  BY <1>5, <1>6 DEF TellInv

\* The active runs are written to a browser that has connected.
LEMMA TellSnapshot ==
    ASSUME ServerInv, TellInv, GlobalSnapshot PROVE TellInv'
<1>1. PICK runs : /\ runs = IF Ongoing = {} THEN <<>> ELSE <<Record(CHOOSE r \in Ongoing : TRUE)>>
                  /\ global' = [global EXCEPT !.conn = "open", !.q = runs \o @]
  BY DEF GlobalSnapshot, WriteFirst
<1>2. UNCHANGED <<status, unsent, active>> /\ lost' = lost \ Ongoing
  BY DEF GlobalSnapshot, server
<1>3. global \in Streams /\ global.q \in Seq(Shown)
  BY StreamFields DEF TellInv, StreamInv
<1>4. Begun' = Begun /\ Ongoing' = Ongoing /\ Ongoing \subseteq Begun
  BY <1>2, ActiveHasBegun DEF Begun, Ongoing
<1>5. PICK t : t = runs \o global.q
  OBVIOUS
<1>6. /\ t \in Seq(Shown) /\ Of(t) = Of(global.q) \union Ongoing
      /\ \A r : AllActive(global.q, r) => AllActive(t, r)
      /\ \A r : r \notin Ongoing /\ EndsOver(global.q, r) => EndsOver(t, r)
  <2>1. CASE Ongoing = {}
    <3>1. t = global.q
      BY <1>1, <1>3, <1>5, <2>1, NothingWaits
    <3>2. QED
      BY <1>3, <2>1, <3>1
  <2>2. CASE Ongoing # {}
    <3>1. PICK c : c = CHOOSE r \in Ongoing : TRUE
      OBVIOUS
    <3>2. c \in Ongoing /\ c \in Runs /\ Ongoing = {c}
      BY <2>2, <3>1, ActiveHasBegun DEF ServerInv
    <3>3. PICK m : m = Record(c)
      OBVIOUS
    <3>4. m \in Shown /\ m.id = c /\ isActive(m.status)
      BY <3>2, <3>3, Recorded
    <3>5. t = <<m>> \o global.q
      BY <1>1, <1>5, <2>2, <3>1, <3>3
    <3>6. /\ t \in Seq(Shown) /\ Of(t) = Of(global.q) \union {m.id}
          /\ \A r : AllActive(global.q, r) /\ (m.id = r => isActive(m.status)) => AllActive(t, r)
          /\ \A r : m.id # r /\ EndsOver(global.q, r) => EndsOver(t, r)
      BY <1>3, <3>4, <3>5, WrittenFirst
    <3>7. QED
      BY <3>2, <3>4, <3>6
  <2>3. QED
    BY <2>1, <2>2
<1>7. global' \in Streams /\ global'.q = t /\ global'.conn = "open"
  BY <1>1, <1>3, <1>5, <1>6 DEF Streams
<1>8. StreamInv'
  BY <1>2, <1>4, <1>6, <1>7 DEF TellInv, StreamInv
<1>9. ASSUME NEW r \in Runs PROVE OverTold(r)' /\ ActiveTold(r)'
  <2>1. OverTold(r) /\ ActiveTold(r)
    BY DEF TellInv, ToldInv
  <2>2. OverTold(r)'
    BY <1>2, <1>4, <1>6, <1>7, <2>1 DEF OverTold
  <2>3. ActiveTold(r)'
    BY <1>2, <1>4, <1>6, <1>7, <2>1 DEF ActiveTold
  <2>4. QED
    BY <2>2, <2>3
<1>10. QED
  BY <1>8, <1>9 DEF TellInv, ToldInv

\* A message that arrives is merged: its run is listed as it was told.
LEMMA TellDeliver ==
    ASSUME TellInv, GlobalDeliver PROVE TellInv'
<1>1. /\ global.q # <<>> /\ active' = Merge(active, Head(global.q))
      /\ global' = [global EXCEPT !.q = Tail(@)] /\ UNCHANGED <<status, unsent, lost>>
  BY DEF GlobalDeliver, server
<1>2. /\ global \in Streams /\ global.q \in Seq(Shown) /\ active \in Seq(Shown) /\ OneRowEach(active)
      /\ global.conn # "closed"
  BY <1>1, StreamFields DEF TellInv, StreamInv
<1>3. PICK m : m = Head(global.q)
  OBVIOUS
<1>4. PICK t : t = Tail(global.q)
  OBVIOUS
<1>5. /\ t \in Seq(Shown) /\ m \in Shown /\ Of(global.q) = Of(t) \union {m.id}
      /\ \A r : AllActive(global.q, r) => AllActive(t, r) /\ (m.id = r => isActive(m.status))
      /\ \A r : EndsOver(global.q, r) => EndsOver(t, r)
      /\ EndsOver(global.q, m.id) /\ m.id \notin Of(t) => ~isActive(m.status)
  BY <1>1, <1>2, <1>3, <1>4, Taken
<1>6. /\ active' \in Seq(Shown) /\ OneRowEach(active')
      /\ Of(active') = IF isActive(m.status) THEN Of(active) \union {m.id} ELSE Of(active) \ {m.id}
  BY <1>1, <1>2, <1>3, <1>5, Merged
<1>7. global' \in Streams /\ global'.q = t /\ global'.conn = global.conn
  BY <1>1, <1>2, <1>4, <1>5 DEF Streams
<1>8. Begun' = Begun /\ Ongoing' = Ongoing
  BY <1>1 DEF Begun, Ongoing
<1>9. StreamInv'
  BY <1>1, <1>2, <1>5, <1>6, <1>7, <1>8 DEF TellInv, StreamInv
<1>10. ASSUME NEW r \in Runs PROVE OverTold(r)' /\ ActiveTold(r)'
  <2>1. OverTold(r) /\ ActiveTold(r)
    BY DEF TellInv, ToldInv
  <2>2. OverTold(r)'
    <3>1. SUFFICES ASSUME r \in Begun \ (Ongoing \union unsent \union lost)
                   PROVE  (r \in Of(active') => r \in Of(t)) /\ EndsOver(t, r)
      BY <1>1, <1>7, <1>8 DEF OverTold
    <3>2. (r \in Of(active) => r \in Of(global.q)) /\ EndsOver(global.q, r)
      BY <2>1, <3>1 DEF OverTold
    <3>3. r \in Of(active') => r \in Of(t)
      BY <1>5, <1>6, <3>2
    <3>4. QED
      BY <1>5, <3>2, <3>3
  <2>3. ActiveTold(r)'
    <3>1. SUFFICES ASSUME r \in Ongoing
                   PROVE  /\ AllActive(t, r)
                          /\ global.conn = "open" => r \in Of(active') \union unsent \union Of(t) \union lost
      BY <1>1, <1>7, <1>8 DEF ActiveTold
    <3>2. /\ AllActive(global.q, r)
          /\ global.conn = "open" => r \in Of(active) \union unsent \union Of(global.q) \union lost
      BY <2>1, <3>1 DEF ActiveTold
    <3>3. QED
      BY <1>5, <1>6, <3>2
  <2>4. QED
    BY <2>2, <2>3
<1>11. QED
  BY <1>9, <1>10 DEF TellInv, ToldInv

\* What was on its way when the connection broke is lost.
LEMMA TellBreak ==
    ASSUME TellInv, GlobalBreak PROVE TellInv'
<1>1. UNCHANGED <<status, unsent, active>> /\ global' = Closed /\ lost' = lost \union Of(global.q)
  BY SameNames DEF GlobalBreak, server
<1>2. Begun' = Begun /\ Ongoing' = Ongoing
  BY <1>1 DEF Begun, Ongoing
<1>3. global'.q = <<>> /\ Of(<<>>) = {} /\ global'.conn = "closed" /\ global' \in Streams
  BY <1>1, StreamFields, NothingWaits
<1>4. StreamInv'
  BY <1>1, <1>2, <1>3 DEF TellInv, StreamInv
<1>5. ASSUME NEW r \in Runs PROVE OverTold(r)' /\ ActiveTold(r)'
  <2>1. EndsOver(<<>>, r) /\ AllActive(<<>>, r) /\ OverTold(r)
    BY NothingWaits DEF TellInv, ToldInv
  <2>2. OverTold(r)'
    BY <1>1, <1>2, <1>3, <2>1 DEF OverTold
  <2>3. ActiveTold(r)'
    BY <1>1, <1>2, <1>3, <2>1 DEF ActiveTold
  <2>4. QED
    BY <2>2, <2>3
<1>6. QED
  BY <1>4, <1>5 DEF TellInv, ToldInv

\* Every step tells the browser of the runs, or knows what was lost.
LEMMA StreamStep_TellInv == ServerInv /\ TellInv /\ [Next]_vars => TellInv'
<1> SUFFICES ASSUME ServerInv, TellInv, [Next]_vars PROVE TellInv'
  OBVIOUS
<1>1. CASE ScheduledRun
  BY <1>1, TellBegin DEF ScheduledRun, live
<1>2. CASE Restart
  BY <1>2, TellRestart
<1>3. ASSUME NEW r \in Runs, Finalize(r) PROVE TellInv'
  BY <1>3, TellEnd
<1>4. ASSUME NEW r \in Runs, Publish(r) PROVE TellInv'
  BY <1>4, TellPublish
<1>5. CASE StreamStep
  <2>1. CASE HookConnect \/ HookRefused \/ HookDeliver \/ HookBreak
    BY <2>1, ToldStays DEF server, live, HookConnect, HookRefused, HookDeliver, HookBreak
  <2>2. QED
    BY <1>5, <2>1, TellConnect, TellSnapshot, TellDeliver, TellBreak DEF StreamStep
<1>6. CASE LoadStep
  BY <1>6, ToldStays DEF LoadStep, server, live, ListRead, ListArrives, ListFails, InitialLoaded, InitialFails
<1>7. ASSUME NEW r, Visit(r) PROVE TellInv'
  BY <1>7, ToldStays DEF Visit, server, live
<1>8. CASE RunNow
  BY <1>8, ToldStays DEF RunNow, server, live
<1>9. CASE RunAnswered
  <2>1. CASE CanBegin /\ Begin /\ GoTo(Upcoming)
    BY <1>9, <2>1, TellBegin DEF RunAnswered, live
  <2>2. CASE Ongoing # {} /\ UNCHANGED <<status, unsent>>
    BY <1>9, <2>2, ToldStays DEF RunAnswered, live
  <2>3. QED
    BY <1>9, <2>1, <2>2 DEF RunAnswered
<1>10. CASE Stop
  BY <1>10, ToldStays DEF Stop, live
<1>11. CASE UNCHANGED vars
  BY <1>11, ToldStays DEF vars, server, live
<1>12. QED
  BY <1>1, <1>2, <1>3, <1>4, <1>5, <1>6, <1>7, <1>8, <1>9, <1>10, <1>11 DEF Next, ServerStep, UserStep

-----------------------------------------------------------------------------
(* The screens.                                                             *)

\* A stream that is opened afresh holds nothing.
LEMMA FreshHooks ==
    ASSUME NEW id \in 0..BadId PROVE HookOK(FreshHook(id)) /\ FreshHook(id).id = id
BY NothingWaits DEF HookOK, Hooks, FreshHook

\* A hook that is given another run holds no message of the old one.
LEMMA Retargets ==
    ASSUME NEW id \in 0..BadId, NEW h, HookOK(h) PROVE HookOK(Retarget(h, id)) /\ Retarget(h, id).id = id
<1>1. CASE h.id = id
  BY <1>1 DEF Retarget
<1>2. CASE h.id # id
  <2>1. Retarget(h, id) = [FreshHook(id) EXCEPT !.run = h.run]
    BY <1>2 DEF Retarget
  <2>2. Retarget(h, id) = [id |-> id, conn |-> "closed", q |-> <<>>, run |-> h.run, behind |-> FALSE]
    BY <2>1 DEF FreshHook
  <2>3. h.run \in Shown \union {NoRun}
    BY DEF HookOK, Hooks
  <2>4. QED
    BY <2>2, <2>3, NothingWaits DEF HookOK, Hooks
<1>3. QED
  BY <1>1, <1>2

\* The card's run is the first row, or none.
LEMMA FirstRow == ASSUME NEW s \in Seq(Shown) PROVE First(s) \in Shown \union {NoRun} /\ First(s).id \in 0..BadId
<1>1. CASE s = <<>>
  BY <1>1, Numbers DEF First, NoRun
<1>2. CASE s # <<>>
  <2>1. s[1] \in Shown /\ First(s) = s[1]
    <3>1. Len(s) \in Nat \ {0}
      BY <1>2, EmptySeq, LenProperties
    <3>2. QED
      BY <1>2, <3>1, ElementOfSeq DEF First
  <2>2. QED
    BY <2>1, Numbers DEF Shown
<1>3. QED
  BY <1>1, <1>2

\* A screen the user goes to starts with its own stream and load.
LEMMA Goes ==
    ASSUME ScreenInv, active \in Seq(Shown), NEW r \in 0..Activity, r # route, GoTo(r),
           breaks' \in 0..MaxBreaks, visits' \in 0..MaxVisits, ask' \in BOOLEAN
    PROVE  ScreenInv' /\ starting' = FALSE
<1>1. route' = r /\ starting' = FALSE
  BY DEF GoTo, ScreenInv
<1>2. HookOK(hook) /\ activeRun.id \in 0..BadId
  BY FirstRow DEF ScreenInv, HookOK, activeRun
<1>3. HookOK(hook') /\ (r \in 1..BadId => hook'.id = r)
  <2>1. CASE r = Jobs
    <3>0. r # Activity /\ r \notin 1..BadId /\ route # r
      BY <2>1, Numbers
    <3>1. hook' = FreshHook(activeRun.id)
      BY <2>1, <3>0 DEF GoTo
    <3>2. QED
      BY <1>2, <2>1, <3>1, FreshHooks, Numbers
  <2>2. CASE r = Activity
    <3>1. hook' = FreshHook(0) /\ 0 \in 0..BadId /\ r \notin 1..BadId
      BY <2>2, Numbers DEF GoTo
    <3>2. QED
      BY <3>1, FreshHooks
  <2>3. CASE r \in 1..BadId
    <3>1. hook' = IF route \in 1..BadId THEN Retarget(hook, r) ELSE FreshHook(r)
      BY <2>3, Numbers DEF GoTo
    <3>2. r \in 0..BadId
      BY <2>3, Numbers
    <3>3. QED
      BY <1>2, <3>1, <3>2, FreshHooks, Retargets
  <2>4. QED
    BY <2>1, <2>2, <2>3, Numbers
<1>4. initial' \in Initials /\ (r \notin 1..BadId => initial' = NoInitial)
  <2>1. initial' = [NoInitial EXCEPT !.loading = r \in 1..BadId]
    BY DEF GoTo
  <2>2. CASE r \in 1..BadId
    <3>1. initial' = [loading |-> TRUE, run |-> NoRun, missing |-> FALSE]
      BY <2>1, <2>2 DEF NoInitial
    <3>2. QED
      BY <2>2, <3>1 DEF Initials
  <2>3. CASE r \notin 1..BadId
    <3>1. (r \in 1..BadId) = FALSE
      BY <2>3
    <3>2. initial' = [NoInitial EXCEPT !.loading = FALSE]
      BY <2>1, <3>1, Zenon
    <3>3. initial' = NoInitial /\ NoInitial \in Initials
      BY <3>2 DEF Initials, NoInitial
    <3>4. QED
      BY <2>3, <3>3
  <2>4. QED
    BY <2>2, <2>3
<1>5. QED
  BY <1>1, <1>3, <1>4 DEF ScreenInv, HookOK

\* What may change while the user stays on a screen.
LEMMA ScreenStays ==
    ASSUME ScreenInv, UNCHANGED route,
           hook' = hook \/ (HookOK(hook') /\ (route \in 1..BadId => hook'.id = route)),
           initial' = initial \/ (initial' \in Initials /\ route \in 1..BadId),
           ask' \in BOOLEAN, starting' \in BOOLEAN, starting' => ask' /\ route = Jobs,
           breaks' \in 0..MaxBreaks, visits' \in 0..MaxVisits
    PROVE  ScreenInv'
BY DEF ScreenInv, HookOK

\* A step that touches no screen leaves each in shape.
LEMMA ScreenSame == ScreenInv /\ UNCHANGED <<route, hook, initial, ask, starting, breaks, visits>> => ScreenInv'
BY DEF ScreenInv

\* What a step needs to know of the screens it does not touch.
LEMMA Bounded ==
    ASSUME ScreenInv
    PROVE  /\ ask \in BOOLEAN /\ starting \in BOOLEAN /\ (starting => ask /\ route = Jobs)
           /\ breaks \in 0..MaxBreaks /\ visits \in 0..MaxVisits
           /\ breaks < MaxBreaks => breaks + 1 \in 0..MaxBreaks
           /\ visits < MaxVisits => visits + 1 \in 0..MaxVisits
           /\ HookOK(hook) /\ hook \in Hooks /\ (route \in 1..BadId => hook.id = route)
BY Numbers DEF ScreenInv, HookOK

\* What the run's stream does keeps the hook in shape.
LEMMA HookPublish ==
    ASSUME ServerInv, ScreenInv, NEW r \in Runs, Publish(r) PROVE ScreenInv'
<1>1. PICK b \in BOOLEAN : b = (hook.behind \/ (hook.conn # "closed" /\ Full(hook)))
  OBVIOUS
<1>2. PICK m : m = Record(r)
  OBVIOUS
<1>3. m \in Shown
  BY <1>2, Recorded
<1>4. hook \in Hooks /\ HookOK(hook)
  BY Bounded
<1>5. CASE hook.id # r
  <2>1. hook' = hook
    BY <1>5 DEF Publish
  <2>2. QED
    BY <2>1, ScreenSame DEF Publish
<1>6. CASE hook.id = r
  <2>1. hook' = [Send(hook, m) EXCEPT !.behind = hook.behind \/ (hook.conn # "closed" /\ Full(hook))]
    <3>1. hook' = [Send(hook, m) EXCEPT !.behind = @ \/ (hook.conn # "closed" /\ Full(hook))]
      BY <1>2, <1>6 DEF Publish
    <3>2. Send(hook, m).behind = hook.behind
      BY <1>4 DEF Send, Hooks
    <3>3. QED
      BY <1>4, <3>1, <3>2 DEF Send, Hooks
  <2>2. hook' = [Send(hook, m) EXCEPT !.behind = b]
    BY <1>1, <2>1
  <2>3. HookOK(hook') /\ hook'.id = hook.id
    <3>1. CASE hook.conn = "closed" \/ Full(hook)
      <4>1. hook' = [hook EXCEPT !.behind = b]
        BY <2>2, <3>1 DEF Send
      <4>2. QED
        BY <1>4, <4>1 DEF HookOK, Hooks
    <3>2. CASE ~(hook.conn = "closed" \/ Full(hook))
      <4>1. PICK t : t = Append(hook.q, m)
        OBVIOUS
      <4>2. t \in Seq(Shown)
        <5>1. hook.q \in Seq(Shown)
          BY <1>4 DEF Hooks
        <5>2. QED
          BY <1>3, <4>1, <5>1, Added
      <4>3. hook' = [[hook EXCEPT !.q = t] EXCEPT !.behind = b]
        BY <2>2, <3>2, <4>1 DEF Send
      <4>4. hook.conn = "open"
        BY <1>4, <1>6, <3>2, Numbers DEF HookOK, Hooks
      <4>5. QED
        BY <1>4, <4>2, <4>3, <4>4 DEF HookOK, Hooks
    <3>3. QED
      BY <3>1, <3>2
  <2>4. QED
    BY <2>3, ScreenStays, Bounded DEF Publish
<1>7. QED
  BY <1>5, <1>6

\* A step that moves no one to another screen leaves each screen in shape.
LEMMA ScreenStep_ScreenInv == ServerInv /\ StreamInv /\ ScreenInv /\ [Next]_vars => ScreenInv'
<1> SUFFICES ASSUME ServerInv, StreamInv, ScreenInv, [Next]_vars PROVE ScreenInv'
  OBVIOUS
<1>1. active \in Seq(Shown) /\ hook \in Hooks /\ HookOK(hook) /\ global \in Streams
  BY Bounded DEF StreamInv
<1>2. CASE ScheduledRun
  BY <1>2, ScreenSame DEF ScheduledRun
<1>3. CASE Restart
  <2>1. hook' = [hook EXCEPT !.conn = IF hook.conn = "refused" THEN "refused" ELSE "closed", !.q = <<>>]
    BY <1>3 DEF Restart
  <2>2. HookOK(hook') /\ hook'.id = hook.id
    BY <1>1, <2>1, NothingWaits DEF HookOK, Hooks
  <2>3. UNCHANGED <<route, initial, ask, starting, visits>> /\ breaks' \in 0..MaxBreaks
    BY <1>3, Bounded DEF Restart
  <2>4. QED
    BY <2>2, <2>3, ScreenStays, Bounded
<1>4. ASSUME NEW r \in Runs, Finalize(r) PROVE ScreenInv'
  BY <1>4, ScreenSame DEF Finalize
<1>5. ASSUME NEW r \in Runs, Publish(r) PROVE ScreenInv'
  BY <1>5, HookPublish
<1>6. CASE GlobalConnect \/ GlobalSnapshot
  BY <1>6, ScreenSame DEF GlobalConnect, GlobalSnapshot, screen
<1>7. CASE GlobalDeliver
  <2>1. active' \in Seq(Shown)
    <3>1. PICK m : m = Head(global.q)
      OBVIOUS
    <3>2. global.q \in Seq(Shown) /\ global.q # <<>> /\ active' = Merge(active, m)
      BY <1>1, <1>7, <3>1 DEF GlobalDeliver, Streams
    <3>3. m \in Shown
      BY <3>1, <3>2, HeadTailProperties
    <3>4. QED
      BY <1>1, <3>2, <3>3, Merged DEF StreamInv
  <2>2. hook' = IF route = Jobs THEN Retarget(hook, First(active').id) ELSE hook
    BY <1>7 DEF GlobalDeliver, ScreenFollows
  <2>3. HookOK(hook') /\ (route \in 1..BadId => hook'.id = route)
    <3>1. route = Jobs => route \notin 1..BadId
      BY Numbers
    <3>2. QED
      BY <1>1, <2>1, <2>2, <3>1, Bounded, FirstRow, Retargets
  <2>4. UNCHANGED <<route, initial, ask, starting, breaks, visits>>
    BY <1>7 DEF GlobalDeliver
  <2>5. QED
    BY <2>3, <2>4, ScreenStays, Bounded
<1>8. CASE GlobalBreak
  <2>1. UNCHANGED <<route, hook, initial, ask, starting, visits>> /\ breaks' \in 0..MaxBreaks
    BY <1>8, Bounded DEF GlobalBreak
  <2>2. QED
    BY <2>1, ScreenStays, Bounded
<1>9. CASE HookConnect
  <2>1. PICK q : q = <<Record(hook.id)>>
    OBVIOUS
  <2>2. q \in Seq(Shown) /\ hook' = [hook EXCEPT !.conn = "open", !.q = q, !.behind = FALSE]
    <3>1. PICK m : m = Record(hook.id)
      OBVIOUS
    <3>2. m \in Shown
      BY <1>9, <3>1, Recorded, ActiveHasBegun DEF HookConnect
    <3>3. q = Append(<<>>, m)
      BY <2>1, <3>1
    <3>4. QED
      BY <1>9, <2>1, <3>2, <3>3, NothingWaits, Added DEF HookConnect
  <2>3. HookOK(hook') /\ hook'.id = hook.id
    BY <1>1, <2>2 DEF HookOK, Hooks
  <2>4. UNCHANGED <<route, initial, ask, starting, breaks, visits>>
    BY <1>9 DEF HookConnect
  <2>5. QED
    BY <2>3, <2>4, ScreenStays, Bounded
<1>10. CASE HookRefused
  <2>1. hook' = [hook EXCEPT !.conn = "refused"] /\ hook.conn = "closed" /\ hook.id = BadId
    BY <1>10 DEF HookRefused
  <2>2. HookOK(hook') /\ hook'.id = hook.id
    BY <1>1, <2>1 DEF HookOK, Hooks
  <2>3. UNCHANGED <<route, initial, ask, starting, breaks, visits>>
    BY <1>10 DEF HookRefused
  <2>4. QED
    BY <2>2, <2>3, ScreenStays, Bounded
<1>11. CASE HookDeliver
  <2>1. PICK m : m = Head(hook.q)
    OBVIOUS
  <2>2. PICK t : t = Tail(hook.q)
    OBVIOUS
  <2>3. hook.q \in Seq(Shown) /\ hook.q # <<>> /\ hook.conn = "open"
    BY <1>1, <1>11 DEF HookDeliver, Hooks
  <2>4. m \in Shown /\ t \in Seq(Shown)
    BY <2>1, <2>2, <2>3, Taken
  <2>5. hook' = [hook EXCEPT !.run = m, !.q = t]
    BY <1>11, <2>1, <2>2 DEF HookDeliver
  <2>6. HookOK(hook') /\ hook'.id = hook.id
    BY <1>1, <2>3, <2>4, <2>5 DEF HookOK, Hooks
  <2>7. UNCHANGED <<route, initial, ask, starting, breaks, visits>>
    BY <1>11 DEF HookDeliver
  <2>8. QED
    BY <2>6, <2>7, ScreenStays, Bounded
<1>12. CASE HookBreak
  <2>1. hook' = [hook EXCEPT !.conn = "closed", !.q = <<>>]
    BY <1>12 DEF HookBreak
  <2>2. HookOK(hook') /\ hook'.id = hook.id
    BY <1>1, <2>1, NothingWaits DEF HookOK, Hooks
  <2>3. UNCHANGED <<route, initial, ask, starting, visits>> /\ breaks' \in 0..MaxBreaks
    BY <1>12, Bounded DEF HookBreak
  <2>4. QED
    BY <2>2, <2>3, ScreenStays, Bounded
<1>13. ASSUME NEW f \in list.sent, ListRead(f) \/ ListArrives(f) PROVE ScreenInv'
  BY <1>13, ScreenSame DEF ListRead, ListArrives
<1>14. ASSUME NEW f \in list.sent, ListFails(f) PROVE ScreenInv'
  <2>1. UNCHANGED <<route, hook, initial, ask, starting, visits>> /\ breaks' \in 0..MaxBreaks
    BY <1>14, Bounded DEF ListFails
  <2>2. QED
    BY <2>1, ScreenStays, Bounded
<1>15. CASE InitialLoaded \/ InitialFails
  <2>1. initial' \in Initials /\ route \in 1..BadId
    <3>1. initial.loading
      BY <1>15 DEF InitialLoaded, InitialFails
    <3>2. route \in 1..BadId
      BY <3>1 DEF ScreenInv, NoInitial
    <3>3. NoInitial \in Initials
      BY DEF NoInitial, Initials
    <3>4. ASSUME InitialLoaded PROVE initial' \in Initials
      <4>1. CASE route \in Begun
        <5>1. route \in Runs
          BY <4>1, ActiveHasBegun
        <5>2. initial' = [loading |-> FALSE, run |-> Record(route), missing |-> FALSE] /\ Record(route) \in Shown
          BY <3>4, <4>1, <5>1, Recorded DEF InitialLoaded
        <5>3. QED
          BY <5>2 DEF Initials
      <4>2. CASE route \notin Begun
        <5>1. initial' = [loading |-> FALSE, run |-> NoRun, missing |-> TRUE]
          BY <3>4, <4>2 DEF InitialLoaded
        <5>2. QED
          BY <5>1 DEF Initials
      <4>3. QED
        BY <4>1, <4>2
    <3>5. QED
      BY <1>15, <3>2, <3>3, <3>4 DEF InitialFails
  <2>2. UNCHANGED <<route, hook, ask, starting, visits>> /\ breaks' \in 0..MaxBreaks
    BY <1>15, Bounded DEF InitialLoaded, InitialFails
  <2>3. QED
    BY <2>1, <2>2, ScreenStays, Bounded
<1>16. ASSUME NEW r \in Begun \union {Jobs, Activity, BadId}, Visit(r) PROVE ScreenInv'
  <2>1. r \in 0..Activity
    BY ActiveHasBegun, Numbers
  <2>2. QED
    BY <1>1, <1>16, <2>1, Goes, Bounded DEF Visit
<1>17. CASE RunNow
  <2>1. UNCHANGED <<route, hook, initial, breaks, visits>> /\ starting' = TRUE /\ ask' = TRUE /\ route = Jobs
    BY <1>17 DEF RunNow
  <2>2. QED
    BY <2>1, ScreenStays, Bounded
<1>18. CASE RunAnswered
  <2>1. ask' = FALSE /\ UNCHANGED <<breaks, visits>>
    BY <1>18 DEF RunAnswered
  <2>2. CASE CanBegin /\ Begin /\ GoTo(Upcoming)
    <3>1. PICK u : u = Upcoming
      OBVIOUS
    <3>2. u \in Runs /\ u \in 0..Activity /\ GoTo(u)
      BY <2>2, <3>1, Begins, Numbers
    <3>3. CASE u # route
      BY <1>1, <2>1, <3>2, <3>3, Goes, Bounded
    <3>4. CASE u = route
      <4>1. route # Jobs
        BY <3>2, <3>4, Numbers
      <4>2. UNCHANGED <<route, hook, initial>> /\ starting' = starting /\ starting = FALSE
        BY <3>2, <3>4, <4>1, Bounded DEF GoTo
      <4>3. QED
        BY <2>1, <4>2, ScreenStays, Bounded
    <3>5. QED
      BY <3>3, <3>4
  <2>3. CASE Ongoing # {} /\ starting' = FALSE /\ UNCHANGED <<status, unsent, route, hook, initial, list>>
    BY <2>1, <2>3, ScreenStays, Bounded
  <2>4. QED
    BY <1>18, <2>2, <2>3 DEF RunAnswered
<1>19. CASE Stop
  BY <1>19, ScreenSame DEF Stop, screen
<1>20. CASE UNCHANGED vars
  BY <1>20, ScreenSame DEF vars, screen
<1>21. QED
  BY <1>2, <1>3, <1>4, <1>5, <1>6, <1>7, <1>8, <1>9, <1>10, <1>11, <1>12, <1>13, <1>14, <1>15, <1>16, <1>17,
     <1>18, <1>19, <1>20 DEF Next, ServerStep, StreamStep, LoadStep, UserStep

-----------------------------------------------------------------------------
(* The list.                                                                *)

\* No list and a fresh one: neither shows what is not so.
LEMMA EmptyList ==
    /\ NoList.sent = {} /\ NoList.data = "nothing" /\ NoList.error = FALSE
    /\ ListOK(FreshList) /\ ListTrue(FreshList) /\ ~ListOK(NoList)
<1>1. NoList.sent = {} /\ NoList.data = "nothing" /\ NoList.error = FALSE
  BY DEF NoList
<1>2. ~ListOK(NoList)
  BY <1>1 DEF ListOK, loading
<1>3. Fetching \in Fetches /\ Fetching.newest /\ Fetching.answer = "unread"
  BY DEF Fetching, Fetches
<1>4. /\ FreshList \in Lists /\ FreshList.sent = {Fetching} /\ FreshList.data = "nothing"
  BY <1>3 DEF FreshList, Lists
<1>5. ListOK(FreshList) /\ ListTrue(FreshList)
  BY <1>3, <1>4 DEF ListOK, ListTrue, loading
<1>6. QED
  BY <1>1, <1>2, <1>5

\* A change of the store leaves the list its shape.
LEMMA Outdates ==
    ASSUME NEW l PROVE (ListOK(l) => ListOK(Outdated(l))) /\ Outdated(NoList) = NoList
<1>1. ASSUME ListOK(l) PROVE ListOK(Outdated(l))
  <2>1. PICK s : s = {[f EXCEPT !.answer = Aged(f.answer)] : f \in l.sent}
    OBVIOUS
  <2>2. PICK d : d = Aged(l.data)
    OBVIOUS
  <2>3. l \in Lists /\ l.sent \in SUBSET Fetches
    BY <1>1 DEF ListOK, Lists
  <2>4. PICK o : o = Outdated(l)
    OBVIOUS
  <2>5. o = [l EXCEPT !.data = d, !.sent = s]
    <3>1. s = {[f EXCEPT !.answer = Aged(@)] : f \in l.sent}
      BY <2>1
    <3>2. QED
      BY <2>2, <2>3, <2>4, <3>1 DEF Outdated, Lists
  <2>6. \A g \in s : \E f \in l.sent : g = [f EXCEPT !.answer = Aged(f.answer)] /\ f \in Fetches
    BY <2>1, <2>3
  <2>7. \A g \in s : g \in Fetches
    BY <2>6 DEF Fetches, Aged
  <2>8. ASSUME NEW g \in s, NEW h \in s, g.newest, h.newest PROVE g = h
    <3>1. PICK x \in l.sent : g = [x EXCEPT !.answer = Aged(x.answer)] /\ x \in Fetches
      BY <2>6
    <3>2. PICK y \in l.sent : h = [y EXCEPT !.answer = Aged(y.answer)] /\ y \in Fetches
      BY <2>6
    <3>3. x.newest /\ y.newest
      BY <2>8, <3>1, <3>2 DEF Fetches
    <3>4. x = y
      BY <1>1, <3>3 DEF ListOK
    <3>5. QED
      BY <3>1, <3>2, <3>4
  <2>9. loading(l) => \E g \in s : g.newest
    <3>1. SUFFICES ASSUME NEW f \in l.sent, f.newest PROVE \E g \in s : g.newest
      BY DEF loading
    <3>2. PICK g : g = [f EXCEPT !.answer = Aged(f.answer)]
      OBVIOUS
    <3>3. g \in s /\ g.newest
      BY <2>1, <2>3, <3>1, <3>2 DEF Fetches
    <3>4. QED
      BY <3>3
  <2>10. d \in {"nothing", "fresh", "stale"} /\ (d = "nothing" => l.data = "nothing")
    BY <2>2, <2>3 DEF Aged, Lists
  <2>11. o \in Lists /\ o.data = d /\ o.sent = s /\ o.error = l.error
    BY <2>3, <2>5, <2>7, <2>10 DEF Lists
  <2>12. QED
    BY <1>1, <2>4, <2>8, <2>9, <2>10, <2>11 DEF ListOK, loading
<1>2. Outdated(NoList) = NoList
  <2>1. PICK s : s = {[f EXCEPT !.answer = Aged(@)] : f \in {}}
    OBVIOUS
  <2>2. s = {} /\ Aged("nothing") = "nothing"
    BY <2>1 DEF Aged
  <2>3. Outdated(NoList) = [NoList EXCEPT !.data = Aged("nothing"), !.sent = s]
    BY <2>1 DEF Outdated, NoList
  <2>4. QED
    BY <2>2, <2>3 DEF NoList
<1>3. QED
  BY <1>1, <1>2

\* An event that is lost is known to be.
LEMMA Misses ==
    ASSUME NEW l PROVE (ListOK(l) => ListOK(Missed(l)) /\ Missed(l).blind) /\ Missed(NoList) = NoList
<1>1. ASSUME ListOK(l) PROVE ListOK(Missed(l)) /\ Missed(l).blind
  <2>1. l # NoList /\ l \in Lists
    BY <1>1, EmptyList DEF ListOK
  <2>2. (l # NoList) = TRUE
    BY <2>1
  <2>3. Missed(l) = [l EXCEPT !.blind = TRUE]
    BY <2>2, Zenon DEF Missed
  <2>4. QED
    BY <1>1, <2>1, <2>3 DEF ListOK, Lists, loading
<1>2. Missed(NoList) = NoList
  <2>1. (NoList # NoList) = FALSE
    OBVIOUS
  <2>2. Missed(NoList) = [NoList EXCEPT !.blind = FALSE]
    BY <2>1, Zenon DEF Missed
  <2>3. QED
    BY <2>2 DEF NoList
<1>3. QED
  BY <1>1, <1>2

\* A list that is loaded again brings what is so, whatever it shows until then.
LEMMA Reloads ==
    ASSUME NEW l, ListOK(l) PROVE ListOK(Reload(l)) /\ ListTrue(Reload(l))
<1>1. PICK s : s = {[f EXCEPT !.newest = FALSE] : f \in l.sent}
  OBVIOUS
<1>2. l \in Lists /\ l.sent \in SUBSET Fetches
  BY DEF ListOK, Lists
<1>3. \A g \in s : g \in Fetches /\ ~g.newest
  BY <1>1, <1>2 DEF Fetches
<1>4. PICK o : o = Reload(l)
  OBVIOUS
<1>5. o = [l EXCEPT !.sent = {Fetching} \union s, !.blind = FALSE]
  BY <1>1, <1>2, <1>4 DEF Reload, Lists
<1>6. Fetching \in Fetches /\ Fetching.newest /\ Fetching.answer = "unread"
  BY DEF Fetching, Fetches
<1>7. o \in Lists /\ o.sent = {Fetching} \union s
  BY <1>2, <1>3, <1>5, <1>6 DEF Lists
<1>8. loading(o) /\ \A g \in o.sent : g.newest => g = Fetching
  BY <1>3, <1>6, <1>7 DEF loading
<1>9. QED
  BY <1>4, <1>6, <1>7, <1>8 DEF ListOK, ListTrue

\* What a load of the list brings, or that it failed, is shown if it is the newest.
LEMMA Settles ==
    ASSUME NEW l, ListOK(l), NEW f \in l.sent, NEW ok \in BOOLEAN, ok => f.answer # "unread",
           NEW o, o = Settle(l, f, ok)
    PROVE  ListOK(o) /\ (ListTrue(l) => ListTrue(o)) /\ o.blind = l.blind
<1>1. l \in Lists /\ l.sent \in SUBSET Fetches /\ f \in Fetches
  BY DEF ListOK, Lists
<1>2. PICK rest : rest = [l EXCEPT !.sent = l.sent \ {f}]
  OBVIOUS
<1>3. /\ rest \in Lists /\ rest.sent = l.sent \ {f}
      /\ rest.data = l.data /\ rest.error = l.error /\ rest.blind = l.blind
  BY <1>1, <1>2 DEF Lists
<1>4. CASE ~f.newest
  <2>1. o = rest
    BY <1>1, <1>2, <1>4 DEF Settle, Lists
  <2>2. loading(l) => loading(o)
    BY <1>3, <1>4, <2>1 DEF loading
  <2>3. QED
    BY <1>3, <2>1, <2>2 DEF ListOK, ListTrue
<1>5. CASE f.newest /\ ok
  <2>1. o = [rest EXCEPT !.data = f.answer, !.error = FALSE]
    BY <1>1, <1>2, <1>5 DEF Settle, Lists
  <2>2. f.answer \in {"fresh", "stale"}
    BY <1>1, <1>5 DEF Fetches
  <2>3. /\ o \in Lists /\ o.data = f.answer /\ o.error = FALSE /\ o.sent = l.sent \ {f} /\ o.blind = l.blind
    BY <1>3, <2>1, <2>2 DEF Lists
  <2>4. \A g \in o.sent : ~g.newest
    BY <1>5, <2>3 DEF ListOK
  <2>5. QED
    BY <1>5, <2>2, <2>3, <2>4 DEF ListOK, ListTrue
<1>6. CASE f.newest /\ ~ok
  <2>1. o = [rest EXCEPT !.error = TRUE]
    BY <1>1, <1>2, <1>6 DEF Settle, Lists
  <2>2. o \in Lists /\ o.error = TRUE /\ o.sent = l.sent \ {f} /\ o.blind = l.blind
    BY <1>3, <2>1 DEF Lists
  <2>3. QED
    BY <2>2 DEF ListOK, ListTrue
<1>7. QED
  BY <1>4, <1>5, <1>6

\* What the server reads for the list is so.
LEMMA Reads ==
    ASSUME NEW l, ListOK(l), NEW f \in l.sent, NEW g, g = [f EXCEPT !.answer = "fresh"],
           NEW o, o = [l EXCEPT !.sent = (@ \ {f}) \union {g}]
    PROVE  ListOK(o) /\ (ListTrue(l) => ListTrue(o)) /\ o.blind = l.blind
<1>1. l \in Lists /\ l.sent \in SUBSET Fetches /\ f \in Fetches
  BY DEF ListOK, Lists
<1>2. g \in Fetches /\ g.newest = f.newest /\ g.answer = "fresh"
  BY <1>1 DEF Fetches
<1>3. /\ o \in Lists /\ o.sent = (l.sent \ {f}) \union {g}
      /\ o.data = l.data /\ o.error = l.error /\ o.blind = l.blind
  BY <1>1, <1>2 DEF Lists
<1>4. loading(l) => loading(o)
  BY <1>2, <1>3 DEF loading
<1>5. \A x, y \in o.sent : x.newest /\ y.newest => x = y
  BY <1>2, <1>3 DEF ListOK
<1>6. QED
  BY <1>2, <1>3, <1>4, <1>5 DEF ListOK, ListTrue

\* A list that is left alone is as true as it was, if nothing more was told.
LEMMA ListStays ==
    ASSUME ListInv, UNCHANGED <<list, route>>,
           unsent # {} \/ global.q # <<>> => unsent' # {} \/ global'.q # <<>>
    PROVE  ListInv'
BY DEF ListInv, AboutToBeTold

\* After a move the list is a fresh one, or none.
LEMMA ListGoes ==
    ASSUME NEW r, r # route, GoTo(r) PROVE ListInv'
<1>1. route' = r /\ list' = IF r = Activity THEN FreshList ELSE NoList
  BY DEF GoTo
<1>2. QED
  BY <1>1, EmptyList DEF ListInv

\* Every step tells the list what it missed, or knows that it did not.
LEMMA LoadStep_ListInv == ServerInv /\ StreamInv /\ ListInv /\ [Next]_vars => ListInv'
<1> SUFFICES ASSUME ServerInv, StreamInv, ListInv, [Next]_vars PROVE ListInv'
  OBVIOUS
<1>1. IF route = Activity THEN ListOK(list) ELSE list = NoList
  BY DEF ListInv
<1>2. CASE ScheduledRun
  <2>1. list' = Outdated(list) /\ route' = route /\ unsent' # {}
    BY <1>2 DEF ScheduledRun, Begin
  <2>2. QED
    BY <1>1, <2>1, Outdates DEF ListInv, AboutToBeTold
<1>3. ASSUME NEW r \in Runs, Finalize(r) PROVE ListInv'
  <2>1. list' = Outdated(list) /\ route' = route /\ unsent' # {}
    BY <1>3 DEF Finalize
  <2>2. QED
    BY <1>1, <2>1, Outdates DEF ListInv, AboutToBeTold
<1>4. CASE Restart
  <2>1. PICK l : l = IF Ongoing = {} THEN list ELSE Outdated(list)
    OBVIOUS
  <2>2. IF route = Activity THEN ListOK(l) ELSE l = NoList
    BY <1>1, <2>1, Outdates
  <2>3. route' = route
    BY <1>4 DEF Restart
  <2>4. CASE unsent \union Ongoing \union Queued = {}
    <3>1. list' = list
      BY <1>4, <2>4 DEF Restart
    <3>2. unsent = {} /\ global.q = <<>>
      BY <2>4, SameNames, StreamFields, NothingWaits DEF StreamInv
    <3>3. QED
      BY <2>3, <3>1, <3>2, ListStays
  <2>5. CASE unsent \union Ongoing \union Queued # {}
    <3>1. list' = Missed(l)
      BY <1>4, <2>1, <2>5 DEF Restart
    <3>2. QED
      BY <2>2, <2>3, <3>1, Misses DEF ListInv, AboutToBeTold
  <2>6. QED
    BY <2>4, <2>5
<1>5. ASSUME NEW r \in Runs, Publish(r) PROVE ListInv'
  <2>1. route' = route
    BY <1>5 DEF Publish
  <2>2. CASE global.conn = "closed" \/ Full(global)
    <3>1. list' = Missed(list)
      BY <1>5, <2>2 DEF Publish
    <3>2. QED
      BY <1>1, <2>1, <3>1, Misses DEF ListInv, AboutToBeTold
  <2>3. CASE ~(global.conn = "closed" \/ Full(global))
    <3>1. list' = list /\ global' = [global EXCEPT !.q = Append(@, Record(r))]
      BY <1>5, <2>3 DEF Publish, Send
    <3>2. global \in Streams /\ global.q \in Seq(Shown) /\ Record(r) \in Shown
      BY StreamFields, Recorded DEF StreamInv
    <3>3. PICK t : t = Append(global.q, Record(r))
      OBVIOUS
    <3>4. t # <<>>
      BY <3>2, <3>3, Added
    <3>5. global'.q = t
      BY <3>1, <3>2, <3>3 DEF Streams
    <3>6. QED
      BY <2>1, <3>1, <3>4, <3>5, ListStays
  <2>4. QED
    BY <2>2, <2>3
<1>6. CASE GlobalConnect
  <2>1. UNCHANGED <<unsent, list, route>> /\ global.q = <<>>
    BY <1>6 DEF GlobalConnect, server, screen, StreamInv
  <2>2. QED
    BY <2>1, ListStays
<1>7. CASE GlobalSnapshot
  <2>1. UNCHANGED <<unsent, list, route>>
    BY <1>7 DEF GlobalSnapshot, server, screen
  <2>2. PICK runs : /\ runs = IF Ongoing = {} THEN <<>> ELSE <<Record(CHOOSE r \in Ongoing : TRUE)>>
                    /\ global' = [global EXCEPT !.conn = "open", !.q = runs \o @]
    BY <1>7 DEF GlobalSnapshot, WriteFirst
  <2>3. global \in Streams /\ global.q \in Seq(Shown)
    BY StreamFields DEF StreamInv
  <2>4. global'.q = runs \o global.q
    BY <2>2, <2>3 DEF Streams
  <2>5. CASE Ongoing = {}
    <3>1. global'.q = global.q
      BY <2>2, <2>3, <2>4, <2>5, NothingWaits
    <3>2. QED
      BY <2>1, <3>1, ListStays
  <2>6. CASE Ongoing # {}
    <3>1. PICK c : c = CHOOSE r \in Ongoing : TRUE
      OBVIOUS
    <3>2. c \in Runs
      BY <2>6, <3>1, ActiveHasBegun
    <3>3. PICK m : m = Record(c)
      OBVIOUS
    <3>4. m \in Shown
      BY <3>2, <3>3, Recorded
    <3>5. global'.q = <<m>> \o global.q
      BY <2>2, <2>4, <2>6, <3>1, <3>3
    <3>6. global'.q # <<>>
      BY <2>3, <3>4, <3>5, WrittenFirst
    <3>7. QED
      BY <2>1, <3>6, ListStays
  <2>7. QED
    BY <2>5, <2>6
<1>8. CASE GlobalDeliver
  <2>1. list' = (IF route = Activity THEN Reload(list) ELSE list) /\ route' = route
    BY <1>8 DEF GlobalDeliver, ScreenFollows
  <2>2. QED
    BY <1>1, <2>1, Reloads DEF ListInv
<1>9. CASE GlobalBreak
  <2>1. UNCHANGED <<unsent, route>>
    BY <1>9 DEF GlobalBreak, server
  <2>2. CASE Queued = {}
    <3>1. list' = list /\ global.q = <<>>
      BY <1>9, <2>2, SameNames, StreamFields, NothingWaits DEF StreamInv, GlobalBreak
    <3>2. QED
      BY <2>1, <3>1, ListStays
  <2>3. CASE Queued # {}
    <3>1. list' = Missed(list)
      BY <1>9, <2>3 DEF GlobalBreak
    <3>2. QED
      BY <1>1, <2>1, <3>1, Misses DEF ListInv, AboutToBeTold
  <2>4. QED
    BY <2>2, <2>3
<1>10. CASE HookConnect \/ HookRefused \/ HookDeliver \/ HookBreak
  BY <1>10, ListStays DEF server, live, HookConnect, HookRefused, HookDeliver, HookBreak
<1>11. ASSUME NEW f \in list.sent, ListRead(f) \/ ListArrives(f) \/ ListFails(f) PROVE ListInv'
  <2>1. UNCHANGED <<unsent, global, route>>
    BY <1>11 DEF ListRead, ListArrives, ListFails, server, live
  <2>2. route = Activity /\ ListOK(list)
    BY <1>1, <1>11, EmptyList
  <2>3. ListOK(list') /\ (ListTrue(list) => ListTrue(list')) /\ list'.blind = list.blind
    <3>1. CASE ListRead(f)
      <4>1. PICK g : g = [f EXCEPT !.answer = "fresh"]
        OBVIOUS
      <4>2. list' = [list EXCEPT !.sent = (@ \ {f}) \union {g}]
        BY <3>1, <4>1 DEF ListRead
      <4>3. QED
        BY <1>11, <2>2, <4>1, <4>2, Reads
    <3>2. CASE ListArrives(f)
      <4>1. list' = Settle(list, f, TRUE) /\ f.answer # "unread"
        BY <3>2 DEF ListArrives
      <4>2. QED
        BY <1>11, <2>2, <4>1, Settles
    <3>3. CASE ListFails(f)
      <4>1. list' = Settle(list, f, FALSE)
        BY <3>3 DEF ListFails
      <4>2. QED
        BY <1>11, <2>2, <4>1, Settles
    <3>4. QED
      BY <1>11, <3>1, <3>2, <3>3
  <2>4. QED
    BY <2>1, <2>2, <2>3 DEF ListInv, AboutToBeTold
<1>12. CASE InitialLoaded \/ InitialFails
  BY <1>12, ListStays DEF server, live, InitialLoaded, InitialFails
<1>13. ASSUME NEW r, Visit(r) PROVE ListInv'
  BY <1>13, ListGoes DEF Visit
<1>14. CASE RunNow
  BY <1>14, ListStays DEF RunNow, server, live
<1>15. CASE RunAnswered
  <2>1. CASE CanBegin /\ Begin /\ GoTo(Upcoming)
    <3>1. PICK u : u = Upcoming
      OBVIOUS
    <3>2. GoTo(u) /\ u \in Runs /\ u # Activity /\ unsent' # {}
      <4>1. u # Activity /\ u \in Runs
        BY <2>1, <3>1, Begins, Numbers
      <4>2. QED
        BY <2>1, <3>1, <4>1, Begins
    <3>3. CASE u = route
      <4>1. route' = route /\ list' = NoList
        BY <3>2, <3>3 DEF GoTo
      <4>2. QED
        BY <3>2, <3>3, <4>1 DEF ListInv
    <3>4. QED
      BY <3>2, <3>3, ListGoes
  <2>2. CASE Ongoing # {} /\ UNCHANGED <<status, unsent, route, hook, initial, list>>
    BY <1>15, <2>2, ListStays DEF RunAnswered, live
  <2>3. QED
    BY <1>15, <2>1, <2>2 DEF RunAnswered
<1>16. CASE Stop
  BY <1>16, ListStays DEF Stop, live, screen
<1>17. CASE UNCHANGED vars
  BY <1>17, ListStays DEF vars, server, live, screen
<1>18. QED
  BY <1>2, <1>3, <1>4, <1>5, <1>6, <1>7, <1>8, <1>9, <1>10, <1>11, <1>12, <1>13, <1>14, <1>15, <1>16, <1>17
  DEF Next, ServerStep, StreamStep, LoadStep, UserStep

-----------------------------------------------------------------------------
(* The stream of the run on screen.                                         *)

\* A stream that is left alone, or opened afresh, or broken, tells what it told.
LEMMA HookToldStays ==
    ASSUME HookTold, hook' = hook \/ hook'.conn # "open", Begun \subseteq Begun',
           hook.conn = "open" /\ hook.id \notin unsent' =>
               hook.id \notin unsent /\ status'[hook.id] = status[hook.id]
    PROVE  HookTold'
<1>1. CASE hook'.conn # "open"
  BY <1>1 DEF HookTold
<1>2. CASE hook' = hook
  <2>1. SUFFICES ASSUME hook.conn = "open"
                 PROVE  /\ hook.id \in Begun'
                        /\ ~hook.behind /\ hook.id \notin unsent' => LastTold(hook) = Record(hook.id)'
    BY <1>2 DEF HookTold, LastTold, Record
  <2>2. QED
    BY <1>2, <2>1 DEF HookTold, Record
<1>3. QED
  BY <1>1, <1>2

\* A hook that is given a run keeps its stream only for the same one.
LEMMA KeptOrClosed ==
    ASSUME NEW id PROVE (Retarget(hook, id) = hook \/ Retarget(hook, id).conn # "open") /\ FreshHook(id).conn # "open"
<1>1. FreshHook(id).conn = "closed"
  BY DEF FreshHook
<1>2. CASE hook.id # id
  <2>1. Retarget(hook, id) = [id |-> id, conn |-> "closed", q |-> <<>>, run |-> hook.run, behind |-> FALSE]
    BY <1>2 DEF Retarget, FreshHook
  <2>2. QED
    BY <1>1, <2>1
<1>3. CASE hook.id = id
  BY <1>1, <1>3 DEF Retarget
<1>4. QED
  BY <1>2, <1>3

\* So is the hook of the screen the user goes to.
LEMMA GoesKeptOrClosed ==
    ASSUME NEW r \in 0..Activity, r # route, GoTo(r) PROVE hook'.conn # "open" \/ hook' = hook
<1>1. CASE r = Jobs
  <2>1. r # Activity /\ r \notin 1..BadId
    BY <1>1, Numbers
  <2>2. hook' = FreshHook(activeRun.id)
    BY <1>1, <2>1 DEF GoTo
  <2>3. QED
    BY <2>2, KeptOrClosed
<1>2. CASE r = Activity
  <2>1. r # Jobs /\ r \notin 1..BadId
    BY <1>2, Numbers
  <2>2. hook' = FreshHook(0)
    BY <1>2, <2>1 DEF GoTo
  <2>3. QED
    BY <2>2, KeptOrClosed
<1>3. CASE r \in 1..BadId
  <2>1. r # Jobs /\ r # Activity
    BY <1>3, Numbers
  <2>2. hook' = IF route \in 1..BadId THEN Retarget(hook, r) ELSE FreshHook(r)
    BY <1>3, <2>1 DEF GoTo
  <2>3. QED
    BY <2>2, KeptOrClosed
<1>4. QED
  BY <1>1, <1>2, <1>3, Numbers

\* What a stream was told last stays what is stored, until the next change.
LEMMA HookStep_HookTold == ServerInv /\ ScreenInv /\ HookTold /\ [Next]_vars => HookTold'
<1> SUFFICES ASSUME ServerInv, ScreenInv, HookTold, [Next]_vars PROVE HookTold'
  OBVIOUS
<1>1. hook \in Hooks /\ HookOK(hook) /\ hook.q \in Seq(Shown) /\ status \in [Runs -> Statuses]
  BY Bounded DEF Hooks, ServerInv
<1>2. UNCHANGED <<status, unsent>> => (hook' = hook \/ hook'.conn # "open" => HookTold')
  <2>1. UNCHANGED status => Begun' = Begun
    BY DEF Begun
  <2>2. QED
    BY <2>1, HookToldStays
<1>3. ASSUME CanBegin, Begin, hook' = hook \/ hook'.conn # "open" PROVE HookTold'
  <2>1. PICK u : u = Upcoming
    OBVIOUS
  <2>2. u \notin Begun /\ Begun \subseteq Begun' /\ unsent \subseteq unsent'
    BY <1>3, <2>1, Begins
  <2>3. status' = [status EXCEPT ![u] = "running"]
    BY <1>3, <2>1 DEF Begin
  <2>4. hook.conn = "open" => hook.id \in Begun /\ status'[hook.id] = status[hook.id]
    BY <1>1, <2>2, <2>3 DEF HookTold
  <2>5. QED
    BY <1>3, <2>2, <2>4, HookToldStays
<1>4. CASE ScheduledRun
  BY <1>3, <1>4 DEF ScheduledRun
<1>5. CASE Restart
  <2>1. hook' = [hook EXCEPT !.conn = IF hook.conn = "refused" THEN "refused" ELSE "closed", !.q = <<>>]
    BY <1>5 DEF Restart
  <2>2. hook'.conn # "open"
    BY <1>1, <2>1 DEF Hooks
  <2>3. QED
    BY <2>2 DEF HookTold
<1>6. ASSUME NEW r \in Runs, Finalize(r) PROVE HookTold'
  <2>1. hook' = hook /\ unsent' = unsent \union {r} /\ Begun' = Begun
    BY <1>6, Ends DEF Finalize
  <2>2. hook.id # r => status'[hook.id] = status[hook.id]
    BY <1>1, <1>6 DEF Finalize
  <2>3. QED
    BY <2>1, <2>2, HookToldStays
<1>7. ASSUME NEW r \in Runs, Publish(r) PROVE HookTold'
  <2>1. UNCHANGED status /\ unsent' = unsent \ {r} /\ Begun' = Begun
    BY <1>7 DEF Publish, Begun
  <2>2. CASE hook.id # r
    <3>1. hook' = hook
      BY <1>7, <2>2 DEF Publish
    <3>2. QED
      BY <2>1, <2>2, <3>1, HookToldStays
  <2>3. CASE hook.id = r
    <3>1. PICK m : m = Record(r)
      OBVIOUS
    <3>2. hook' = [Send(hook, m) EXCEPT !.behind = @ \/ (hook.conn # "closed" /\ Full(hook))]
      BY <1>7, <2>3, <3>1 DEF Publish
    <3>3. CASE hook.conn # "open"
      <4>1. hook.conn = "closed"
        BY <1>1, <1>7, <2>3, <3>3, Numbers DEF HookOK, Hooks
      <4>2. Send(hook, m) = hook
        BY <4>1 DEF Send
      <4>3. hook'.conn = "closed"
        BY <1>1, <3>2, <4>1, <4>2 DEF Hooks
      <4>4. QED
        BY <4>3 DEF HookTold
    <3>4. CASE hook.conn = "open" /\ Full(hook)
      <4>1. Send(hook, m) = hook
        BY <3>4 DEF Send
      <4>2. hook'.behind /\ hook'.id = hook.id
        BY <1>1, <3>2, <3>4, <4>1 DEF Hooks
      <4>3. QED
        BY <2>1, <3>4, <4>2 DEF HookTold
    <3>5. CASE hook.conn = "open" /\ ~Full(hook)
      <4>1. PICK t : t = Append(hook.q, m)
        OBVIOUS
      <4>2. Send(hook, m) = [hook EXCEPT !.q = t]
        BY <1>1, <3>5, <4>1 DEF Send, Hooks
      <4>3. hook'.q = t /\ hook'.id = r
        BY <1>1, <2>3, <3>2, <4>2 DEF Hooks
      <4>4. m \in Shown
        BY <3>1, Recorded
      <4>5. t # <<>> /\ t[Len(t)] = m
        <5>1. t # <<>>
          BY <1>1, <4>1, <4>4, Added
        <5>2. QED
          BY <1>1, <4>1, <4>4, <5>1, LenProperties, AppendProperties
      <4>6. LastTold(hook)' = m
        BY <4>3, <4>5 DEF LastTold
      <4>7. Record(hook.id)' = m
        BY <2>1, <3>1, <4>3 DEF Record
      <4>8. hook'.id \in Begun'
        BY <2>1, <2>3, <3>5, <4>3 DEF HookTold
      <4>9. QED
        BY <4>6, <4>7, <4>8 DEF HookTold
    <3>6. QED
      BY <3>3, <3>4, <3>5
  <2>4. QED
    BY <2>2, <2>3
<1>8. CASE GlobalConnect \/ GlobalSnapshot \/ GlobalBreak
  BY <1>2, <1>8 DEF GlobalConnect, GlobalSnapshot, GlobalBreak, server, screen
<1>9. CASE GlobalDeliver
  <2>1. hook' = (IF route = Jobs THEN Retarget(hook, First(active').id) ELSE hook) /\ UNCHANGED <<status, unsent>>
    BY <1>9 DEF GlobalDeliver, ScreenFollows, server
  <2>2. QED
    BY <1>2, <2>1, KeptOrClosed
<1>10. CASE HookConnect
  <2>1. PICK m : m = Record(hook.id)
    OBVIOUS
  <2>2. PICK q : q = <<m>>
    OBVIOUS
  <2>3. q # <<>> /\ q[Len(q)] = m
    BY <2>2
  <2>4. hook' = [hook EXCEPT !.conn = "open", !.q = q, !.behind = FALSE] /\ hook.id \in Begun /\ UNCHANGED status
    BY <1>10, <2>1, <2>2 DEF HookConnect, server
  <2>5. hook'.id = hook.id /\ hook'.q = q
    BY <1>1, <2>4 DEF Hooks
  <2>6. Record(hook.id)' = m /\ LastTold(hook)' = m /\ hook'.id \in Begun'
    BY <2>1, <2>3, <2>4, <2>5 DEF Record, LastTold, Begun
  <2>7. QED
    BY <2>6 DEF HookTold
<1>11. CASE HookRefused
  BY <1>1, <1>11 DEF HookRefused, HookTold, Hooks
<1>12. CASE HookDeliver
  <2>1. PICK m : m = Head(hook.q)
    OBVIOUS
  <2>2. PICK t : t = Tail(hook.q)
    OBVIOUS
  <2>3. hook' = [hook EXCEPT !.run = m, !.q = t] /\ hook.conn = "open" /\ hook.q # <<>> /\ UNCHANGED <<status, unsent>>
    BY <1>12, <2>1, <2>2 DEF HookDeliver, server
  <2>4. /\ hook'.id = hook.id /\ hook'.run = m /\ hook'.q = t /\ hook'.behind = hook.behind
    BY <1>1, <2>3 DEF Hooks
  <2>5. LastTold(hook)' = LastTold(hook)
    <3>1. PICK q \in Seq(Shown) : q = hook.q /\ q # <<>>
      BY <1>1, <2>3
    <3>2. /\ Len(q) \in Nat \ {0} /\ q[1] = m /\ t \in Seq(Shown) /\ Len(t) = Len(q) - 1
          /\ \A i \in 1..Len(t) : t[i] = q[i + 1]
      <4>1. Len(q) \in Nat \ {0} /\ q[1] = m
        BY <2>1, <3>1, EmptySeq, LenProperties
      <4>2. t \in Seq(Shown) /\ Len(t) = Len(q) - 1 /\ \A i \in 1..Len(t) : t[i] = q[i + 1]
        BY <2>2, <3>1, HeadTailProperties
      <4>3. QED
        BY <4>1, <4>2
    <3>3. CASE t = <<>>
      <4>1. Len(q) = 1
        BY <3>2, <3>3, EmptySeq
      <4>2. QED
        BY <2>4, <3>1, <3>2, <3>3, <4>1 DEF LastTold
    <3>4. CASE t # <<>>
      <4>1. Len(t) \in Nat \ {0}
        BY <3>2, <3>4, EmptySeq
      <4>2. t[Len(t)] = q[Len(q)]
        BY <3>2, <4>1
      <4>3. QED
        BY <2>4, <3>1, <3>4, <4>2 DEF LastTold
    <3>5. QED
      BY <3>3, <3>4
  <2>6. QED
    BY <2>3, <2>4, <2>5 DEF HookTold, Record, Begun
<1>13. CASE HookBreak
  <2>1. hook' = [hook EXCEPT !.conn = "closed", !.q = <<>>]
    BY <1>13 DEF HookBreak
  <2>2. hook'.conn # "open"
    BY <1>1, <2>1 DEF Hooks
  <2>3. QED
    BY <2>2 DEF HookTold
<1>14. CASE LoadStep
  BY <1>2, <1>14 DEF LoadStep, server, ListRead, ListArrives, ListFails, InitialLoaded, InitialFails
<1>15. ASSUME NEW r \in Begun \union {Jobs, Activity, BadId}, Visit(r) PROVE HookTold'
  <2>1. r \in 0..Activity
    BY ActiveHasBegun, Numbers
  <2>2. QED
    BY <1>2, <1>15, <2>1, GoesKeptOrClosed DEF Visit, server
<1>16. CASE RunNow
  BY <1>2, <1>16 DEF RunNow, server
<1>17. CASE RunAnswered
  <2>1. CASE CanBegin /\ Begin /\ GoTo(Upcoming)
    <3>1. PICK u : u = Upcoming
      OBVIOUS
    <3>2. u \in 0..Activity /\ GoTo(u)
      BY <2>1, <3>1, Begins, Numbers
    <3>3. u = route => hook' = hook
      BY <3>2 DEF GoTo
    <3>4. QED
      BY <1>3, <2>1, <3>2, <3>3, GoesKeptOrClosed
  <2>2. CASE UNCHANGED <<status, unsent, hook>>
    BY <1>2, <2>2
  <2>3. QED
    BY <1>17, <2>1, <2>2 DEF RunAnswered
<1>18. CASE Stop
  BY <1>2, <1>18 DEF Stop, screen
<1>19. CASE UNCHANGED vars
  BY <1>2, <1>19 DEF vars, server, screen
<1>20. QED
  BY <1>4, <1>5, <1>6, <1>7, <1>8, <1>9, <1>10, <1>11, <1>12, <1>13, <1>14, <1>15, <1>16, <1>17, <1>18, <1>19
  DEF Next, ServerStep, StreamStep, UserStep

\* What has begun stays so.
LEMMA BegunStays == ServerInv /\ [Next]_vars => Begun \subseteq Begun'
<1> SUFFICES ASSUME ServerInv, [Next]_vars PROVE Begun \subseteq Begun'
  OBVIOUS
<1>1. UNCHANGED status => Begun' = Begun
  BY DEF Begun
<1>2. CASE ScheduledRun \/ RunAnswered
  BY <1>1, <1>2, Begins DEF ScheduledRun, RunAnswered
<1>3. CASE Restart
  BY <1>3, Interrupts
<1>4. ASSUME NEW r \in Runs, Finalize(r) PROVE Begun \subseteq Begun'
  BY <1>4, Ends
<1>5. ASSUME NEW r \in Runs, Publish(r) PROVE Begun \subseteq Begun'
  BY <1>1, <1>5 DEF Publish
<1>6. CASE StreamStep
  BY <1>1, <1>6 DEF StreamStep, server, GlobalConnect, GlobalSnapshot, GlobalDeliver, GlobalBreak,
       HookConnect, HookRefused, HookDeliver, HookBreak
<1>7. CASE LoadStep
  BY <1>1, <1>7 DEF LoadStep, server, ListRead, ListArrives, ListFails, InitialLoaded, InitialFails
<1>8. ASSUME NEW r, Visit(r) PROVE Begun \subseteq Begun'
  BY <1>1, <1>8 DEF Visit, server
<1>9. CASE RunNow \/ Stop \/ UNCHANGED vars
  BY <1>1, <1>9 DEF RunNow, Stop, vars, server
<1>10. QED
  BY <1>2, <1>3, <1>4, <1>5, <1>6, <1>7, <1>8, <1>9 DEF Next, ServerStep, UserStep

\* The user goes to runs that have begun, and the card to the first active one.
LEMMA WhereGoes ==
    ASSUME NEW r \in 0..Activity, r # route, GoTo(r), active' = active, r \in Runs => r \in Begun'
    PROVE  WhereInv'
<1>1. route' = r
  BY DEF GoTo
<1>2. ~initial'.missing
  <2>1. initial' = [NoInitial EXCEPT !.loading = r \in 1..BadId]
    BY DEF GoTo
  <2>2. QED
    BY <2>1 DEF NoInitial
<1>3. r = Jobs => hook'.id = activeRun.id
  <2>1. SUFFICES ASSUME r = Jobs PROVE hook'.id = activeRun.id
    OBVIOUS
  <2>2. r # Activity /\ r \notin 1..BadId
    BY <2>1, Numbers
  <2>3. hook' = FreshHook(activeRun.id)
    BY <2>1, <2>2 DEF GoTo
  <2>4. QED
    BY <2>3 DEF FreshHook
<1>4. QED
  BY <1>1, <1>2, <1>3 DEF WhereInv, activeRun

\* A step that leaves the user where they are.
LEMMA WhereStays ==
    ASSUME WhereInv, Begun \subseteq Begun', UNCHANGED <<route, active>>, hook'.id = hook.id,
           initial'.missing => initial.missing \/ route = BadId
    PROVE  WhereInv'
BY DEF WhereInv, activeRun

\* Every step leaves the user at a run that has begun, and the card at its run.
LEMMA VisitStep_WhereInv == ServerInv /\ StreamInv /\ ScreenInv /\ WhereInv /\ [Next]_vars => WhereInv'
<1> SUFFICES ASSUME ServerInv, StreamInv, ScreenInv, WhereInv, [Next]_vars PROVE WhereInv'
  OBVIOUS
<1>1. Begun \subseteq Begun' /\ hook \in Hooks /\ HookOK(hook)
  BY BegunStays, Bounded
<1>2. CASE ScheduledRun
  BY <1>1, <1>2, WhereStays DEF ScheduledRun, live
<1>3. CASE Restart
  <2>1. hook' = [hook EXCEPT !.conn = IF hook.conn = "refused" THEN "refused" ELSE "closed", !.q = <<>>]
    BY <1>3 DEF Restart
  <2>2. hook'.id = hook.id
    BY <1>1, <2>1 DEF Hooks
  <2>3. QED
    BY <1>1, <1>3, <2>2, WhereStays DEF Restart
<1>4. ASSUME NEW r \in Runs, Finalize(r) PROVE WhereInv'
  BY <1>1, <1>4, WhereStays DEF Finalize, live
<1>5. ASSUME NEW r \in Runs, Publish(r) PROVE WhereInv'
  <2>1. UNCHANGED <<route, active, initial>>
    BY <1>5 DEF Publish
  <2>2. hook'.id = hook.id
    <3>1. PICK m : m = Record(r)
      OBVIOUS
    <3>2. PICK s : s = Send(hook, m) /\ s.id = hook.id /\ DOMAIN s = {"id", "conn", "q", "run", "behind"}
      <4>1. PICK s : s = Send(hook, m)
        OBVIOUS
      <4>2. CASE hook.conn = "closed" \/ Full(hook)
        <5>1. s = hook
          BY <4>1, <4>2 DEF Send
        <5>2. QED
          BY <1>1, <4>1, <5>1 DEF Hooks
      <4>3. CASE ~(hook.conn = "closed" \/ Full(hook))
        <5>1. PICK t : t = Append(hook.q, m)
          OBVIOUS
        <5>2. s = [hook EXCEPT !.q = t]
          BY <1>1, <4>1, <4>3, <5>1 DEF Send, Hooks
        <5>3. QED
          BY <1>1, <4>1, <5>2 DEF Hooks
      <4>4. QED
        BY <4>2, <4>3
    <3>3. hook' = hook \/ hook' = [s EXCEPT !.behind = @ \/ (hook.conn # "closed" /\ Full(hook))]
      BY <1>5, <3>1, <3>2 DEF Publish
    <3>4. QED
      BY <3>2, <3>3
  <2>3. QED
    BY <1>1, <2>1, <2>2, WhereStays
<1>6. CASE GlobalConnect \/ GlobalSnapshot \/ GlobalBreak
  BY <1>1, <1>6, WhereStays DEF GlobalConnect, GlobalSnapshot, GlobalBreak, screen
<1>7. CASE GlobalDeliver
  <2>1. hook' = (IF route = Jobs THEN Retarget(hook, First(active').id) ELSE hook) /\ UNCHANGED <<route, initial>>
    BY <1>7 DEF GlobalDeliver, ScreenFollows
  <2>2. First(active').id \in 0..BadId
    <3>1. PICK m : m = Head(global.q)
      OBVIOUS
    <3>2. global.q \in Seq(Shown) /\ global.q # <<>> /\ active' = Merge(active, m)
      BY <1>7, <3>1 DEF GlobalDeliver, Streams, StreamInv
    <3>3. m \in Shown
      BY <3>1, <3>2, HeadTailProperties
    <3>4. active' \in Seq(Shown)
      BY <3>2, <3>3, Merged DEF StreamInv
    <3>5. QED
      BY <3>4, FirstRow
  <2>3. route = Jobs => hook'.id = First(active').id
    BY <1>1, <2>1, <2>2, Retargets
  <2>4. QED
    BY <1>1, <2>1, <2>3 DEF WhereInv, activeRun
<1>8. CASE HookConnect \/ HookRefused \/ HookDeliver \/ HookBreak
  <2>1. hook'.id = hook.id
    BY <1>1, <1>8 DEF HookConnect, HookRefused, HookDeliver, HookBreak, Hooks
  <2>2. QED
    BY <1>1, <1>8, <2>1, WhereStays DEF HookConnect, HookRefused, HookDeliver, HookBreak, live
<1>9. ASSUME NEW f \in list.sent, ListRead(f) \/ ListArrives(f) \/ ListFails(f) PROVE WhereInv'
  BY <1>1, <1>9, WhereStays DEF ListRead, ListArrives, ListFails, live
<1>10. CASE InitialLoaded \/ InitialFails
  <2>1. initial.loading
    BY <1>10 DEF InitialLoaded, InitialFails
  <2>2. route \in 1..BadId
    BY <2>1 DEF ScreenInv, NoInitial
  <2>3. route \notin Begun => route = BadId
    BY <2>2, Numbers DEF WhereInv
  <2>4. initial'.missing => route = BadId
    <3>1. ASSUME InitialLoaded, route \in Begun PROVE ~initial'.missing
      <4>1. (route \notin Begun) = FALSE
        BY <3>1
      <4>2. initial'.missing = (route \notin Begun)
        BY <3>1 DEF InitialLoaded
      <4>3. QED
        BY <4>1, <4>2
    <3>2. InitialFails => ~initial'.missing
      BY DEF InitialFails, NoInitial
    <3>3. QED
      BY <1>10, <2>3, <3>1, <3>2
  <2>5. QED
    BY <1>1, <1>10, <2>4, WhereStays DEF InitialLoaded, InitialFails, live
<1>11. ASSUME NEW r \in Begun \union {Jobs, Activity, BadId}, Visit(r) PROVE WhereInv'
  <2>1. r \in 0..Activity /\ (r \in Runs => r \in Begun)
    BY ActiveHasBegun, Numbers
  <2>2. QED
    BY <1>1, <1>11, <2>1, WhereGoes DEF Visit, live
<1>12. CASE RunNow
  BY <1>1, <1>12, WhereStays DEF RunNow, live
<1>13. CASE RunAnswered
  <2>1. active' = active
    BY <1>13 DEF RunAnswered, live
  <2>2. CASE CanBegin /\ Begin /\ GoTo(Upcoming)
    <3>1. PICK u : u = Upcoming
      OBVIOUS
    <3>2. u \in Runs /\ u \notin Begun /\ u \in Begun' /\ u \in 0..Activity /\ GoTo(u)
      BY <2>2, <3>1, Begins, Numbers
    <3>3. u # route
      BY <3>2 DEF WhereInv
    <3>4. QED
      BY <2>1, <3>2, <3>3, WhereGoes
  <2>3. CASE UNCHANGED <<status, unsent, route, hook, initial, list>>
    BY <1>1, <2>1, <2>3, WhereStays
  <2>4. QED
    BY <1>13, <2>2, <2>3 DEF RunAnswered
<1>14. CASE Stop
  BY <1>1, <1>14, WhereStays DEF Stop, live, screen
<1>15. CASE UNCHANGED vars
  BY <1>1, <1>15, WhereStays DEF vars, live, screen
<1>16. QED
  BY <1>2, <1>3, <1>4, <1>5, <1>6, <1>7, <1>8, <1>9, <1>10, <1>11, <1>12, <1>13, <1>14, <1>15
  DEF Next, ServerStep, StreamStep, LoadStep, UserStep

-----------------------------------------------------------------------------
(* Theorems.                                                                *)

\* The invariant holds when the browser first connects.
LEMMA Init_IInv == Init => IInv
<1> SUFFICES ASSUME Init PROVE IInv
  OBVIOUS
<1>1. Begun = {} /\ Ongoing = {}
  BY DEF Init, Begun, Ongoing, isActive
<1>2. ServerInv
  <2>1. status \in [Runs -> Statuses]
    BY DEF Init, Statuses
  <2>2. 0 \in 0..MaxRun /\ 1..0 = {}
    BY Numbers
  <2>3. QED
    BY <1>1, <2>1, <2>2 DEF Init, ServerInv
<1>3. global \in Streams /\ global.conn = "closed" /\ global.q = <<>> /\ active = <<>> /\ lost = {}
  BY StreamFields DEF Init
<1>4. TellInv
  BY <1>1, <1>3, NothingWaits DEF TellInv, StreamInv, ToldInv, OverTold, ActiveTold, OneRowEach
<1>5. ScreenInv
  <2>1. HookOK(hook)
    BY FreshHooks, Numbers DEF Init
  <2>2. route \in 0..Activity /\ route \notin 1..BadId
    BY Numbers DEF Init
  <2>3. initial = NoInitial /\ NoInitial \in Initials
    BY DEF Init, NoInitial, Initials
  <2>4. breaks \in 0..MaxBreaks /\ visits \in 0..MaxVisits
    BY Numbers DEF Init
  <2>5. QED
    BY <2>1, <2>2, <2>3, <2>4 DEF Init, ScreenInv
<1>6. ListInv
  BY EmptyList DEF Init, ListInv
<1>7. HookTold
  BY DEF Init, HookTold, FreshHook
<1>8. WhereInv
  <2>1. route \notin Runs
    BY Numbers DEF Init
  <2>2. hook.id = 0 /\ activeRun.id = 0
    BY <1>3 DEF Init, FreshHook, activeRun, First, NoRun
  <2>3. QED
    BY <2>1, <2>2 DEF Init, WhereInv, NoInitial
<1>9. QED
  BY <1>2, <1>4, <1>5, <1>6, <1>7, <1>8 DEF IInv, TellInv

\* The invariant is inductive, part by part.
LEMMA Next_IInv == IInv /\ [Next]_vars => IInv'
BY ServerStep_ServerInv, StreamStep_TellInv, ScreenStep_ScreenInv, LoadStep_ListInv,
   HookStep_HookTold, VisitStep_WhereInv DEF IInv, TellInv

\* So it always holds.
LEMMA Always_IInv == Spec => []IInv
BY Init_IInv, Next_IInv, PTL DEF Spec

\* The type invariant: a stream that is not connected holds no message, and the
\* screens' state is that of the screen the user is on.
THEOREM TypeCorrect == Spec => []TypeOK
<1>1. IInv => TypeOK
  <2>1. SUFFICES ASSUME IInv PROVE TypeOK
    OBVIOUS
  <2>2. StreamOK(global) /\ active \in Seq(Shown) /\ lost \subseteq Begun
    BY <2>1 DEF IInv, StreamInv, StreamOK, Streams
  <2>3. StreamOK(hook) /\ hook.id \in 0..BadId /\ hook.run \in Shown \union {NoRun}
    BY <2>1 DEF IInv, ScreenInv, HookOK, Hooks, StreamOK
  <2>4. \A f, h \in list.sent : f.newest /\ h.newest => f = h
    BY <2>1, EmptyList DEF IInv, ListInv, ListOK
  <2>5. route # Activity => list = NoList
    BY <2>1 DEF IInv, ListInv
  <2>6. QED
    BY <2>1, <2>2, <2>3, <2>4, <2>5 DEF IInv, ServerInv, ScreenInv, TypeOK
<1>2. QED
  BY <1>1, Always_IInv, PTL

\* The badge, the list of active runs and the cards are told of every run that is
\* active and of no other, but for what is on its way or was lost
\* (live.jsx es.onmessage, handleEvents).
THEOREM ActiveRunsAreTold == Spec => []ActiveRunsTold
<1>1. IInv => ActiveRunsTold
  <2>1. SUFFICES ASSUME IInv PROVE ActiveRunsTold
    OBVIOUS
  <2>2. RunningCount = Cardinality(ActiveRows)
    BY <2>1, BadgeCountsRuns DEF IInv, StreamInv
  <2>3. ASSUME NEW r \in ActiveRows \ Ongoing PROVE r \in unsent \union Queued \union lost
    <3>1. r \in Of(active)
      BY SameNames
    <3>2. r \in Begun /\ OverTold(r)
      BY <2>1, <3>1, ActiveHasBegun DEF IInv, StreamInv, ToldInv
    <3>3. QED
      BY <2>3, <3>1, <3>2, SameNames DEF OverTold
  <2>4. global.conn = "open" => Ongoing \ ActiveRows \subseteq unsent \union Queued \union lost
    BY <2>1, SameNames DEF IInv, ToldInv, ActiveTold, Ongoing
  <2>5. QED
    BY <2>2, <2>3, <2>4 DEF ActiveRunsTold, GhostsComeFromGaps, NoActiveRunHidden
<1>2. QED
  BY <1>1, Always_IInv, PTL

\* Every screen that has heard everything shows what is so. The list: every change
\* is published after it is stored, every event reloads the list, and an older load
\* cannot overwrite a newer one (useFetch). The page of a run and the card: every
\* reconnect sends the record first (handleRunEvents), and what the hook still held
\* of another run gives way (useRunStream).
THEOREM ScreensAreCurrent == Spec => []ScreensCurrent
<1>1. IInv => ListCurrent
  <2>1. SUFFICES ASSUME IInv, route = Activity, ~loading(list), ~list.error, ~list.blind, global.q = <<>>, unsent = {}
                 PROVE  ActivityScreen = "fresh" /\ DashboardScreen = [problem |-> FALSE, jobs |-> "fresh"]
    BY DEF ListCurrent
  <2>2. ListOK(list) /\ ListTrue(list)
    BY <2>1 DEF IInv, ListInv, AboutToBeTold
  <2>3. list.data = "fresh" /\ list.error = FALSE
    BY <2>1, <2>2 DEF ListOK, ListTrue, Lists
  <2>4. QED
    BY <2>1, <2>3 DEF ActivityScreen, DashboardScreen
<1>2. IInv => StreamedRunCurrent
  <2>1. SUFFICES ASSUME IInv, hook.conn = "open", hook.q = <<>>, ~hook.behind, hook.id \notin unsent
                 PROVE  /\ route \in Runs => RunScreen = [page |-> status[route], stop |-> isActive(status[route])]
                        /\ route = Jobs   => CardRunning = isActive(status[activeRun.id])
    BY DEF StreamedRunCurrent
  <2>2. hook.run = Record(hook.id) /\ hook.id \in Runs
    BY <2>1, ActiveHasBegun DEF IInv, HookTold, LastTold
  <2>3. hook.run # NoRun /\ hook.run.status = status[hook.id]
    BY <2>2, Numbers DEF Record, NoRun
  <2>4. ASSUME route \in Runs PROVE RunScreen = [page |-> status[route], stop |-> isActive(status[route])]
    <3>1. hook.id = route /\ ~initial.missing
      BY <2>1, <2>4, Numbers DEF IInv, ScreenInv, WhereInv
    <3>2. current = hook.run
      BY <2>3 DEF current
    <3>3. RunScreen = [page |-> current.status, stop |-> isActive(current.status)]
      BY <2>3, <3>1, <3>2 DEF RunScreen
    <3>4. QED
      BY <2>3, <3>1, <3>2, <3>3
  <2>5. ASSUME route = Jobs PROVE CardRunning = isActive(status[activeRun.id])
    <3>1. hook.id = activeRun.id /\ CardLive = hook.run
      BY <2>1, <2>3, <2>5 DEF IInv, WhereInv, CardLive
    <3>2. CardLive.status = status[activeRun.id]
      BY <2>3, <3>1
    <3>3. QED
      BY <3>2 DEF CardRunning
  <2>6. QED
    BY <2>4, <2>5
<1>3. QED
  BY <1>1, <1>2, Always_IInv, PTL DEF ScreensCurrent
=============================================================================
