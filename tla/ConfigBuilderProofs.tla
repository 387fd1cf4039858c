------------------------ MODULE ConfigBuilderProofs ------------------------
(***************************************************************************)
(* For all clients, lists and answers, and however many commands: what is  *)
(* written is what the operator accepted, item by item; it can be loaded   *)
(* again; a refusal leaves the files as they were; rules never come before *)
(* their configuration; and only the client that was named is touched.     *)
(***************************************************************************)
EXTENDS ConfigBuilder, FiniteSetTheorems, WellFoundedInduction, TLAPS

Lists == {"rules", "filters"}
ItemsOf(f) == IF f = "rules" THEN Rule ELSE Filter

(* Where a command is with its questions.                                    *)
StageOK ==
  /\ at \in {"idle", "client", "apply"} => cursor = 0
  /\ at = "client" \/ (at = "rules" /\ cursor = 0) => removes = <<>>
  /\ at = "rules" \/ (at = "filters" /\ cursor = 0)
       => \A k \in DOMAIN removes : removes[k][1] # "filters"
  /\ at \in {"open", "fill"} => removes = <<>> /\ cursor \in {1, 2}
  /\ at # "idle" => last = "none" /\ wanted.bucket = bundle.bucket
  /\ at \in {"filters", "apply", "open", "fill"} \/ (at = "rules" /\ cursor > 0)
       => bundle.bucket # None

(* The items of a list that have been answered, or were accepted as a whole. *)
Answered(f, x) ==
  {i \in DOMAIN bundle[f] : bundle[f][i] = x /\ (at = f /\ cursor > 0 => i < cursor)}

(* Each of them the operator wants, or wants removed at the end.             *)
Balance(f) ==
  \A x \in ItemsOf(f) :
    Cardinality(Answered(f, x)) = Times(wanted[f], x) + Times(removes, <<f, x>>)
ChoiceOK == at # "idle" => \A f \in Lists : Balance(f)

(* What has been written so far.                                             *)
Written == at = "fill" \/ (at = "open" /\ cursor = 2)
FilesOK ==
  at # "idle" =>
    /\ \A p \in Paths : p # cmd.path => json[p] = before[1][p]
    /\ ~Written => json = before[1]
    /\ ~(at = "fill" /\ cursor = 2) => csv = before[2]
    /\ Written /\ cmd.op = "add" => before[1][cmd.path] = Absent
    /\ Written /\ cursor = 2
         => json[cmd.path] = [bucket |-> bundle.bucket, filters |-> bundle.filters]
    /\ \A p \in Paths : p # cmd.path => csv[p] = before[2][p]

(* The client is the one that was named, unless there is none of that name.  *)
TargetOK ==
  at # "idle" =>
    \/ cmd.path[2] = cmd.given
    \/ \A h \in Homes : cmd.given \in Clients => before[1][<<h, cmd.given>>] = Absent

ToolInv == ToolTypeOK /\ StageOK /\ ChoiceOK /\ FilesOK /\ TargetOK

------------------------------------------------------------------------------
(* Lemmas about lists.                                                       *)

LEMMA MinOfNats ==
  ASSUME NEW S \in SUBSET Nat, S # {}
  PROVE  Min(S) \in S
<1> DEFINE R == {q \in Nat \X Nat : q[1] < q[2]}
<1>1. PICK m \in S : \A n \in S : ~(<<n, m>> \in R)
  <2> HIDE DEF R
  <2>1. IsWellFoundedOn(R, Nat)
    BY NatLessThanWellFounded DEF R, OpToRel
  <2> QED
    BY <2>1, WFMin
<1>2. ASSUME NEW n \in S PROVE m <= n
  <2>1. m \in Nat /\ n \in Nat
    BY <1>1
  <2>2. ~(<<n, m>> \in R)
    BY <1>1
  <2> QED
    BY <2>1, <2>2
<1> QED
  BY <1>2 DEF Min

LEMMA PlacesFinite ==
  ASSUME NEW T, NEW s \in Seq(T), NEW P \in SUBSET DOMAIN s
  PROVE  IsFiniteSet(P) /\ Cardinality(P) \in Nat
<1>1. IsFiniteSet(1 .. Len(s))
  BY FS_Interval
<1>2. P \in SUBSET (1 .. Len(s))
  OBVIOUS
<1> QED
  BY <1>1, <1>2, FS_Subset, FS_CardinalityType

LEMMA TimesType ==
  ASSUME NEW T, NEW s \in Seq(T), NEW x
  PROVE  Times(s, x) \in Nat /\ (Times(s, x) = 0 <=> \A i \in DOMAIN s : s[i] # x)
<1> DEFINE P == {i \in DOMAIN s : s[i] = x}
<1>1. IsFiniteSet(P) /\ Cardinality(P) \in Nat
  BY PlacesFinite
<1>2. Cardinality(P) = 0 <=> P = {}
  BY <1>1, FS_EmptySet
<1> QED
  BY <1>1, <1>2 DEF Times

LEMMA TimesAppend ==
  ASSUME NEW T, NEW s \in Seq(T), NEW y \in T, NEW x
  PROVE  Times(Append(s, y), x) = Times(s, x) + (IF x = y THEN 1 ELSE 0)
<1> DEFINE n == Len(s) + 1
           P == {i \in DOMAIN s : s[i] = x}
           Q == {i \in DOMAIN Append(s, y) : Append(s, y)[i] = x}
<1>1. IsFiniteSet(P) /\ Cardinality(P) \in Nat /\ n \notin P
  BY PlacesFinite
<1>0. Times(s, x) = Cardinality(P) /\ Times(Append(s, y), x) = Cardinality(Q)
  BY DEF Times
<1>2. /\ DOMAIN Append(s, y) = (DOMAIN s) \cup {n} /\ Append(s, y)[n] = y
      /\ \A i \in DOMAIN s : i # n /\ Append(s, y)[i] = s[i]
  OBVIOUS
<1>3. CASE x = y
  <2>1. Q = P \cup {n}
    BY <1>2, <1>3
  <2> QED
    BY <1>0, <1>1, <1>3, <2>1, FS_AddElement
<1>4. CASE x # y
  <2>1. Q = P
    BY <1>2, <1>4
  <2> HIDE DEF P, Q
  <2> QED
    BY <1>0, <1>1, <1>4, <2>1
<1> QED
  BY <1>3, <1>4

LEMMA ConcatFacts ==
  ASSUME NEW T, NEW s \in Seq(T), NEW t \in Seq(T)
  PROVE  /\ s \o t \in Seq(T) /\ Len(s \o t) = Len(s) + Len(t)
         /\ \A i \in 1 .. Len(s) : (s \o t)[i] = s[i]
         /\ \A i \in Len(s) + 1 .. Len(s) + Len(t) : (s \o t)[i] = t[i - Len(s)]
OBVIOUS

(* A list without its k-th item. *)
LEMMA RemoveAtFacts ==
  ASSUME NEW T, NEW s \in Seq(T), NEW k \in DOMAIN s
  PROVE  /\ RemoveAt(s, k) \in Seq(T)
         /\ Len(RemoveAt(s, k)) = Len(s) - 1
         /\ \A i \in DOMAIN RemoveAt(s, k) :
              RemoveAt(s, k)[i] = s[IF i < k THEN i ELSE i + 1]
<1> DEFINE a == SubSeq(s, 1, k - 1)
           b == SubSeq(s, k + 1, Len(s))
<1>1. k \in 1 .. Len(s) /\ Len(s) \in Nat
  OBVIOUS
<1>2. /\ a \in Seq(T) /\ Len(a) = k - 1
      /\ \A i \in 1 .. k - 1 : a[i] = s[i]
  BY <1>1
<1>3. /\ b \in Seq(T) /\ Len(b) = Len(s) - k
      /\ \A i \in 1 .. Len(s) - k : b[i] = s[k + i]
  BY <1>1
<1> HIDE DEF a, b
<1>4. /\ a \o b \in Seq(T) /\ Len(a \o b) = Len(s) - 1
      /\ \A i \in 1 .. k - 1 : (a \o b)[i] = a[i]
      /\ \A i \in k .. Len(s) - 1 : (a \o b)[i] = b[i - k + 1]
  <2>1. /\ a \o b \in Seq(T) /\ Len(a \o b) = Len(a) + Len(b)
        /\ \A i \in 1 .. Len(a) : (a \o b)[i] = a[i]
        /\ \A i \in Len(a) + 1 .. Len(a) + Len(b) : (a \o b)[i] = b[i - Len(a)]
    BY <1>2, <1>3, ConcatFacts
  <2>2. Len(a \o b) = Len(s) - 1 /\ 1 .. k - 1 = 1 .. Len(a)
    BY <1>1, <1>2, <1>3, <2>1
  <2>3. ASSUME NEW i \in k .. Len(s) - 1
        PROVE  (a \o b)[i] = b[i - k + 1]
    <3>1. i \in Len(a) + 1 .. Len(a) + Len(b) /\ i - Len(a) = i - k + 1
      BY <1>1, <1>2, <1>3
    <3> QED
      BY <2>1, <3>1
  <2> QED
    BY <2>1, <2>2, <2>3
<1>5. ASSUME NEW i \in 1 .. Len(s) - 1
      PROVE  (a \o b)[i] = s[IF i < k THEN i ELSE i + 1]
  <2>1. CASE i < k
    BY <1>1, <1>2, <1>4, <2>1
  <2>2. CASE ~(i < k)
    <3> DEFINE j == i - k + 1
    <3>1. j \in 1 .. Len(s) - k /\ k + j = i + 1 /\ i \in k .. Len(s) - 1
      BY <1>1, <2>2
    <3>2. (a \o b)[i] = b[j]
      BY <1>4, <3>1
    <3>3. b[j] = s[k + j]
      BY <1>3, <3>1
    <3> QED
      BY <2>2, <3>1, <3>2, <3>3
  <2> QED
    BY <1>1, <2>1, <2>2
<1>6. DOMAIN (a \o b) = 1 .. Len(s) - 1
  BY <1>4
<1>7. RemoveAt(s, k) = a \o b
  BY DEF RemoveAt, a, b
<1> HIDE DEF RemoveAt
<1> QED
  BY <1>4, <1>5, <1>6, <1>7

LEMMA TimesRemoveAt ==
  ASSUME NEW T, NEW s \in Seq(T), NEW k \in DOMAIN s, NEW x
  PROVE  Times(s, x) = Times(RemoveAt(s, k), x) + (IF x = s[k] THEN 1 ELSE 0)
<1> DEFINE t == RemoveAt(s, k)
           P == {i \in DOMAIN t : t[i] = x}
           Q == {i \in DOMAIN s \ {k} : s[i] = x}
           S == {i \in DOMAIN s : s[i] = x}
           shift == [i \in P |-> IF i < k THEN i ELSE i + 1]
<1>1. /\ t \in Seq(T) /\ Len(t) = Len(s) - 1
      /\ \A i \in DOMAIN t : t[i] = s[IF i < k THEN i ELSE i + 1]
  BY RemoveAtFacts
<1>2. DOMAIN t = 1 .. Len(s) - 1 /\ DOMAIN s = 1 .. Len(s) /\ Len(s) \in Nat /\ k \in Nat
  BY <1>1
<1> HIDE DEF t
<1>3. IsFiniteSet(P) /\ IsFiniteSet(Q) /\ IsFiniteSet(S)
  <2>1. P \in SUBSET DOMAIN t /\ Q \in SUBSET DOMAIN s /\ S \in SUBSET DOMAIN s
    OBVIOUS
  <2> QED
    BY <1>1, <2>1, PlacesFinite
<1>4. shift \in Bijection(P, Q)
  <2>1. ASSUME NEW i \in P PROVE shift[i] \in Q
    BY <1>1, <1>2
  <2>2. ASSUME NEW i \in P, NEW j \in P, shift[i] = shift[j] PROVE i = j
    BY <1>2, <2>2
  <2>3. ASSUME NEW j \in Q PROVE \E i \in P : shift[i] = j
    <3>1. CASE j < k
      <4>1. j \in P
        BY <1>1, <1>2, <3>1
      <4> QED
        BY <3>1, <4>1
    <3>2. CASE j > k
      <4>1. j - 1 \in P
        BY <1>1, <1>2, <3>2
      <4> QED
        BY <1>2, <3>2, <4>1
    <3> QED
      BY <1>2, <3>1, <3>2
  <2>4. shift \in [P -> Q]
    BY <2>1
  <2>5. shift \in Injection(P, Q)
    BY <2>2, <2>4 DEF Injection, IsInjective
  <2>6. shift \in Surjection(P, Q)
    BY <2>3, <2>4 DEF Surjection
  <2> QED
    BY <2>5, <2>6 DEF Bijection
<1>5. Cardinality(P) = Cardinality(Q) /\ Cardinality(Q) \in Nat
  BY <1>3, <1>4, FS_Bijection, FS_CardinalityType DEF ExistsBijection
<1>6. Q = S \ {k} /\ (k \in S <=> x = s[k])
  OBVIOUS
<1> HIDE DEF P, Q, S
<1>7. Cardinality(S) = Cardinality(Q) + (IF x = s[k] THEN 1 ELSE 0)
  <2>1. Cardinality(S) \in Nat
    BY <1>3, FS_CardinalityType
  <2>2. Cardinality(S \ {k}) = IF k \in S THEN Cardinality(S) - 1 ELSE Cardinality(S)
    BY <1>3, FS_RemoveElement
  <2> QED
    BY <1>6, <2>1, <2>2
<1> QED
  BY <1>5, <1>7 DEF Times, t, P, S

(* list.remove takes one of the items away that are equal to e, if any.      *)
LEMMA TimesRemoveFirst ==
  ASSUME NEW T, NEW s \in Seq(T), NEW e, NEW x, Times(s, e) > 0
  PROVE  /\ RemoveFirst(s, e) \in Seq(T)
         /\ Times(s, x) = Times(RemoveFirst(s, e), x) + (IF x = e THEN 1 ELSE 0)
<1> DEFINE I == {i \in 1 .. Len(s) : s[i] = e}
<1>1. \E i \in 1 .. Len(s) : s[i] = e
  BY TimesType
<1>2. I # {} /\ I \in SUBSET Nat
  BY <1>1
<1>3. Min(I) \in I
  BY <1>2, MinOfNats
<1>4. RemoveFirst(s, e) = RemoveAt(s, Min(I))
  BY <1>1, <1>2 DEF RemoveFirst, SelectInSeq
<1>5. Min(I) \in DOMAIN s /\ s[Min(I)] = e
  BY <1>3
<1> HIDE DEF I
<1> QED
  BY <1>4, <1>5, RemoveAtFacts, TimesRemoveAt

LEMMA TimesTail ==
  ASSUME NEW T, NEW s \in Seq(T), s # <<>>, NEW x
  PROVE  /\ Tail(s) \in Seq(T)
         /\ Times(s, x) = Times(Tail(s), x) + (IF x = Head(s) THEN 1 ELSE 0)
<1>1. 1 \in DOMAIN s /\ Head(s) = s[1]
  OBVIOUS
<1>2. Tail(s) = RemoveAt(s, 1)
  <2>1. /\ RemoveAt(s, 1) \in Seq(T) /\ Len(RemoveAt(s, 1)) = Len(s) - 1
        /\ \A i \in DOMAIN RemoveAt(s, 1) : RemoveAt(s, 1)[i] = s[IF i < 1 THEN i ELSE i + 1]
    BY <1>1, RemoveAtFacts
  <2>2. \A i \in 1 .. Len(s) - 1 : RemoveAt(s, 1)[i] = s[i + 1]
    BY <2>1
  <2>3. /\ Tail(s) \in Seq(T) /\ Len(Tail(s)) = Len(s) - 1
        /\ \A i \in 1 .. Len(s) - 1 : Tail(s)[i] = s[i + 1]
    OBVIOUS
  <2> HIDE DEF RemoveAt
  <2> QED
    BY <2>1, <2>2, <2>3
<1>3. Tail(s) \in Seq(T)
  OBVIOUS
<1>4. Times(s, x) = Times(RemoveAt(s, 1), x) + (IF x = s[1] THEN 1 ELSE 0)
  BY <1>1, TimesRemoveAt
<1> QED
  BY <1>1, <1>2, <1>3, <1>4

LEMMA TimesEmpty == \A x : Times(<<>>, x) = 0
<1> SUFFICES ASSUME NEW x PROVE Times(<<>>, x) = 0
  OBVIOUS
<1>1. {i \in DOMAIN <<>> : <<>>[i] = x} = {}
  OBVIOUS
<1> QED
  BY <1>1, FS_EmptySet DEF Times

(* A bundle's two lists, taken and replaced. *)
LEMMA BundleLists ==
  ASSUME NEW b \in Bundle, NEW f \in Lists
  PROVE  b[f] \in Seq(ItemsOf(f)) /\ b.bucket \in Buckets \cup {None}
BY DEF Bundle, Lists, ItemsOf

With(b, f, s) == [b EXCEPT ![f] = s]

LEMMA BundleWith ==
  ASSUME NEW b \in Bundle, NEW f \in Lists, NEW s \in Seq(ItemsOf(f))
  PROVE  /\ With(b, f, s) \in Bundle
         /\ With(b, f, s)[f] = s /\ With(b, f, s).bucket = b.bucket
         /\ \A g \in Lists : g # f => With(b, f, s)[g] = b[g]
<1>1. CASE f = "rules"
  BY <1>1 DEF Bundle, Lists, ItemsOf, With
<1>2. CASE f = "filters"
  BY <1>2 DEF Bundle, Lists, ItemsOf, With
<1> QED
  BY <1>1, <1>2 DEF Lists

LEMMA RemovalFacts ==
  ASSUME NEW r \in Removal
  PROVE  r[1] \in Lists /\ r[2] \in ItemsOf(r[1]) /\ r = <<r[1], r[2]>>
BY DEF Removal, Lists, ItemsOf

LEMMA RemovalIs ==
  ASSUME NEW f \in Lists, NEW x \in ItemsOf(f)
  PROVE  <<f, x>> \in Removal
BY DEF Removal, Lists, ItemsOf

(* The choices of a list stand as long as it is not touched.                 *)
LEMMA BalanceKept ==
  ASSUME NEW f \in Lists, Balance(f),
         bundle'[f] = bundle[f], wanted'[f] = wanted[f],
         \A x : Times(removes', <<f, x>>) = Times(removes, <<f, x>>),
         \A i \in DOMAIN bundle[f] : (at' = f /\ cursor' > 0 => i < cursor')
                                       <=> (at = f /\ cursor > 0 => i < cursor)
  PROVE  Balance(f)'
<1>1. ASSUME NEW x PROVE Answered(f, x)' = Answered(f, x)
  BY DEF Answered
<1>2. ASSUME NEW x PROVE Times(wanted[f], x)' = Times(wanted[f], x)
  BY DEF Times
<1>3. ASSUME NEW x PROVE Times(removes, <<f, x>>)' = Times(removes, <<f, x>>)
  BY DEF Times
<1> QED
  BY <1>1, <1>2, <1>3 DEF Balance

(* A list that was accepted as a whole. *)
LEMMA BalanceWhole ==
  ASSUME NEW f \in Lists, bundle \in Bundle, wanted[f] = bundle[f],
         ~(at = f /\ cursor > 0), NEW T, removes \in Seq(T),
         \A k \in DOMAIN removes : removes[k][1] # f
  PROVE  Balance(f)
<1> SUFFICES ASSUME NEW x \in ItemsOf(f)
             PROVE  Cardinality(Answered(f, x)) = Times(wanted[f], x) + Times(removes, <<f, x>>)
  BY DEF Balance
<1>1. Cardinality(Answered(f, x)) = Times(bundle[f], x)
  BY DEF Answered, Times
<1>2. Times(removes, <<f, x>>) = 0
  BY TimesType
<1>3. Times(bundle[f], x) \in Nat
  BY BundleLists, TimesType
<1> QED
  BY <1>1, <1>2, <1>3

(* A command that ends leaves no trace in memory. *)
LEMMA EndInv ==
  ASSUME ToolInv, NEW how \in {"done", "refused", "interrupted"}, End(how),
         json' \in [Paths -> Config \cup {Absent, Cut}],
         csv' \in [Paths -> Seq(CsvLine) \cup {Absent}],
         commands' \in 0 .. MaxCommands
  PROVE  ToolInv'
<1>1. Nothing \in Bundle /\ <<>> \in Seq(Removal)
  BY DEF Nothing, Bundle
<1>2. ToolTypeOK'
  BY <1>1 DEF End, ToolTypeOK
<1>3. StageOK'
  BY DEF End, StageOK
<1>4. ChoiceOK' /\ FilesOK' /\ TargetOK'
  BY DEF End, ChoiceOK, FilesOK, TargetOK
<1> QED
  BY <1>2, <1>3, <1>4 DEF ToolInv

LEMMA BucketRuleType == ASSUME NEW b \in Buckets PROVE BucketRule(b) \in CsvLine
BY DEF BucketRule, CsvLine, RulePaths, RuleActions

LEMMA CsvLineIsRule ==
  /\ CsvLine \subseteq Rule
  /\ \A s \in Seq(CsvLine) : s \in Seq(Rule)
<1>1. CsvLine \subseteq Rule
  BY DEF CsvLine, Rule
<1>2. ASSUME NEW s \in Seq(CsvLine) PROVE s \in Seq(Rule)
  <2>1. \A i \in 1 .. Len(s) : s[i] \in Rule
    BY <1>1
  <2> QED
    BY <2>1
<1> QED
  BY <1>1, <1>2

LEMMA Sentinels ==
  /\ None \notin Buckets /\ None \notin RulePaths /\ None \notin RuleActions
  /\ Absent \notin Seq(CsvLine)
BY SentinelsAssumption, CsvLineIsRule

LEMMA GetOrCreateFacts ==
  ASSUME NEW j \in Config \cup {Absent}, NEW c \in Seq(CsvLine) \cup {Absent},
         NEW b \in Buckets \cup {None}, j # Absent \/ b # None,
         j # Absent => j.bucket # None
  PROVE  GetOrCreate(j, c, b) \in Bundle
<1>1. PICK d \in Config : /\ d.bucket \in Buckets
                          /\ GetOrCreate(j, c, b) =
                               [bucket |-> d.bucket, filters |-> d.filters,
                                rules |-> IF c # Absent THEN c ELSE <<BucketRule(d.bucket)>>]
  <2>1. CASE j # Absent
    BY <2>1 DEF GetOrCreate, Config
  <2>2. CASE j = Absent
    <3>1. [bucket |-> b, filters |-> Recommended] \in Config
      BY ListsAssumption DEF Config
    <3> QED
      BY <2>2, <3>1 DEF GetOrCreate
  <2> QED
    BY <2>1, <2>2
<1>2. <<BucketRule(d.bucket)>> \in Seq(Rule)
  BY <1>1, BucketRuleType, CsvLineIsRule
<1>3. c # Absent => c \in Seq(Rule)
  BY CsvLineIsRule
<1> QED
  BY <1>1, <1>2, <1>3 DEF Bundle, Config

LEMMA ToolInvInit == ToolInit => ToolInv
<1> SUFFICES ASSUME ToolInit PROVE ToolInv
  OBVIOUS
<1>1. PICK deployed \in Deployments, b \in Buckets :
        LET new == GetOrCreate(Absent, Absent, b)
        IN /\ json = [p \in Paths |-> IF p \in deployed
                                      THEN [bucket |-> b, filters |-> new.filters] ELSE Absent]
           /\ csv = [p \in Paths |-> IF p \in deployed THEN new.rules ELSE Absent]
  BY DEF ToolInit
<1>2. /\ GetOrCreate(Absent, Absent, b).filters = Recommended
      /\ GetOrCreate(Absent, Absent, b).rules = <<BucketRule(b)>>
  BY DEF GetOrCreate
<1>3. [bucket |-> b, filters |-> Recommended] \in Config
  BY ListsAssumption DEF Config
<1>4. <<BucketRule(b)>> \in Seq(CsvLine)
  BY BucketRuleType
<1>5. /\ json \in [Paths -> Config \cup {Absent, Cut}]
      /\ csv \in [Paths -> Seq(CsvLine) \cup {Absent}]
  BY <1>1, <1>2, <1>3, <1>4
<1>6. Nothing \in Bundle /\ <<>> \in Seq(Removal)
  BY DEF Nothing, Bundle
<1>7. ToolTypeOK
  BY <1>5, <1>6, BoundAssumption DEF ToolInit, ToolTypeOK
<1>8. StageOK /\ ChoiceOK /\ FilesOK /\ TargetOK
  BY DEF ToolInit, StageOK, ChoiceOK, FilesOK, TargetOK
<1> QED
  BY <1>7, <1>8 DEF ToolInv

LEMMA BeginInv ==
  ASSUME ToolInv, at = "idle", commands < MaxCommands,
         NEW op \in {"add", "edit"}, NEW p \in Paths, NEW given \in Clients \cup Fragments,
         NEW b \in Buckets \cup {None}, Begin(op, p, given, b),
         op = "edit" => json[p] # Absent, op = "add" => b # None,
         \/ p[2] = given
         \/ \A h \in Homes : given \in Clients => json[<<h, given>>] = Absent
  PROVE  ToolInv'
<1>1. commands' \in 0 .. MaxCommands /\ UNCHANGED files
  BY BoundAssumption DEF ToolInv, ToolTypeOK, Begin
<1>2. CASE ~Loadable(json[p], csv[p])
  BY <1>1, <1>2, EndInv DEF Begin, ToolInv, ToolTypeOK, files
<1>3. CASE Loadable(json[p], csv[p])
  <2>1. /\ cmd' = [op |-> op, path |-> p, given |-> given]
        /\ bundle' = GetOrCreate(json[p], csv[p], b)
        /\ wanted' = bundle' /\ before' = <<json, csv>>
        /\ at' = IF op = "edit" THEN "client" ELSE "rules"
        /\ last' = "none" /\ cursor' = cursor /\ removes' = removes
        /\ json' = json /\ csv' = csv
    BY <1>1, <1>3 DEF Begin, files
  <2>2. bundle' \in Bundle
    BY <1>3, <2>1, GetOrCreateFacts DEF Loadable, ToolInv, ToolTypeOK
  <2>3. cursor' = 0 /\ removes' = <<>>
    BY <2>1 DEF ToolInv, ToolTypeOK, StageOK
  <2>4. cmd' # NoCmd
    BY <2>1 DEF NoCmd
  <2>5. ToolTypeOK'
    BY <1>1, <2>1, <2>2, <2>4 DEF ToolInv, ToolTypeOK
  <2>6. StageOK'
    BY <2>1, <2>3 DEF StageOK
  <2>7. ChoiceOK'
    <3>1. ASSUME NEW f \in Lists PROVE Balance(f)'
      <4>1. ASSUME NEW x PROVE Answered(f, x)' = {i \in DOMAIN bundle'[f] : bundle'[f][i] = x}
        BY <2>1, <2>3 DEF Answered
      <4>2. ASSUME NEW x PROVE /\ Times(wanted[f], x)' = Cardinality(Answered(f, x)')
                              /\ Times(removes, <<f, x>>)' = 0
                              /\ Times(wanted[f], x)' \in Nat
        <5>1. Times(wanted[f], x)' = Times(wanted'[f], x) /\ Times(removes, <<f, x>>)' = Times(removes', <<f, x>>)
          BY DEF Times
        <5>2. wanted'[f] = bundle'[f] /\ bundle'[f] \in Seq(ItemsOf(f))
          BY <2>1, <2>2, BundleLists
        <5>3. Times(bundle'[f], x) = Cardinality(Answered(f, x)')
          BY <4>1 DEF Times
        <5>4. Times(bundle'[f], x) \in Nat
          BY <5>2, TimesType
        <5>5. Times(removes', <<f, x>>) = 0
          BY <2>3, TimesEmpty
        <5> QED
          BY <5>1, <5>2, <5>3, <5>4, <5>5
      <4> QED
        BY <4>1, <4>2 DEF Balance
    <3> QED
      BY <3>1 DEF ChoiceOK
  <2>8. FilesOK'
    BY <2>1, <2>3 DEF FilesOK, Written
  <2>9. TargetOK'
    BY <2>1 DEF TargetOK
  <2> QED
    BY <2>5, <2>6, <2>7, <2>8, <2>9 DEF ToolInv
<1> QED
  BY <1>2, <1>3

------------------------------------------------------------------------------
(* Each action keeps the invariant.                                          *)

LEMMA RemoveClientInv == ASSUME ToolInv, NEW p \in Paths, RemoveClient(p) PROVE ToolInv'
<1> USE DEF RemoveClient, session
<1>1. ToolTypeOK'
  BY BoundAssumption DEF ToolInv, ToolTypeOK
<1>2. StageOK'
  BY DEF ToolInv, StageOK
<1>3. ChoiceOK' /\ FilesOK' /\ TargetOK'
  BY DEF ChoiceOK, FilesOK, TargetOK
<1> QED
  BY <1>1, <1>2, <1>3 DEF ToolInv

LEMMA AddInv == ASSUME ToolInv, NEW p \in Paths, NEW b \in Buckets, Add(p, b) PROVE ToolInv'
<1>1. p[2] \in Clients \cup Fragments /\ b # None /\ b \in Buckets \cup {None}
  BY Sentinels DEF Paths
<1> QED
  BY <1>1, BeginInv DEF Add

(* One json begins with what was given: that of the client itself, if there. *)
LEMMA PickedIsNamed ==
  ASSUME NEW given \in Fragments, NEW p \in Picks(given)
  PROVE  /\ p \in Paths /\ json[p] # Absent
         /\ \/ p[2] = given
            \/ \A h \in Homes : given \in Clients => json[<<h, given>>] = Absent
<1>1. p \in Candidates(given) /\ Cardinality(Candidates(given)) = 1
  BY DEF Picks
<1>2. IsFiniteSet(Candidates(given))
  <2>1. IsFiniteSet(Paths)
    BY FilesAssumption, FS_Product DEF Paths
  <2> QED
    BY <2>1, FS_Subset DEF Candidates
<1>3. PICK q : Candidates(given) = {q}
  BY <1>1, <1>2, FS_Singleton
<1>4. ASSUME NEW h \in Homes, given \in Clients, json[<<h, given>>] # Absent
      PROVE  p[2] = given
  <2>1. <<h, given>> \in Candidates(given)
    BY <1>4, FragmentsAssumption DEF Candidates, Paths
  <2> QED
    BY <1>1, <1>3, <2>1
<1> QED
  BY <1>1, <1>4 DEF Candidates

LEMMA EditInv == ASSUME ToolInv, NEW given \in Fragments, Edit(given) PROVE ToolInv'
<1>1. CASE Picks(given) # {}
  <2>1. PICK p \in Picks(given) : Begin("edit", p, given, None)
    BY <1>1 DEF Edit
  <2> QED
    BY <2>1, PickedIsNamed, BeginInv DEF Edit
<1>2. CASE Picks(given) = {}
  <2>1. End("refused") /\ commands' = commands + 1 /\ json' = json /\ csv' = csv
        /\ commands < MaxCommands
    BY <1>2 DEF Edit, files
  <2>2. commands' \in 0 .. MaxCommands
    BY <2>1, BoundAssumption DEF ToolInv, ToolTypeOK
  <2> QED
    BY <2>1, <2>2, EndInv DEF ToolInv, ToolTypeOK
<1> QED
  BY <1>1, <1>2

LEMMA EditClientInv == ToolInv /\ EditClient => ToolInv'
<1> SUFFICES ASSUME ToolInv, EditClient PROVE ToolInv'
  OBVIOUS
<1>1. PICK b \in Buckets \cup {None} :
        /\ bundle' = [bundle EXCEPT !.bucket = b]
        /\ wanted' = [wanted EXCEPT !.bucket = b]
  BY DEF EditClient, Prompt, ToolInv, ToolTypeOK, Bundle
<1>2. /\ bundle' \in Bundle /\ wanted' \in Bundle
      /\ bundle'.bucket = b /\ wanted'.bucket = b
      /\ \A f \in Lists : bundle'[f] = bundle[f] /\ wanted'[f] = wanted[f]
  BY <1>1 DEF ToolInv, ToolTypeOK, Bundle, Lists
<1> USE DEF EditClient, files
<1>3. ToolTypeOK'
  BY <1>2 DEF ToolInv, ToolTypeOK
<1>4. StageOK'
  BY <1>2 DEF ToolInv, StageOK
<1>5. ChoiceOK'
  <2>1. ASSUME NEW f \in Lists PROVE Balance(f)'
    <3>1. Balance(f) /\ cursor = 0 /\ cursor' = 0
      BY DEF ToolInv, ChoiceOK, StageOK
    <3> QED
      BY <1>2, <3>1, BalanceKept
  <2> QED
    BY <2>1 DEF ChoiceOK
<1>6. FilesOK' /\ TargetOK'
  BY DEF ToolInv, FilesOK, TargetOK, Written
<1> QED
  BY <1>3, <1>4, <1>5, <1>6 DEF ToolInv

LEMMA AllOfType ==
  ASSUME ToolTypeOK, NEW f \in Lists, f = "rules" => bundle.bucket # None
  PROVE  AllOf(f) \in Seq(ItemsOf(f))
<1>1. CASE f = "rules"
  <2>1. BucketRule(bundle.bucket) \in Rule
    BY <1>1, BucketRuleType, CsvLineIsRule DEF ToolTypeOK, Bundle
  <2> QED
    BY <1>1, <2>1, ListsAssumption DEF AllOf, ItemsOf
<1>2. CASE f = "filters"
  BY <1>2, ListsAssumption DEF AllOf, ItemsOf
<1> QED
  BY <1>1, <1>2 DEF Lists

LEMMA ChooseListInv == ASSUME ToolInv, NEW f \in Lists, ChooseList(f) PROVE ToolInv'
<1>0. at = f /\ cursor = 0 /\ json' = json /\ csv' = csv /\ commands' = commands
  BY DEF ChooseList, files
<1>1. PICK answer \in {"accept", "edit", "select"} :
        IF NeedsBucket(f, answer) /\ bundle.bucket = None
        THEN End("refused")
        ELSE /\ bundle' = IF answer = "select" THEN [bundle EXCEPT ![f] = AllOf(f)] ELSE bundle
             /\ IF answer = "accept" THEN at' = After(f) /\ UNCHANGED <<cursor, wanted>>
                ELSE cursor' = 1 /\ wanted' = [wanted EXCEPT ![f] = <<>>] /\ at' = at
             /\ UNCHANGED <<cmd, removes, before, last>>
  BY DEF ChooseList
<1>2. CASE NeedsBucket(f, answer) /\ bundle.bucket = None
  BY <1>0, <1>1, <1>2, EndInv DEF ToolInv, ToolTypeOK
<1>3. CASE ~(NeedsBucket(f, answer) /\ bundle.bucket = None)
  <2>1. f = "rules" => bundle.bucket # None
    BY <1>3 DEF NeedsBucket
  <2>2. AllOf(f) \in Seq(ItemsOf(f)) /\ <<>> \in Seq(ItemsOf(f))
    BY <2>1, AllOfType DEF ToolInv
  <2>3. bundle \in Bundle /\ wanted \in Bundle
    BY DEF ToolInv, ToolTypeOK
  <2>4. /\ bundle' \in Bundle /\ bundle'.bucket = bundle.bucket
        /\ \A g \in Lists : g # f => bundle'[g] = bundle[g]
    <3>1. bundle' \in {bundle, With(bundle, f, AllOf(f))}
      BY <1>1, <1>3 DEF With
    <3> QED
      BY <2>2, <2>3, <3>1, BundleWith
  <2>5. /\ wanted' \in Bundle /\ wanted'.bucket = wanted.bucket
        /\ \A g \in Lists : g # f => wanted'[g] = wanted[g]
        /\ answer # "accept" => wanted'[f] = <<>>
    <3>1. /\ wanted' \in {wanted, With(wanted, f, <<>>)}
          /\ answer # "accept" => wanted' = With(wanted, f, <<>>)
      BY <1>1, <1>3 DEF With
    <3>2. \A s \in Seq(ItemsOf(f)) :
            /\ With(wanted, f, s) \in Bundle
            /\ With(wanted, f, s)[f] = s /\ With(wanted, f, s).bucket = wanted.bucket
            /\ \A g \in Lists : g # f => With(wanted, f, s)[g] = wanted[g]
      BY <2>3, BundleWith
    <3>3. /\ With(wanted, f, <<>>) \in Bundle
          /\ With(wanted, f, <<>>)[f] = <<>> /\ With(wanted, f, <<>>).bucket = wanted.bucket
          /\ \A g \in Lists : g # f => With(wanted, f, <<>>)[g] = wanted[g]
      BY <2>2, <3>2
    <3> QED
      BY <2>3, <3>1, <3>3
  <2>6. /\ cursor' \in Nat /\ at' \in {"rules", "filters", "apply"}
        /\ answer = "accept" => at' = After(f) /\ cursor' = 0 /\ bundle' = bundle /\ wanted' = wanted
        /\ answer # "accept" => at' = f /\ cursor' = 1
        /\ UNCHANGED <<cmd, removes, before, last>>
    BY <1>0, <1>1, <1>3 DEF After, Lists
  <2>7. ToolTypeOK'
    BY <1>0, <2>4, <2>5, <2>6 DEF ToolInv, ToolTypeOK, Lists
  <2>8. StageOK'
    BY <1>0, <2>1, <2>4, <2>5, <2>6 DEF ToolInv, StageOK, After, Lists
  <2>9. ChoiceOK'
    <3>1. ASSUME NEW g \in Lists, g # f PROVE Balance(g)'
      <4>1. Balance(g)
        BY <1>0 DEF ToolInv, ChoiceOK, Lists
      <4>2. (at' = g /\ cursor' > 0 <=> FALSE) /\ (at = g /\ cursor > 0 <=> FALSE)
        BY <1>0, <2>6, <3>1 DEF After
      <4> QED
        BY <2>4, <2>5, <2>6, <3>1, <4>1, <4>2, BalanceKept
    <3>2. Balance(f)'
      <4>1. CASE answer = "accept"
        <5>1. Balance(f)
          BY <1>0 DEF ToolInv, ChoiceOK, Lists
        <5> QED
          BY <1>0, <2>6, <4>1, <5>1, BalanceKept
      <4>2. CASE answer # "accept"
        <5>1. ASSUME NEW x \in ItemsOf(f)
              PROVE  /\ Cardinality(Answered(f, x)') = 0
                     /\ Times(wanted[f], x)' = 0
                     /\ Times(removes, <<f, x>>)' = 0
          <6>1. bundle'[f] \in Seq(ItemsOf(f))
            BY <2>4, BundleLists
          <6>2. Answered(f, x)' = {}
            BY <2>6, <4>2, <6>1 DEF Answered
          <6>3. Times(wanted'[f], x) = 0
            BY <2>5, <4>2, TimesEmpty
          <6>4. removes \in Seq(Removal) /\ \A k \in DOMAIN removes : removes[k] # <<f, x>>
            BY <1>0, RemovalFacts DEF ToolInv, ToolTypeOK, StageOK, Lists
          <6>5. Times(removes', <<f, x>>) = 0
            BY <2>6, <6>4, TimesType
          <6> QED
            BY <6>2, <6>3, <6>5, FS_EmptySet DEF Times
        <5> QED
          BY <5>1 DEF Balance
      <4> QED
        BY <4>1, <4>2
    <3> QED
      BY <3>1, <3>2 DEF ChoiceOK
  <2>10. FilesOK' /\ TargetOK'
    BY <1>0, <2>6 DEF ToolInv, FilesOK, TargetOK, Written, Lists
  <2> QED
    BY <2>7, <2>8, <2>9, <2>10 DEF ToolInv
<1> QED
  BY <1>2, <1>3

LEMMA RevisedType ==
  ASSUME NEW f \in Lists, NEW item \in ItemsOf(f), NEW x \in Revised(f, item)
  PROVE  x \in ItemsOf(f)
<1>1. CASE f = "rules"
  BY <1>1 DEF Revised, Prompt, ItemsOf, Rule, RulePaths, RuleActions
<1>2. CASE f = "filters"
  BY <1>2 DEF Revised, Prompt, ItemsOf, Filter
<1> QED
  BY <1>1, <1>2 DEF Lists

(* The question moves on by one item, of which x was decided.                *)
LEMMA OneMoreAnswered ==
  ASSUME ToolInv, NEW f \in Lists, at = f, cursor \in DOMAIN bundle[f],
         at' = at, cursor' = cursor + 1, bundle' \in Bundle,
         DOMAIN bundle'[f] = DOMAIN bundle[f],
         \A i \in DOMAIN bundle[f] : i # cursor => bundle'[f][i] = bundle[f][i],
         NEW x
  PROVE  Cardinality(Answered(f, x)') =
           Cardinality(Answered(f, x)) + (IF x = bundle'[f][cursor] THEN 1 ELSE 0)
<1>1. bundle[f] \in Seq(ItemsOf(f)) /\ cursor \in Nat \ {0}
  BY BundleLists DEF ToolInv, ToolTypeOK
<1>2. Answered(f, x) = {i \in DOMAIN bundle[f] : bundle[f][i] = x /\ i < cursor}
  BY <1>1 DEF Answered
<1>3. Answered(f, x)' = {i \in DOMAIN bundle'[f] : bundle'[f][i] = x /\ i < cursor + 1}
  BY <1>1 DEF Answered
<1>4. \A i \in DOMAIN bundle[f] : i < cursor + 1 <=> (i < cursor \/ i = cursor)
  BY <1>1
<1>5. IsFiniteSet(Answered(f, x)) /\ cursor \notin Answered(f, x)
      /\ Cardinality(Answered(f, x)) \in Nat
  BY <1>1, <1>2, PlacesFinite
<1>6. CASE x = bundle'[f][cursor]
  <2>1. Answered(f, x)' = Answered(f, x) \cup {cursor}
    BY <1>1, <1>2, <1>3, <1>4, <1>6
  <2> QED
    BY <1>5, <1>6, <2>1, FS_AddElement
<1>7. CASE x # bundle'[f][cursor]
  <2>1. Answered(f, x)' = Answered(f, x)
    BY <1>1, <1>2, <1>3, <1>4, <1>7
  <2> QED
    BY <1>5, <1>7, <2>1
<1> QED
  BY <1>6, <1>7

LEMMA EditItemInv == ASSUME ToolInv, NEW f \in Lists, EditItem(f) PROVE ToolInv'
<1> DEFINE item == bundle[f][cursor]
<1>1. /\ at = f /\ cursor \in DOMAIN bundle[f] /\ cursor' = cursor + 1
      /\ UNCHANGED <<json, csv, cmd, before, at, last, commands>>
  BY DEF EditItem, files
<1>2. /\ bundle \in Bundle /\ wanted \in Bundle /\ removes \in Seq(Removal)
      /\ bundle[f] \in Seq(ItemsOf(f)) /\ wanted[f] \in Seq(ItemsOf(f))
      /\ cursor \in Nat \ {0} /\ item \in ItemsOf(f)
  BY <1>1, BundleLists DEF ToolInv, ToolTypeOK
<1>3. Balance(f) /\ \A g \in Lists : Balance(g)
  BY <1>1 DEF ToolInv, ChoiceOK, Lists
<1>4. ASSUME NEW x PROVE Times(removes, x) \in Nat /\ Times(wanted[f], x) \in Nat
  BY <1>2, TimesType
<1>5. ASSUME bundle' \in Bundle, bundle'.bucket = bundle.bucket,
             \A g \in Lists : g # f => bundle'[g] = bundle[g] /\ wanted'[g] = wanted[g],
             wanted' \in Bundle, wanted'.bucket = wanted.bucket,
             removes' \in Seq(Removal),
             \A k \in DOMAIN removes' : removes'[k][1] = f
               \/ (k \in DOMAIN removes /\ removes'[k] = removes[k]),
             \A g \in Lists : \A x \in ItemsOf(g) :
               g # f => Times(removes', <<g, x>>) = Times(removes, <<g, x>>),
             Balance(f)'
      PROVE  ToolInv'
  <2>1. ToolTypeOK'
    BY <1>1, <1>2, <1>5 DEF ToolInv, ToolTypeOK, Lists
  <2>2. StageOK'
    <3>1. at \in {"rules", "filters"} /\ cursor > 0 /\ cursor' > 0
      BY <1>1, <1>2 DEF Lists
    <3>2. at = "rules" => \A k \in DOMAIN removes' : removes'[k][1] # "filters"
      BY <1>1, <1>5, <3>1 DEF ToolInv, StageOK
    <3> QED
      BY <1>1, <1>5, <3>1, <3>2 DEF ToolInv, StageOK
  <2>3. ASSUME NEW g \in Lists, g # f, NEW x \in ItemsOf(g)
        PROVE  Cardinality(Answered(g, x))' = (Times(wanted[g], x) + Times(removes, <<g, x>>))'
    <3>1. Answered(g, x)' = Answered(g, x)
      BY <1>1, <1>5, <2>3 DEF Answered
    <3>2. Times(wanted'[g], x) = Times(wanted[g], x)
      BY <1>5, <2>3
    <3>3. Times(removes', <<g, x>>) = Times(removes, <<g, x>>)
      BY <1>5, <2>3
    <3>4. Cardinality(Answered(g, x)) = Times(wanted[g], x) + Times(removes, <<g, x>>)
      BY <1>3 DEF Balance
    <3> QED
      BY <3>1, <3>2, <3>3, <3>4 DEF Times
  <2>4. ChoiceOK'
    BY <1>5, <2>3 DEF ChoiceOK, Balance
  <2>5. FilesOK' /\ TargetOK'
    BY <1>1 DEF ToolInv, FilesOK, TargetOK, Written, Lists
  <2> QED
    BY <2>1, <2>2, <2>4, <2>5 DEF ToolInv
<1>6. ASSUME NEW x \in Revised(f, item),
             bundle' = [bundle EXCEPT ![f][cursor] = x],
             wanted' = [wanted EXCEPT ![f] = Append(@, x)],
             removes' = removes
      PROVE  ToolInv'
  <2>1. x \in ItemsOf(f)
    BY <1>2, RevisedType
  <2>2. /\ [bundle[f] EXCEPT ![cursor] = x] \in Seq(ItemsOf(f))
        /\ Append(wanted[f], x) \in Seq(ItemsOf(f))
    BY <1>1, <1>2, <2>1
  <2>3. bundle' = With(bundle, f, [bundle[f] EXCEPT ![cursor] = x])
    BY <1>2, <1>6 DEF Bundle, Lists, With
  <2>4. wanted' = With(wanted, f, Append(wanted[f], x))
    BY <1>2, <1>6 DEF Bundle, Lists, With
  <2>5. /\ bundle' \in Bundle /\ bundle'[f] = [bundle[f] EXCEPT ![cursor] = x]
        /\ bundle'.bucket = bundle.bucket
        /\ \A g \in Lists : g # f => bundle'[g] = bundle[g]
    <3>1. \A s \in Seq(ItemsOf(f)) :
            /\ With(bundle, f, s) \in Bundle
            /\ With(bundle, f, s)[f] = s /\ With(bundle, f, s).bucket = bundle.bucket
            /\ \A g \in Lists : g # f => With(bundle, f, s)[g] = bundle[g]
      BY <1>2, BundleWith
    <3> QED
      BY <2>2, <2>3, <3>1
  <2>6. /\ wanted' \in Bundle /\ wanted'[f] = Append(wanted[f], x)
        /\ wanted'.bucket = wanted.bucket
        /\ \A g \in Lists : g # f => wanted'[g] = wanted[g]
    BY <1>2, <2>2, <2>4, BundleWith
  <2>7. ASSUME NEW y \in ItemsOf(f)
        PROVE  Cardinality(Answered(f, y)') = Times(wanted'[f], y) + Times(removes', <<f, y>>)
    <3>1. Cardinality(Answered(f, y)') = Cardinality(Answered(f, y)) + (IF y = x THEN 1 ELSE 0)
      BY <1>1, <2>5, OneMoreAnswered
    <3>2. Times(wanted'[f], y) = Times(wanted[f], y) + (IF y = x THEN 1 ELSE 0)
      BY <1>2, <2>1, <2>6, TimesAppend
    <3>3. Cardinality(Answered(f, y)) = Times(wanted[f], y) + Times(removes, <<f, y>>)
      BY <1>3 DEF Balance
    <3> QED
      BY <1>4, <1>6, <3>1, <3>2, <3>3
  <2>8. Balance(f)'
    BY <2>7 DEF Balance, Times
  <2> QED
    BY <1>2, <1>5, <1>6, <2>5, <2>6, <2>8
<1>7. ASSUME bundle' = bundle, wanted' = wanted, removes' = Append(removes, <<f, item>>)
      PROVE  ToolInv'
  <2>1. <<f, item>> \in Removal
    BY <1>2, RemovalIs
  <2>2. removes' \in Seq(Removal)
    BY <1>2, <1>7, <2>1
  <2>3. ASSUME NEW k \in DOMAIN removes'
        PROVE  removes'[k][1] = f \/ (k \in DOMAIN removes /\ removes'[k] = removes[k])
    BY <1>2, <1>7
  <2>4. ASSUME NEW x
        PROVE  Times(removes', x) = Times(removes, x) + (IF x = <<f, item>> THEN 1 ELSE 0)
    BY <1>2, <1>7, <2>1, TimesAppend
  <2>5. ASSUME NEW g \in Lists, NEW x \in ItemsOf(g), g # f
        PROVE  Times(removes', <<g, x>>) = Times(removes, <<g, x>>)
    BY <1>4, <2>4, <2>5
  <2>6. ASSUME NEW y \in ItemsOf(f)
        PROVE  Cardinality(Answered(f, y)') = Times(wanted'[f], y) + Times(removes', <<f, y>>)
    <3>1. Cardinality(Answered(f, y)') = Cardinality(Answered(f, y)) + (IF y = item THEN 1 ELSE 0)
      BY <1>1, <1>2, <1>7, OneMoreAnswered
    <3>2. Times(removes', <<f, y>>) = Times(removes, <<f, y>>) + (IF y = item THEN 1 ELSE 0)
      BY <2>4
    <3>3. Cardinality(Answered(f, y)) = Times(wanted[f], y) + Times(removes, <<f, y>>)
      BY <1>3 DEF Balance
    <3>4. Times(wanted[f], y) \in Nat /\ Times(removes, <<f, y>>) \in Nat
      BY <1>4
    <3> HIDE DEF item
    <3> QED
      BY <1>7, <3>1, <3>2, <3>3, <3>4
  <2>7. Balance(f)'
    BY <2>6 DEF Balance, Times
  <2> QED
    BY <1>2, <1>5, <1>7, <2>2, <2>3, <2>5, <2>7
<1>8. ASSUME NEW d, d = Dropped(bundle[f], cursor),
             bundle' = [bundle EXCEPT ![f] = d.list],
             removes' = removes \o [i \in DOMAIN d.later |-> <<f, d.later[i]>>],
             wanted' = wanted
      PROVE  ToolInv'
  <2>1. d.list = bundle[f] /\ d.later = <<item>>
    BY <1>8 DEF Dropped
  <2>2. bundle' = bundle
    BY <1>2, <1>8, <2>1 DEF Bundle, Lists
  <2>3. [i \in DOMAIN d.later |-> <<f, d.later[i]>>] = << <<f, item>> >>
    BY <2>1
  <2>4. removes' = Append(removes, <<f, item>>)
    <3>1. removes' = removes \o << <<f, item>> >>
      BY <1>8, <2>3
    <3> HIDE DEF item
    <3> QED
      BY <1>2, <3>1
  <2> QED
    BY <1>7, <1>8, <2>2, <2>4
<1> QED
  BY <1>6, <1>8 DEF EditItem

LEMMA EndOfListInv == ASSUME ToolInv, NEW f \in Lists, EndOfList(f) PROVE ToolInv'
<1>1. /\ at = f /\ cursor > Len(bundle[f]) /\ at' = After(f) /\ cursor' = 0
      /\ UNCHANGED <<json, csv, cmd, bundle, removes, wanted, before, last, commands>>
  BY DEF EndOfList, files, session
<1>2. bundle[f] \in Seq(ItemsOf(f)) /\ cursor \in Nat
  BY BundleLists DEF ToolInv, ToolTypeOK
<1>3. cursor > 0 /\ \A i \in DOMAIN bundle[f] : i < cursor
  BY <1>1, <1>2
<1>4. at' \in {"filters", "apply"} /\ at' # f
  BY <1>1 DEF After, Lists
<1>5. ToolTypeOK'
  BY <1>1, <1>4 DEF ToolInv, ToolTypeOK, Lists
<1>6. StageOK'
  BY <1>1, <1>3, <1>4 DEF ToolInv, StageOK, After, Lists
<1>7. ChoiceOK'
  <2>1. ASSUME NEW g \in Lists PROVE Balance(g)'
    <3>1. Balance(g)
      BY <1>1 DEF ToolInv, ChoiceOK, Lists
    <3>2. ASSUME NEW i \in DOMAIN bundle[g]
          PROVE  /\ at' = g /\ cursor' > 0 => i < cursor'
                 /\ at = g /\ cursor > 0 => i < cursor
      BY <1>1, <1>3
    <3> QED
      BY <1>1, <3>1, <3>2, BalanceKept
  <2> QED
    BY <2>1 DEF ChoiceOK
<1>8. FilesOK' /\ TargetOK'
  BY <1>1, <1>4 DEF ToolInv, FilesOK, TargetOK, Written, Lists
<1> QED
  BY <1>5, <1>6, <1>7, <1>8 DEF ToolInv

(* When all has been asked, what is in the bundle is what the operator wants *)
(* and what is still to be removed.                                          *)
LEMMA AllAnswered ==
  ASSUME ToolInv, at \in {"apply", "open", "fill"}, NEW f \in Lists, NEW x \in ItemsOf(f)
  PROVE  /\ Times(bundle[f], x) = Times(wanted[f], x) + Times(removes, <<f, x>>)
         /\ Times(bundle[f], x) \in Nat /\ Times(wanted[f], x) \in Nat
         /\ Times(removes, <<f, x>>) \in Nat
<1>1. Answered(f, x) = {i \in DOMAIN bundle[f] : bundle[f][i] = x}
  BY DEF Answered, Lists
<1>2. Balance(f)
  BY DEF ToolInv, ChoiceOK
<1>3. bundle[f] \in Seq(ItemsOf(f)) /\ wanted[f] \in Seq(ItemsOf(f)) /\ removes \in Seq(Removal)
  BY BundleLists DEF ToolInv, ToolTypeOK
<1> QED
  BY <1>1, <1>2, <1>3, TimesType DEF Balance, Times

LEMMA ApplyInv == ToolInv /\ Apply => ToolInv'
<1> SUFFICES ASSUME ToolInv, Apply PROVE ToolInv'
  OBVIOUS
<1>1. at = "apply" /\ UNCHANGED <<json, csv, cmd, wanted, before, last, commands>>
  BY DEF Apply, files
<1>2. bundle \in Bundle /\ wanted \in Bundle /\ removes \in Seq(Removal)
  BY DEF ToolInv, ToolTypeOK
<1>3. ASSUME removes # <<>>, NEW r, r = Head(removes),
             bundle' = [bundle EXCEPT ![r[1]] = RemoveFirst(@, r[2])],
             removes' = Tail(removes), at' = at, cursor' = cursor
      PROVE  ToolInv'
  <2> DEFINE f == r[1]
             y == r[2]
  <2>1. r \in Removal /\ f \in Lists /\ y \in ItemsOf(f) /\ r = <<f, y>>
    BY <1>2, <1>3, RemovalFacts
  <2>2. \A x : /\ removes' \in Seq(Removal)
               /\ Times(removes, x) = Times(removes', x) + (IF x = r THEN 1 ELSE 0)
    BY <1>2, <1>3, TimesTail
  <2>3. \A x : Times(removes', x) \in Nat
    BY <2>2, TimesType
  <2> HIDE DEF f, y
  <2>4. Times(bundle[f], y) > 0
    <3>1. Times(removes, <<f, y>>) = Times(removes', <<f, y>>) + 1
      BY <2>1, <2>2
    <3> QED
      BY <1>1, <2>1, <2>3, <3>1, AllAnswered
  <2>5. bundle[f] \in Seq(ItemsOf(f))
    BY <1>2, <2>1, BundleLists
  <2>6. /\ RemoveFirst(bundle[f], y) \in Seq(ItemsOf(f))
        /\ \A x : Times(bundle[f], x) =
                    Times(RemoveFirst(bundle[f], y), x) + (IF x = y THEN 1 ELSE 0)
    BY <2>4, <2>5, TimesRemoveFirst
  <2>7. bundle' = With(bundle, f, RemoveFirst(bundle[f], y))
    BY <1>2, <1>3, <2>1 DEF f, y, With, Bundle, Lists
  <2>8. /\ bundle' \in Bundle /\ bundle'[f] = RemoveFirst(bundle[f], y)
        /\ bundle'.bucket = bundle.bucket
        /\ \A g \in Lists : g # f => bundle'[g] = bundle[g]
    BY <1>2, <2>1, <2>6, <2>7, BundleWith
  <2>9. ToolTypeOK'
    BY <1>1, <1>3, <2>2, <2>8 DEF ToolInv, ToolTypeOK
  <2>10. StageOK'
    BY <1>1, <1>3, <2>8 DEF ToolInv, StageOK
  <2>11. ASSUME NEW g \in Lists, NEW x \in ItemsOf(g)
         PROVE  Times(bundle'[g], x) = Times(wanted[g], x) + Times(removes', <<g, x>>)
    <3>1. /\ Times(bundle[g], x) = Times(wanted[g], x) + Times(removes, <<g, x>>)
          /\ Times(bundle[g], x) \in Nat /\ Times(wanted[g], x) \in Nat
          /\ Times(removes, <<g, x>>) \in Nat
      BY <1>1, AllAnswered
    <3>2. CASE g = f
      <4>1. <<g, x>> = r <=> x = y
        BY <2>1, <3>2
      <4>2. Times(removes, <<g, x>>) = Times(removes', <<g, x>>) + (IF x = y THEN 1 ELSE 0)
        BY <2>2, <4>1
      <4>3. Times(bundle[g], x) = Times(bundle'[g], x) + (IF x = y THEN 1 ELSE 0)
        BY <2>6, <2>8, <3>2
      <4>4. Times(bundle'[g], x) \in Nat /\ Times(removes', <<g, x>>) \in Nat
        BY <2>3, <2>8, TimesType, BundleLists
      <4> QED
        BY <3>1, <4>2, <4>3, <4>4
    <3>3. CASE g # f
      <4>1. <<g, x>> # r
        BY <2>1, <3>3
      <4>2. Times(removes, <<g, x>>) = Times(removes', <<g, x>>)
        BY <2>2, <2>3, <4>1
      <4> QED
        BY <2>8, <3>1, <3>3, <4>2
    <3> QED
      BY <3>2, <3>3
  <2>12. ChoiceOK'
    <3>1. ASSUME NEW g \in Lists, NEW x \in ItemsOf(g)
          PROVE  /\ Answered(g, x)' = {i \in DOMAIN bundle'[g] : bundle'[g][i] = x}
                 /\ Times(wanted[g], x)' = Times(wanted[g], x)
      BY <1>1, <1>3 DEF Answered, Times, Lists
    <3>2. ASSUME NEW g \in Lists, NEW x \in ItemsOf(g)
          PROVE  Cardinality(Answered(g, x)') =
                   Times(wanted[g], x)' + Times(removes, <<g, x>>)'
      BY <2>11, <3>1 DEF Times
    <3> QED
      BY <3>2 DEF ChoiceOK, Balance
  <2>13. FilesOK' /\ TargetOK'
    BY <1>1, <1>3 DEF ToolInv, FilesOK, TargetOK, Written
  <2> QED
    BY <2>9, <2>10, <2>12, <2>13 DEF ToolInv
<1>4. CASE removes = <<>> /\ at' = "open" /\ cursor' = 1 /\ UNCHANGED <<bundle, removes>>
  <2>1. ToolTypeOK'
    BY <1>1, <1>4 DEF ToolInv, ToolTypeOK
  <2>2. StageOK'
    BY <1>1, <1>4 DEF ToolInv, StageOK
  <2>3. ChoiceOK'
    <3>1. ASSUME NEW g \in Lists PROVE Balance(g)'
      <4>1. Balance(g) /\ at # g /\ at' # g
        BY <1>1, <1>4 DEF ToolInv, ChoiceOK, Lists
      <4> QED
        BY <1>1, <1>4, <4>1, BalanceKept
    <3> QED
      BY <3>1 DEF ChoiceOK
  <2>4. FilesOK' /\ TargetOK'
    BY <1>1, <1>4 DEF ToolInv, FilesOK, TargetOK, Written
  <2> QED
    BY <2>1, <2>2, <2>3, <2>4 DEF ToolInv
<1> QED
  BY <1>3, <1>4 DEF Apply

LEMMA OpenInv == ToolInv /\ Open => ToolInv'
<1> SUFFICES ASSUME ToolInv, Open PROVE ToolInv'
  OBVIOUS
<1> DEFINE p == cmd.path
<1>1. at = "open" /\ commands' = commands /\ cursor \in {1, 2} /\ removes = <<>>
  BY DEF Open, ToolInv, StageOK
<1>2. /\ WriteOrder[1] = "json" /\ WriteOrder[2] = "csv"
      /\ WriteOrder[cursor] = "json" <=> cursor = 1
  BY <1>1 DEF WriteOrder
<1>3. p \in Paths
  BY <1>1 DEF ToolInv, ToolTypeOK
<1>4. CASE End("refused") /\ UNCHANGED files
  BY <1>1, <1>4, EndInv DEF files, ToolInv, ToolTypeOK
<1>5. CASE /\ IF cursor = 1 THEN json' = [json EXCEPT ![p] = Cut] /\ UNCHANGED csv
                            ELSE csv' = [csv EXCEPT ![p] = <<>>] /\ UNCHANGED json
           /\ ~ IF cursor = 1 THEN ConfigClash(p) ELSE AclClash(p)
           /\ at' = "fill" /\ UNCHANGED <<session, cursor, last>>
  <2>1. ToolTypeOK'
    <3>1. <<>> \in Seq(CsvLine)
      OBVIOUS
    <3> QED
      BY <1>1, <1>3, <1>5, <3>1 DEF ToolInv, ToolTypeOK, session
  <2>2. StageOK'
    BY <1>1, <1>5 DEF ToolInv, StageOK, session
  <2>3. ChoiceOK'
    <3>1. ASSUME NEW g \in Lists PROVE Balance(g)'
      <4>1. Balance(g) /\ at # g /\ at' # g
        BY <1>1, <1>5 DEF ToolInv, ChoiceOK, Lists
      <4> QED
        BY <1>5, <4>1, BalanceKept DEF session
    <3> QED
      BY <3>1 DEF ChoiceOK
  <2>4. FilesOK'
    <3>1. CASE cursor = 1
      BY <1>1, <1>3, <1>5, <3>1 DEF ToolInv, ToolTypeOK, FilesOK, Written, session, ConfigClash
    <3>2. CASE cursor = 2
      BY <1>1, <1>3, <1>5, <3>2 DEF ToolInv, ToolTypeOK, FilesOK, Written, session
    <3> QED
      BY <1>1, <3>1, <3>2
  <2>5. TargetOK'
    BY <1>1, <1>5 DEF ToolInv, TargetOK, session
  <2> QED
    BY <2>1, <2>2, <2>3, <2>4, <2>5 DEF ToolInv
<1> QED
  BY <1>2, <1>4, <1>5 DEF Open

LEMMA LineType == ASSUME NEW x \in Rule PROVE Line(x) \in CsvLine
BY DEF Line, Rule, CsvLine, RuleActions

LEMMA CsvLinesType ==
  ASSUME NEW rules \in Seq(Rule)
  PROVE  CsvLines(rules) \in Seq(CsvLine) /\ DOMAIN CsvLines(rules) = DOMAIN rules
<1>1. \A i \in 1 .. Len(rules) : Line(rules[i]) \in CsvLine
  BY LineType
<1>2. CsvLines(rules) = [i \in 1 .. Len(rules) |-> Line(rules[i])] /\ Len(rules) \in Nat
  BY DEF CsvLines
<1> QED
  BY <1>1, <1>2

(* The two ways a file is filled. *)
LEMMA FillFacts ==
  ASSUME ToolInv, Fill
  PROVE  /\ at = "fill" /\ cmd.path \in Paths /\ commands' = commands
         /\ \/ /\ cursor = 1 /\ cursor' = 2 /\ at' = "open"
               /\ json' = [json EXCEPT ![cmd.path] =
                             [bucket |-> bundle.bucket, filters |-> bundle.filters]]
               /\ csv' = csv /\ UNCHANGED <<session, last>>
            \/ /\ cursor = 2 /\ End("done")
               /\ csv' = [csv EXCEPT ![cmd.path] = CsvLines(bundle.rules)]
               /\ json' = json
<1>1. at = "fill" /\ cmd.path \in Paths /\ cursor \in {1, 2} /\ commands' = commands
  BY DEF Fill, ToolInv, ToolTypeOK, StageOK
<1>2. /\ WriteOrder[1] = "json" /\ WriteOrder[2] = "csv" /\ Len(WriteOrder) = 2
  BY DEF WriteOrder
<1>3. CASE cursor = 1
  BY <1>1, <1>2, <1>3 DEF Fill
<1>4. CASE cursor = 2
  BY <1>1, <1>2, <1>4 DEF Fill
<1> QED
  BY <1>1, <1>3, <1>4

LEMMA FillInv == ToolInv /\ Fill => ToolInv'
<1> SUFFICES ASSUME ToolInv, Fill PROVE ToolInv'
  OBVIOUS
<1>1. at = "fill" /\ cmd.path \in Paths /\ commands' = commands
  BY FillFacts
<1>2. bundle.rules \in Seq(Rule)
  BY DEF ToolInv, ToolTypeOK, Bundle
<1>3. [bucket |-> bundle.bucket, filters |-> bundle.filters] \in Config
  BY DEF ToolInv, ToolTypeOK, Bundle, Config
<1>4. CASE cursor = 2
  <2>1. CsvLines(bundle.rules) \in Seq(CsvLine)
    BY <1>2, CsvLinesType
  <2> QED
    BY <1>1, <1>4, <2>1, FillFacts, EndInv DEF ToolInv, ToolTypeOK
<1>5. CASE /\ cursor = 1 /\ cursor' = 2 /\ at' = "open"
           /\ json' = [json EXCEPT ![cmd.path] =
                         [bucket |-> bundle.bucket, filters |-> bundle.filters]]
           /\ csv' = csv /\ UNCHANGED <<session, last>>
  <2>1. ToolTypeOK'
    BY <1>1, <1>3, <1>5 DEF ToolInv, ToolTypeOK, session
  <2>2. StageOK'
    BY <1>1, <1>5 DEF ToolInv, StageOK, session
  <2>3. ChoiceOK'
    <3>1. ASSUME NEW g \in Lists PROVE Balance(g)'
      <4>1. Balance(g) /\ at # g /\ at' # g
        BY <1>1, <1>5 DEF ToolInv, ChoiceOK, Lists
      <4> QED
        BY <1>5, <4>1, BalanceKept DEF session
    <3> QED
      BY <3>1 DEF ChoiceOK
  <2>4. FilesOK' /\ TargetOK'
    BY <1>1, <1>5 DEF ToolInv, ToolTypeOK, FilesOK, TargetOK, Written, session
  <2> QED
    BY <2>1, <2>2, <2>3, <2>4 DEF ToolInv
<1> QED
  BY <1>4, <1>5, FillFacts

LEMMA InterruptInv == ToolInv /\ Interrupt => ToolInv'
BY EndInv DEF Interrupt, ToolInv, ToolTypeOK, files

LEMMA QuietInv == ToolInv /\ UNCHANGED toolVars => ToolInv'
<1> SUFFICES ASSUME ToolInv, UNCHANGED toolVars PROVE ToolInv'
  OBVIOUS
<1> USE DEF toolVars, files, session
<1>1. ToolTypeOK' /\ StageOK' /\ FilesOK' /\ TargetOK'
  BY DEF ToolInv, ToolTypeOK, StageOK, FilesOK, TargetOK, Written
<1>2. ChoiceOK'
  BY DEF ToolInv, ChoiceOK, Balance, Answered, Times
<1> QED
  BY <1>1, <1>2 DEF ToolInv

LEMMA ToolInvStep == ToolInv /\ [ToolNext]_toolVars => ToolInv'
<1> SUFFICES ASSUME ToolInv, [ToolNext]_toolVars PROVE ToolInv'
  OBVIOUS
<1>1. ASSUME NEW p \in Paths, RemoveClient(p) PROVE ToolInv'
  BY <1>1, RemoveClientInv
<1>2. ASSUME NEW p \in Paths, NEW b \in Buckets, Add(p, b) PROVE ToolInv'
  BY <1>2, AddInv
<1>3. ASSUME NEW given \in Fragments, Edit(given) PROVE ToolInv'
  BY <1>3, EditInv
<1>4. ASSUME NEW f \in {"rules", "filters"}, ChooseList(f) \/ EditItem(f) \/ EndOfList(f)
      PROVE  ToolInv'
  BY <1>4, ChooseListInv, EditItemInv, EndOfListInv DEF Lists
<1>5. CASE EditClient \/ Apply \/ Open \/ Fill \/ Interrupt
  BY <1>5, EditClientInv, ApplyInv, OpenInv, FillInv, InterruptInv
<1>6. CASE AllSaid \/ UNCHANGED toolVars
  BY <1>6, QuietInv DEF AllSaid
<1> QED
  BY <1>1, <1>2, <1>3, <1>4, <1>5, <1>6 DEF ToolNext

(* Between any two steps of any command the bundle, the removals and what    *)
(* the operator wants add up, and the files are those at the beginning but   *)
(* for what the command has written.                                         *)
THEOREM ToolInvariance == ToolSpec => []ToolInv
BY ToolInvInit, ToolInvStep, PTL DEF ToolSpec

(* Types; a None never reaches a csv (configbuilder.py:353-355,384).         *)
THEOREM ToolTypeCorrectness == ToolSpec => []ToolTypeOK
<1>1. ToolInv => ToolTypeOK
  BY DEF ToolInv
<1> QED
  BY <1>1, ToolInvariance, PTL

------------------------------------------------------------------------------
(* The properties.                                                           *)

(* Files change only when they are removed, opened or filled, the latter two *)
(* those of the command's own client.                                        *)
LEMMA WhoWrites ==
  ASSUME ToolInv, [ToolNext]_toolVars, json' # json \/ csv' # csv
  PROVE  \/ at = "idle" /\ csv' = csv
         \/ /\ at = "open" /\ Open
            /\ \A p \in Paths : /\ json'[p] # json[p] => p = cmd.path
                                /\ csv'[p] # csv[p] => p = cmd.path /\ csv'[p] = <<>>
         \/ /\ at = "fill" /\ Fill
            /\ \A p \in Paths : json'[p] # json[p] \/ csv'[p] # csv[p] => p = cmd.path
<1>1. CASE \E p \in Paths : RemoveClient(p)
  BY <1>1 DEF RemoveClient
<1>2. CASE Open
  <2>1. at = "open"
    BY <1>2 DEF Open
  <2>2. \/ json' = json /\ csv' = csv
        \/ json' = [json EXCEPT ![cmd.path] = Cut] /\ csv' = csv
        \/ csv' = [csv EXCEPT ![cmd.path] = <<>>] /\ json' = json
    BY <1>2 DEF Open, files
  <2>3. \A p \in Paths : /\ json'[p] # json[p] => p = cmd.path
                         /\ csv'[p] # csv[p] => p = cmd.path /\ csv'[p] = <<>>
    BY <2>2 DEF ToolInv, ToolTypeOK
  <2> QED
    BY <1>2, <2>1, <2>3
<1>3. CASE Fill
  BY <1>3, FillFacts DEF ToolInv, ToolTypeOK
<1>4. CASE \/ \E p \in Paths, b \in Buckets : Add(p, b)
           \/ \E given \in Fragments : Edit(given)
  BY <1>4 DEF Add, Edit, Begin, files
<1>5. CASE \/ \E f \in {"rules", "filters"} : ChooseList(f) \/ EditItem(f) \/ EndOfList(f)
           \/ EditClient \/ Apply \/ Interrupt \/ AllSaid \/ UNCHANGED toolVars
  BY <1>5 DEF ChooseList, EditItem, EndOfList, EditClient, Apply, Interrupt, AllSaid,
              toolVars, files
<1> QED
  BY <1>1, <1>2, <1>3, <1>4, <1>5 DEF ToolNext

(* No command gives rules to a client before its configuration is complete,  *)
(* wherever the command dies (configbuilder.py:230-233).                     *)
THEOREM RulesFollowConfigAlways == ToolSpec => RulesFollowConfig
<1>1. ASSUME ToolInv, [ToolNext]_toolVars, NEW p \in Paths,
             csv'[p] # csv[p], csv'[p] # <<>>
      PROVE  json[p] \notin {Absent, Cut}
  <2>1. at = "fill" /\ Fill /\ p = cmd.path
    BY <1>1, WhoWrites
  <2>2. cursor = 2
    BY <1>1, <2>1, FillFacts
  <2>3. json[p] = [bucket |-> bundle.bucket, filters |-> bundle.filters]
    BY <1>1, <2>1, <2>2 DEF ToolInv, FilesOK, Written
  <2>4. json[p] \in Config
    BY <1>1, <2>3 DEF ToolInv, ToolTypeOK, Bundle, Config
  <2> QED
    BY <2>4, SentinelsAssumption
<1>2. ToolInv /\ [ToolNext]_toolVars
        => [\A p \in Paths : csv'[p] # csv[p] /\ csv'[p] # <<>>
              => json[p] \notin {Absent, Cut}]_toolVars
  BY <1>1
<1> QED
  BY <1>2, ToolInvariance, PTL DEF ToolSpec, RulesFollowConfig

(* Only the files of the client that was named change, or of the one whose   *)
(* id begins with what was given if no client has that very id               *)
(* (configbuilder.py:173-175).                                               *)
THEOREM OnlyTheNamedClientAlways == ToolSpec => OnlyTheNamedClient
<1> DEFINE A == at # "idle" => \A p \in Paths :
       json'[p] # json[p] \/ csv'[p] # csv[p] =>
         /\ p = cmd.path
         /\ p[2] = cmd.given \/ \A h \in Homes : cmd.given \in Clients
                                   => before[1][<<h, cmd.given>>] = Absent
<1>1. ToolInv /\ [ToolNext]_toolVars => A
  BY WhoWrites DEF ToolInv, TargetOK
<1> QED
  BY <1>1, ToolInvariance, PTL DEF ToolSpec, OnlyTheNamedClient

(* Only three steps end a command of their own accord.                       *)
LEMMA HowItEnds ==
  ASSUME ToolInv, [ToolNext]_toolVars, at # "idle", last' \in {"done", "refused"}
  PROVE  \/ at \in Lists /\ last' = "refused" /\ json' = json /\ csv' = csv
         \/ at = "open" /\ last' = "refused" /\ json' = json /\ csv' = csv /\ cmd.op = "add"
         \/ at = "fill" /\ last' = "done" /\ cursor = 2 /\ Fill
<1>1. last = "none"
  BY DEF ToolInv, StageOK
<1>2. CASE \E f \in Lists : ChooseList(f)
  BY <1>1, <1>2 DEF ChooseList, End, files
<1>3. CASE Open
  BY <1>1, <1>3 DEF Open, End, files, ConfigClash, AclClash
<1>4. CASE Fill
  BY <1>1, <1>4, FillFacts DEF End
<1>5. CASE Interrupt
  BY <1>5 DEF Interrupt, End
<1>6. CASE \/ \E f \in Lists : EditItem(f) \/ EndOfList(f)
           \/ EditClient \/ Apply \/ UNCHANGED toolVars
  BY <1>1, <1>6 DEF EditItem, EndOfList, EditClient, Apply, toolVars
<1>7. CASE \/ \E p \in Paths : RemoveClient(p) \/ \E b \in Buckets : Add(p, b)
           \/ \E given \in Fragments : Edit(given)
           \/ AllSaid
  BY <1>7 DEF RemoveClient, Add, Edit, AllSaid
<1> QED
  BY <1>2, <1>3, <1>4, <1>5, <1>6, <1>7 DEF ToolNext, Lists

(* A command that is refused has changed no file that was there when it      *)
(* began, however far it came (configbuilder.py:284,293).                    *)
THEOREM RefusedLeavesFilesAlways == ToolSpec => RefusedLeavesFiles
<1> DEFINE A == last' = "refused" /\ at # "idle" =>
                  \A p \in Paths :
                    /\ before[1][p] # Absent => json'[p] = before[1][p]
                    /\ before[2][p] # Absent => csv'[p] = before[2][p]
<1>1. ASSUME ToolInv, [ToolNext]_toolVars, last' = "refused", at # "idle", NEW p \in Paths,
             before[1][p] # Absent
      PROVE  json'[p] = before[1][p]
  BY <1>1, HowItEnds DEF ToolInv, FilesOK, Written, Lists
<1>2. ASSUME ToolInv, [ToolNext]_toolVars, last' = "refused", at # "idle"
      PROVE  csv' = before[2]
  BY <1>2, HowItEnds DEF ToolInv, FilesOK, Lists
<1>3. ToolInv /\ [ToolNext]_toolVars => A
  BY <1>1, <1>2
<1> QED
  BY <1>3, ToolInvariance, PTL DEF ToolSpec, RefusedLeavesFiles

(* What a line of the csv was before it was written.                         *)
LEMMA LineTimes ==
  ASSUME NEW s \in Seq(Rule), NEW y \in CsvLine
  PROVE  Times(CsvLines(s), y) =
           Times(s, y) + (IF y.action = "None" THEN Times(s, [y EXCEPT !.action = None]) ELSE 0)
<1> DEFINE z == [y EXCEPT !.action = None]
           P == {i \in DOMAIN s : s[i] = y}
           Q == {i \in DOMAIN s : s[i] = z}
           S == {i \in DOMAIN CsvLines(s) : CsvLines(s)[i] = y}
<1>1. y.action # None /\ z # y /\ y \in Rule
  BY SentinelsAssumption DEF CsvLine, Rule, RuleActions
<1>2. ASSUME NEW x \in Rule
      PROVE  Line(x) = y <=> (x = y \/ (y.action = "None" /\ x = z))
  BY SentinelsAssumption DEF Line, CsvLine, Rule, RuleActions
<1>3. \A i \in DOMAIN s : s[i] \in Rule
  OBVIOUS
<1>4. S = {i \in DOMAIN s : Line(s[i]) = y}
  BY DEF CsvLines
<1> HIDE DEF z
<1>5. S = IF y.action = "None" THEN P \cup Q ELSE P
  BY <1>2, <1>3, <1>4
<1>6. P \cap Q = {}
  BY <1>1
<1>7. /\ IsFiniteSet(P) /\ Cardinality(P) \in Nat
      /\ IsFiniteSet(Q) /\ Cardinality(Q) \in Nat
  BY PlacesFinite
<1> HIDE DEF P, Q, S
<1>8. Cardinality(P \cup Q) = Cardinality(P) + Cardinality(Q)
  <2>1. Cardinality(P \cup Q) = Cardinality(P) + Cardinality(Q) - Cardinality(P \cap Q)
    BY <1>7, FS_Union
  <2>2. Cardinality(P \cap Q) = 0
    BY <1>6, FS_EmptySet
  <2> QED
    BY <1>7, <2>1, <2>2
<1>9. /\ Times(s, y) = Cardinality(P) /\ Times(s, z) = Cardinality(Q)
      /\ Times(CsvLines(s), y) = Cardinality(S)
  BY DEF Times, P, Q, S
<1> QED
  BY <1>5, <1>7, <1>8, <1>9 DEF z

(* At the end of a command both lists hold what the operator wants.          *)
LEMMA BothListsAgree ==
  ASSUME ToolInv, at = "fill", NEW f \in Lists, NEW x \in ItemsOf(f)
  PROVE  Times(bundle[f], x) = Times(wanted[f], x)
<1>1. removes = <<>>
  BY DEF ToolInv, StageOK
<1>2. Times(removes, <<f, x>>) = 0
  BY <1>1, TimesEmpty
<1> QED
  BY <1>2, AllAnswered

(* What the files of a client hold when its command is done.                 *)
LEMMA WhenDone ==
  ASSUME ToolInv, [ToolNext]_toolVars, last' = "done", at = "fill"
  PROVE  /\ cmd.path \in Paths
         /\ json'[cmd.path] = [bucket |-> bundle.bucket, filters |-> bundle.filters]
         /\ csv'[cmd.path] = CsvLines(bundle.rules)
         /\ bundle \in Bundle /\ wanted \in Bundle
         /\ bundle.bucket # None /\ bundle.bucket = wanted.bucket
<1>1. cursor = 2 /\ Fill
  BY HowItEnds
<1>2. /\ json' = json /\ csv' = [csv EXCEPT ![cmd.path] = CsvLines(bundle.rules)]
      /\ cmd.path \in Paths
  BY <1>1, FillFacts
<1>3. json[cmd.path] = [bucket |-> bundle.bucket, filters |-> bundle.filters]
  BY <1>1 DEF ToolInv, FilesOK, Written
<1> QED
  BY <1>2, <1>3 DEF ToolInv, ToolTypeOK, StageOK

(* When a command is done the files hold the bucket, the rules and the       *)
(* filters the operator accepted, one by one: nothing that was answered away *)
(* is kept and nothing that was kept is lost (configbuilder.py:333,384).     *)
THEOREM WrittenAsAcceptedAlways == ToolSpec => WrittenAsAccepted
<1> DEFINE A == last' = "done" /\ at = "fill" =>
       LET p == cmd.path
       IN /\ json'[p].bucket = wanted.bucket
          /\ SameItems(json'[p].filters, wanted.filters)
          /\ SameItems(csv'[p], CsvLines(wanted.rules))
<1>1. ASSUME ToolInv, [ToolNext]_toolVars, last' = "done", at = "fill"
      PROVE  /\ json'[cmd.path].bucket = wanted.bucket
             /\ SameItems(json'[cmd.path].filters, wanted.filters)
             /\ SameItems(csv'[cmd.path], CsvLines(wanted.rules))
  <2>1. /\ json'[cmd.path].bucket = wanted.bucket
        /\ json'[cmd.path].filters = bundle.filters
        /\ csv'[cmd.path] = CsvLines(bundle.rules)
    BY <1>1, WhenDone
  <2>2. /\ bundle.filters \in Seq(Filter) /\ wanted.filters \in Seq(Filter)
        /\ bundle.rules \in Seq(Rule) /\ wanted.rules \in Seq(Rule)
    BY <1>1, WhenDone DEF Bundle
  <2>3. ASSUME NEW x \in Filter PROVE Times(bundle.filters, x) = Times(wanted.filters, x)
    <3>1. "filters" \in Lists /\ x \in ItemsOf("filters")
      BY DEF Lists, ItemsOf
    <3>2. Times(bundle["filters"], x) = Times(wanted["filters"], x)
      BY <1>1, <3>1, BothListsAgree
    <3> QED
      BY <3>2
  <2>4. ASSUME NEW x \in Rule PROVE Times(bundle.rules, x) = Times(wanted.rules, x)
    <3>1. "rules" \in Lists /\ x \in ItemsOf("rules")
      BY DEF Lists, ItemsOf
    <3>2. Times(bundle["rules"], x) = Times(wanted["rules"], x)
      BY <1>1, <3>1, BothListsAgree
    <3> QED
      BY <3>2
  <2>5. SameItems(bundle.filters, wanted.filters)
    <3>1. ToSet(bundle.filters) \cup ToSet(wanted.filters) \subseteq Filter
      BY <2>2 DEF ToSet
    <3> QED
      BY <2>3, <3>1 DEF SameItems
  <2>6. ASSUME NEW y \in CsvLine
        PROVE  Times(CsvLines(bundle.rules), y) = Times(CsvLines(wanted.rules), y)
    <3>1. y \in Rule /\ [y EXCEPT !.action = None] \in Rule
      BY DEF CsvLine, Rule
    <3> QED
      BY <2>2, <2>4, <3>1, LineTimes
  <2>7. SameItems(CsvLines(bundle.rules), CsvLines(wanted.rules))
    <3>1. CsvLines(bundle.rules) \in Seq(CsvLine) /\ CsvLines(wanted.rules) \in Seq(CsvLine)
      BY <2>2, CsvLinesType
    <3>2. ToSet(CsvLines(bundle.rules)) \cup ToSet(CsvLines(wanted.rules)) \subseteq CsvLine
      BY <3>1 DEF ToSet
    <3> QED
      BY <2>6, <3>2 DEF SameItems
  <2> QED
    BY <2>1, <2>5, <2>7
<1>2. ToolInv /\ [ToolNext]_toolVars => A
  BY <1>1
<1> QED
  BY <1>2, ToolInvariance, PTL DEF ToolSpec, WrittenAsAccepted

(* The files of a finished command validate when they are loaded, unless     *)
(* every rule was removed (configbuilder.py:124): its bucket was not         *)
(* answered away (configbuilder.py:331,339).                                 *)
THEOREM StaysLoadableAlways == ToolSpec => StaysLoadable
<1> DEFINE A == last' = "done" /\ at = "fill" =>
                  Loadable(json'[cmd.path], csv'[cmd.path]) \/ wanted.rules = <<>>
<1>1. ASSUME ToolInv, [ToolNext]_toolVars, last' = "done", at = "fill", wanted.rules # <<>>
      PROVE  Loadable(json'[cmd.path], csv'[cmd.path])
  <2>1. /\ json'[cmd.path] = [bucket |-> bundle.bucket, filters |-> bundle.filters]
        /\ csv'[cmd.path] = CsvLines(bundle.rules)
        /\ bundle \in Bundle /\ wanted \in Bundle /\ bundle.bucket # None
    BY <1>1, WhenDone
  <2>2. json'[cmd.path] # Cut /\ json'[cmd.path].bucket # None
    <3>1. json'[cmd.path] \in Config
      BY <2>1 DEF Bundle, Config
    <3> QED
      BY <2>1, <3>1, SentinelsAssumption
  <2>3. csv'[cmd.path] # <<>>
    <3> DEFINE x == wanted.rules[1]
    <3>1. /\ wanted.rules \in Seq(Rule) /\ bundle.rules \in Seq(Rule)
          /\ 1 \in DOMAIN wanted.rules /\ x \in Rule
      BY <1>1, <2>1 DEF Bundle
    <3>2. Times(wanted.rules, x) # 0
      BY <3>1, TimesType
    <3>3. "rules" \in Lists /\ x \in ItemsOf("rules")
      BY <3>1 DEF Lists, ItemsOf
    <3>4. Times(bundle["rules"], x) = Times(wanted["rules"], x)
      BY <1>1, <3>3, BothListsAgree
    <3>5. bundle.rules # <<>>
      BY <3>2, <3>4, TimesEmpty
    <3>6. 1 \in DOMAIN CsvLines(bundle.rules)
      <4>1. DOMAIN CsvLines(bundle.rules) = DOMAIN bundle.rules
        BY <3>1, CsvLinesType
      <4>2. 1 \in DOMAIN bundle.rules
        BY <3>1, <3>5
      <4> QED
        BY <4>1, <4>2
    <3> QED
      BY <2>1, <3>6
  <2> QED
    BY <2>2, <2>3 DEF Loadable
<1>2. ToolInv /\ [ToolNext]_toolVars => A
  BY <1>1
<1> QED
  BY <1>2, ToolInvariance, PTL DEF ToolSpec, StaysLoadable

=============================================================================
