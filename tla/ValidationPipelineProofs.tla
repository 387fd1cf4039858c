---------------------- MODULE ValidationPipelineProofs ----------------------
(***************************************************************************)
(* For every set of files and every configuration: clamd approves in full  *)
(* whatever a client validator or S3 sees; and, if no list of validators   *)
(* holds two text scans, a file is accepted only if every check of the     *)
(* whole file passes, is answered 500 exactly when one could not run, and  *)
(* is told all its failures in order and nothing of another's.             *)
(***************************************************************************)
EXTENDS ValidationPipeline, FiniteSetTheorems, WellFoundedInduction, TLAPS

(* What a client may have sent; no step changes it.                          *)
RequestOK ==
  /\ request.endpoint \in Endpoints
  /\ request.files \in Seq(Files) /\ request.files # <<>>
  /\ request.validators \in ValidatorsFor(request.endpoint, request.files[1])
  /\ request.collection \in CollectionSpecs \cup {<<>>}
  /\ request.endpoint # "bulk_upload" => Len(request.files) = 1 /\ request.collection = <<>>
  /\ request.endpoint = "scan_for_suspicious_content" => request.files[1].named

(* Nothing is known yet of the files that are still to come.                 *)
Ahead ==
  pc # "done" => \A i \in DOMAIN request.files :
    /\ i >= at => outcome[i] = 0 /\ saved[i] = None
    /\ i > at \/ (i = at /\ pc \in {"collection", "headers"}) => approved[i] = None

(* clamd has seen all of the file and found nothing. *)
Clean(i) == /\ approved[i] = request.files[i].body
            /\ \A j \in DOMAIN request.files[i].body : request.files[i].body[j] # "virus"

(* What the mandatory validators before the n-th have made sure of.          *)
PassedUpTo(n) ==
  /\ n > 1 => This.named
  /\ n <= 2 => approved[at] = None
  /\ n > 2 => Clean(at)
  /\ \A k \in 3 .. n - 1 : Selected[k] \notin This.faults

PassedMandatory(i) ==
  /\ request.hasLength /\ request.files[i].named /\ Clean(i)
  /\ request.endpoint \in Uploads => request.files[i].faults = {}

(* Where the stream stands, and what has been passed, at each step.          *)
StageOK ==
  /\ pc = "collection" => request.endpoint = "bulk_upload" /\ at = 1
  /\ pc = "headers" \/ pc = "mandatory" => request.endpoint # "scan_for_suspicious_content"
  /\ pc = "mandatory" => /\ request.hasLength
                         /\ next \in 1 .. Len(Selected)
                         /\ PassedUpTo(next)
  /\ pc \in {"configured", "checksum", "save"} => request.endpoint \in Uploads
  /\ pc = "clean" => request.endpoint = "virus_check_file"
  /\ pc \in {"configured", "checksum", "save", "clean"} => PassedMandatory(at)
  /\ pc = "save" => checksum[at] = This.body
  /\ pc = "scan" => request.endpoint = "scan_for_suspicious_content" /\ at = 1
  /\ pc \in {"collection", "headers", "mandatory", "save", "scan"} => place = 0

PipelineInv == RequestOK /\ TypeOK /\ Ahead /\ StageOK /\ ScannedFirst

(* A client's list holds at most one text scan: with two, the second reads a *)
(* stream that stands at its end, and what follows is false.                 *)
OneScan ==
  \A list \in FileSpecs : \A j, k \in DOMAIN list :
    list[j].name = "ScanForSuspiciousContent" /\ list[k].name = "ScanForSuspiciousContent"
      => j = k

(* The errors of the first n validators of file i, of those that failed.     *)
ErrorsUpTo(i, n) == {ErrorOf(CodeOf(i, k)) : k \in {j \in 1 .. n : CodeOf(i, j) # 200}}

(* A list is run up to the first failure that stops it, and then no further. *)
RunSoFar == IF next <= Len(request.validators) THEN next - 1 ELSE LastRun(at)

CollectionPassed(n) ==
  \A k \in 1 .. n : CollectionCheck(request.collection[k], request.files) = 200

LoopsOK ==
  /\ pc = "collection" /\ errors = <<>> => CollectionPassed(next - 1)
  /\ pc \notin {"collection", "done"} => CollectionPassed(Len(request.collection))
  /\ pc = "configured" =>
       /\ next <= Len(request.validators) => next <= LastRun(at)
       /\ place = 0 \/ \E k \in 1 .. next - 1 :
                         /\ k <= Len(request.validators)
                         /\ request.validators[k].name = "ScanForSuspiciousContent"
       /\ ToSet(errors) = ErrorsUpTo(at, RunSoFar)
       /\ ListsFailures(errors, at, RunSoFar)
  /\ pc \in {"checksum", "save"} => ErrorsUpTo(at, LastRun(at)) = {}

VerdictInv == LoopsOK /\ AcceptedPassesAll /\ BreakdownIs500 /\ FailuresAllReported

------------------------------------------------------------------------------
(* Lemmas about the operators.                                               *)

LEMMA MinOfNats ==
  ASSUME NEW S \in SUBSET Nat, S # {}
  PROVE  Min(S) \in S /\ \A n \in S : Min(S) <= n
<1> DEFINE R == {q \in Nat \X Nat : q[1] < q[2]}
<1>1. PICK m \in S : \A n \in S : ~(<<n, m>> \in R)
  <2> HIDE DEF R
  <2>1. IsWellFoundedOn(R, Nat)
    BY NatLessThanWellFounded DEF R, OpToRel
  <2> QED
    BY <2>1, WFMin
<1>2. ASSUME NEW n \in S PROVE m <= n
  <2>1. m \in Nat /\ n \in Nat
    BY <1>1
  <2>2. ~(<<n, m>> \in R)
    BY <1>1
  <2> QED
    BY <2>1, <2>2
<1> QED
  BY <1>2 DEF Min

LEMMA FunctionIsSeq ==
  ASSUME NEW N, NEW n \in Nat, NEW t \in [1 .. n -> N]
  PROVE  t \in Seq(N) /\ Len(t) = n
OBVIOUS

LEMMA ConcatFacts ==
  ASSUME NEW N, NEW s \in Seq(N), NEW t \in Seq(N)
  PROVE  /\ s \o t \in Seq(N) /\ Len(s \o t) = Len(s) + Len(t)
         /\ \A k \in 1 .. Len(s) : (s \o t)[k] = s[k]
         /\ \A k \in Len(s) + 1 .. Len(s) + Len(t) : (s \o t)[k] = t[k - Len(s)]
OBVIOUS

LEMMA FourNames ==
  IsFiniteSet(FilenameValidators) /\ Cardinality(FilenameValidators) = 4
<1> DEFINE A == {"NoUrlInFilename"}
           B == A \cup {"NoDirectoryPathInFilename"}
           C == B \cup {"NoWindowsVolumeInFilename"}
           D == C \cup {"NoUnacceptableCharactersInFilename"}
<1>1. IsFiniteSet(A) /\ Cardinality(A) = 1
  BY FS_Singleton
<1>2. IsFiniteSet(B) /\ Cardinality(B) = 2
  <2>1. "NoDirectoryPathInFilename" \notin A
    OBVIOUS
  <2> QED
    BY <1>1, <2>1, FS_AddElement
<1>3. IsFiniteSet(C) /\ Cardinality(C) = 3
  <2>1. "NoWindowsVolumeInFilename" \notin B
    OBVIOUS
  <2> HIDE DEF B
  <2> QED
    BY <1>2, <2>1, FS_AddElement
<1>4. IsFiniteSet(D) /\ Cardinality(D) = 4
  <2>1. "NoUnacceptableCharactersInFilename" \notin C
    OBVIOUS
  <2> HIDE DEF C
  <2> QED
    BY <1>3, <2>1, FS_AddElement
<1> QED
  BY <1>4 DEF FilenameValidators

(* The four validators of the name, in some order. *)
LEMMA FilenameOrder ==
  /\ SetToSeq(FilenameValidators) \in [1 .. 4 -> FilenameValidators]
  /\ \A v \in FilenameValidators : \E k \in 1 .. 4 : SetToSeq(FilenameValidators)[k] = v
<1> DEFINE S == FilenameValidators
<1> HIDE DEF S
<1>1. IsFiniteSet(S) /\ Cardinality(S) = 4
  BY FourNames DEF S
<1>2. IsFiniteSet(1 .. 4) /\ Cardinality(1 .. 4) = 4
  <2>1. \A n \in Nat : IsFiniteSet(1 .. n) /\ Cardinality(1 .. n) = n
    BY FS_Interval
  <2> QED
    BY <2>1
<1>3. PICK f : f \in Bijection(1 .. 4, S)
  BY <1>1, <1>2, FS_SameCardinalityBij DEF ExistsBijection
<1>4. f \in [1 .. 4 -> S] /\ IsInjective(f)
  BY <1>3 DEF Bijection, Injection, IsInjective
<1>5. SetToSeq(S) \in [1 .. 4 -> S] /\ IsInjective(SetToSeq(S))
  BY <1>1, <1>4 DEF SetToSeq
<1>6. SetToSeq(S) \in Injection(1 .. 4, S)
  BY <1>5 DEF Injection
<1>7. SetToSeq(S) \in Surjection(1 .. 4, S)
  BY <1>1, <1>2, <1>6, FS_Injection
<1> QED
  BY <1>5, <1>7 DEF S, Surjection

LEMMA MandatoryFacts ==
  /\ MandatoryOrder \in Seq({"HaveFile", "NoVirusFoundInFile"} \cup FilenameValidators)
  /\ Len(MandatoryOrder) = 6
  /\ MandatoryOrder[1] = "HaveFile" /\ MandatoryOrder[2] = "NoVirusFoundInFile"
  /\ \A k \in 3 .. 6 : MandatoryOrder[k] \in FilenameValidators
  /\ \A v \in FilenameValidators : \E k \in 3 .. 6 : MandatoryOrder[k] = v
<1> DEFINE t == SetToSeq(FilenameValidators)
           N == {"HaveFile", "NoVirusFoundInFile"} \cup FilenameValidators
<1>1. t \in [1 .. 4 -> FilenameValidators] /\ \A v \in FilenameValidators : \E k \in 1 .. 4 : t[k] = v
  BY FilenameOrder
<1>2. MandatoryOrder = <<"HaveFile", "NoVirusFoundInFile">> \o t
  BY DEF MandatoryOrder
<1> HIDE DEF t
<1>3. t \in Seq(N) /\ Len(t) = 4
  <2>1. t \in [1 .. 4 -> N]
    BY <1>1
  <2> HIDE DEF N
  <2> QED
    BY <2>1, FunctionIsSeq
<1>4. PICK s : s = <<"HaveFile", "NoVirusFoundInFile">>
  OBVIOUS
<1>5. /\ s \in Seq(N) /\ Len(s) = 2
      /\ s[1] = "HaveFile" /\ s[2] = "NoVirusFoundInFile"
  BY <1>4
<1> HIDE DEF N
<1>6. /\ MandatoryOrder \in Seq(N) /\ Len(MandatoryOrder) = 2 + 4
      /\ \A k \in 1 .. 2 : MandatoryOrder[k] = s[k]
      /\ \A k \in 2 + 1 .. 2 + 4 : MandatoryOrder[k] = t[k - 2]
  <2>1. MandatoryOrder = s \o t
    BY <1>2, <1>4
  <2>2. /\ s \o t \in Seq(N) /\ Len(s \o t) = Len(s) + Len(t)
        /\ \A k \in 1 .. Len(s) : (s \o t)[k] = s[k]
        /\ \A k \in Len(s) + 1 .. Len(s) + Len(t) : (s \o t)[k] = t[k - Len(s)]
    BY <1>3, <1>5, ConcatFacts
  <2> QED
    BY <1>3, <1>5, <2>1, <2>2
<1>7. \A k \in 3 .. 6 : MandatoryOrder[k] = t[k - 2] /\ k - 2 \in 1 .. 4
  BY <1>6
<1>8. \A k \in 3 .. 6 : MandatoryOrder[k] \in FilenameValidators
  BY <1>1, <1>7
<1>9. ASSUME NEW v \in FilenameValidators
      PROVE  \E k \in 3 .. 6 : MandatoryOrder[k] = v
  <2>1. PICK k \in 1 .. 4 : t[k] = v
    BY <1>1
  <2>2. k + 2 \in 3 .. 6 /\ (k + 2) - 2 = k
    BY <2>1
  <2> QED
    BY <1>7, <2>1, <2>2
<1> QED
  BY <1>5, <1>6, <1>8, <1>9 DEF N

(* What Selected runs. *)
LEMMA SelectedFacts ==
  /\ Selected \in Seq({"HaveFile", "NoVirusFoundInFile"} \cup FilenameValidators)
  /\ Len(Selected) >= 2
  /\ Selected[1] = "HaveFile" /\ Selected[2] = "NoVirusFoundInFile"
  /\ \A k \in 3 .. Len(Selected) : Selected[k] \in FilenameValidators
  /\ request.endpoint # "virus_check_file"
       => \A v \in FilenameValidators : \E k \in 3 .. Len(Selected) : Selected[k] = v
<1>1. CASE request.endpoint = "virus_check_file"
  <2>1. Selected = <<"HaveFile", "NoVirusFoundInFile">>
    BY <1>1 DEF Selected
  <2> QED
    BY <1>1, <2>1
<1>2. CASE request.endpoint # "virus_check_file"
  <2>1. Selected = MandatoryOrder
    BY <1>2 DEF Selected
  <2> QED
    BY <2>1, MandatoryFacts
<1> QED
  BY <1>1, <1>2

(* What a client may send is well formed. *)
LEMMA ListFacts ==
  ASSUME NEW list, list \in FileSpecs \cup CollectionSpecs \cup {<<>>}
  PROVE  /\ list \in Seq(ToSet(list))
         /\ DOMAIN list = 1 .. Len(list) /\ Len(list) \in Nat
         /\ \A k \in DOMAIN list : IsSpec(list[k])
<1>1. CASE list \in FileSpecs \cup CollectionSpecs
  <2>1. list \in Seq(ToSet(list)) /\ \A k \in DOMAIN list : IsSpec(list[k])
    BY <1>1, SpecsAssumption
  <2> HIDE DEF ToSet
  <2> QED
    BY <2>1
<1>2. CASE list = <<>>
  BY <1>2
<1> QED
  BY <1>1, <1>2

LEMMA RequestFacts ==
  ASSUME RequestOK
  PROVE  /\ DOMAIN request.files = 1 .. Len(request.files)
         /\ Len(request.files) \in Nat \ {0}
         /\ \A i \in DOMAIN request.files : IsFile(request.files[i])
         /\ DOMAIN request.validators = 1 .. Len(request.validators)
         /\ Len(request.validators) \in Nat
         /\ \A k \in DOMAIN request.validators : IsSpec(request.validators[k])
         /\ DOMAIN request.collection = 1 .. Len(request.collection)
         /\ Len(request.collection) \in Nat
         /\ \A k \in DOMAIN request.collection : IsSpec(request.collection[k])
<1>1. request.files \in Seq(Files) /\ request.files # <<>>
  BY DEF RequestOK
<1>2. /\ DOMAIN request.files = 1 .. Len(request.files)
      /\ Len(request.files) \in Nat \ {0}
      /\ \A i \in DOMAIN request.files : request.files[i] \in Files
  BY <1>1
<1>3. \A i \in DOMAIN request.files : IsFile(request.files[i])
  BY <1>2, FilesAssumption
<1>4. request.collection \in FileSpecs \cup CollectionSpecs \cup {<<>>}
  BY DEF RequestOK
<1>5. /\ DOMAIN request.collection = 1 .. Len(request.collection)
      /\ Len(request.collection) \in Nat
      /\ \A k \in DOMAIN request.collection : IsSpec(request.collection[k])
  BY <1>4, ListFacts
<1>6. /\ DOMAIN request.validators = 1 .. Len(request.validators)
      /\ Len(request.validators) \in Nat
      /\ \A k \in DOMAIN request.validators : IsSpec(request.validators[k])
  <2>1. request.validators \in ValidatorsFor(request.endpoint, request.files[1])
    BY DEF RequestOK
  <2>2. CASE request.endpoint = "scan_for_suspicious_content"
    <3>1. PICK types \in ScanRequests, delimiter \in BOOLEAN :
            request.validators = <<[name |-> "ScanForSuspiciousContent", limit |-> Missing,
                                    values |-> types, xml |-> request.files[1].type = "xml",
                                    delimiter |-> delimiter]>>
      BY <2>1, <2>2 DEF ValidatorsFor, Uploads
    <3>2. DOMAIN request.validators = 1 .. 1 /\ Len(request.validators) = 1
      BY <3>1
    <3>3. IsSpec(request.validators[1])
      BY <3>1 DEF IsSpec, Missing
    <3> QED
      BY <3>2, <3>3
  <2>3. CASE request.endpoint # "scan_for_suspicious_content"
    <3>1. request.validators \in FileSpecs \cup CollectionSpecs \cup {<<>>}
      BY <2>1, <2>3 DEF ValidatorsFor
    <3> QED
      BY <3>1, ListFacts
  <2> QED
    BY <2>2, <2>3
<1> QED
  BY <1>2, <1>3, <1>5, <1>6

(* What the validators can answer, and what becomes of it. *)
LEMMA FileCheckCodes ==
  ASSUME NEW s, NEW f, NEW from
  PROVE  FileCheck(s, f, from) \in {0, 200, 400, 413, 415, 500}
BY DEF FileCheck, MaxFileSize, MinFileSize, AllowedFileExtensions, DisallowedFileExtensions,
       AllowedMimetypes, DisallowedMimetypes, ScanForSuspiciousContent, Raised

LEMMA CollectionCheckCodes ==
  ASSUME NEW s, NEW fs
  PROVE  CollectionCheck(s, fs) \in {0, 200, 400, 422}
BY DEF CollectionCheck, Raised

CheckCodes == {0, 200, 400, 413, 415, 422, 500}

LEMMA ErrorCodes ==
  ASSUME NEW code \in CheckCodes
  PROVE  /\ code # 200 => ErrorOf(code) \in Codes \ {200}
         /\ ErrorOf(code) = 500 <=> code \in {Raised, 500}
BY DEF ErrorOf, Raised, Codes, CheckCodes

(* Only a text scan moves the stream, or minds where it stands. *)
LEMMA PlaceAfterScanning ==
  ASSUME NEW s, NEW f, IsFile(f), NEW from \in 0 .. Len(f.body)
  PROVE  /\ PlaceAfter(s, f, from) \in 0 .. Len(f.body)
         /\ s.name # "ScanForSuspiciousContent" => PlaceAfter(s, f, from) = from
<1>1. Len(f.body) \in Nat
  BY DEF IsFile
<1>2. ASSUME Alarms(s, f, from) # {}
      PROVE  Min(Alarms(s, f, from)) \in 0 .. Len(f.body)
  <2>1. Alarms(s, f, from) \in SUBSET Nat
    BY <1>1 DEF Alarms
  <2>2. Min(Alarms(s, f, from)) \in Alarms(s, f, from)
    BY <1>2, <2>1, MinOfNats
  <2> QED
    BY <1>1, <2>2 DEF Alarms
<1>3. PlaceAfterScan(s, f, from) \in 0 .. Len(f.body)
  BY <1>1, <1>2 DEF PlaceAfterScan
<1> QED
  BY <1>3 DEF PlaceAfter

LEMMA PlaceMatters ==
  ASSUME NEW s, NEW f, NEW a, NEW b, s.name # "ScanForSuspiciousContent"
  PROVE  FileCheck(s, f, a) = FileCheck(s, f, b)
BY DEF FileCheck

(* A list of errors becomes one status, which is an error too: 500 if any is.*)
LEMMA StatusFacts ==
  ASSUME NEW codes \in Seq(Codes \ {200}), codes # <<>>
  PROVE  /\ StatusCodeForResponse(codes) \in Codes \ {200}
         /\ StatusCodeForResponse(codes) = 500 <=> 500 \in ToSet(codes)
<1>1. /\ Len(codes) \in Nat \ {0} /\ DOMAIN codes = 1 .. Len(codes)
      /\ \A k \in DOMAIN codes : codes[k] \in Codes \ {200}
      /\ codes[1] \in ToSet(codes)
  BY DEF ToSet
<1>2. ToSet(codes) \in SUBSET Codes
  BY <1>1 DEF ToSet
<1>3. IsFiniteSet(Codes)
  <2>1. PICK m \in Nat : m = 500
    OBVIOUS
  <2>2. Codes \in SUBSET (1 .. m)
    BY <2>1 DEF Codes
  <2>3. IsFiniteSet(1 .. m)
    BY FS_Interval
  <2> QED
    BY <2>2, <2>3, FS_Subset
<1>4. IsFiniteSet(ToSet(codes))
  BY <1>2, <1>3, FS_Subset
<1>5. Cardinality(ToSet(codes)) \in Nat /\ Cardinality(ToSet(codes)) # 0
  BY <1>1, <1>4, FS_CardinalityType, FS_EmptySet
<1>6. CASE Cardinality(ToSet(codes)) = 1
  <2>1. ToSet(codes) = {codes[1]}
    BY <1>1, <1>4, <1>6, FS_Singleton
  <2>2. StatusCodeForResponse(codes) = codes[1]
    BY <1>6 DEF StatusCodeForResponse
  <2> QED
    BY <1>1, <2>1, <2>2
<1>7. CASE Cardinality(ToSet(codes)) > 1 /\ 500 \in ToSet(codes)
  <2>1. StatusCodeForResponse(codes) = 500
    BY <1>7 DEF StatusCodeForResponse
  <2> QED
    BY <1>7, <2>1 DEF Codes
<1>8. CASE Cardinality(ToSet(codes)) > 1 /\ 500 \notin ToSet(codes)
  <2>1. StatusCodeForResponse(codes) = 422
    BY <1>8 DEF StatusCodeForResponse
  <2> QED
    BY <1>8, <2>1 DEF Codes
<1>9. Cardinality(ToSet(codes)) = 1 \/ Cardinality(ToSet(codes)) > 1
  BY <1>5
<1> QED
  BY <1>6, <1>7, <1>8, <1>9

(* A failure after which the next validator is not run. *)
Stops(i, k) == CodeOf(i, k) # 200 /\ request.validators[k].name \notin ContinuesOnFail

LEMMA LastRunFacts ==
  ASSUME RequestOK, NEW i
  PROVE  /\ LastRun(i) \in 0 .. Len(request.validators)
         /\ Len(request.validators) > 0 => LastRun(i) > 0
         /\ \A k \in 1 .. Len(request.validators) : Stops(i, k) => LastRun(i) <= k
         /\ LastRun(i) < Len(request.validators) => Stops(i, LastRun(i))
<1> DEFINE n == Len(request.validators)
           stops == {k \in DOMAIN request.validators :
                       CodeOf(i, k) # 200 /\ request.validators[k].name \notin ContinuesOnFail}
<1>1. n \in Nat /\ DOMAIN request.validators = 1 .. n
  BY RequestFacts
<1>2. LastRun(i) = IF stops = {} THEN n ELSE Min(stops)
  BY DEF LastRun
<1>3. \A k \in 1 .. n : Stops(i, k) <=> k \in stops
  BY <1>1 DEF Stops
<1>4. stops \in SUBSET (1 .. n)
  BY <1>1
<1> HIDE DEF stops, n
<1>5. CASE stops = {}
  BY <1>1, <1>2, <1>3, <1>5 DEF n
<1>6. CASE stops # {}
  <2>1. stops \in SUBSET Nat
    BY <1>1, <1>4
  <2>2. Min(stops) \in stops /\ \A k \in stops : Min(stops) <= k
    BY <1>6, <2>1, MinOfNats
  <2>3. LastRun(i) = Min(stops)
    BY <1>2, <1>6
  <2>4. LastRun(i) \in 1 .. n /\ Stops(i, LastRun(i))
    BY <1>3, <1>4, <2>2, <2>3
  <2>5. \A k \in 1 .. n : Stops(i, k) => LastRun(i) <= k
    BY <1>3, <2>2, <2>3
  <2> QED
    BY <1>1, <2>4, <2>5 DEF n
<1> QED
  BY <1>5, <1>6

------------------------------------------------------------------------------
(* PipelineInv is an invariant.                                              *)

LEMMA PipelineInit == Init => PipelineInv
<1> SUFFICES ASSUME Init PROVE PipelineInv
  OBVIOUS
<1>1. PICK endpoint \in Endpoints, hasLength \in BOOLEAN, n \in 1 .. MaxFiles :
        \E files \in [1 .. n -> Files], collection \in CollectionSpecs :
          /\ endpoint = "bulk_upload" \/ (n = 1 /\ collection = <<>>)
          /\ endpoint = "scan_for_suspicious_content" => files[1].named
          /\ \E list \in ValidatorsFor(endpoint, files[1]) :
               request = [endpoint |-> endpoint, hasLength |-> hasLength, files |-> files,
                          validators |-> list, collection |-> collection]
  BY DEF Init
<1>2. PICK files \in [1 .. n -> Files], collection \in CollectionSpecs :
        /\ endpoint = "bulk_upload" \/ (n = 1 /\ collection = <<>>)
        /\ endpoint = "scan_for_suspicious_content" => files[1].named
        /\ \E list \in ValidatorsFor(endpoint, files[1]) :
             request = [endpoint |-> endpoint, hasLength |-> hasLength, files |-> files,
                        validators |-> list, collection |-> collection]
  BY <1>1
<1>3. PICK list \in ValidatorsFor(endpoint, files[1]) :
        request = [endpoint |-> endpoint, hasLength |-> hasLength, files |-> files,
                   validators |-> list, collection |-> collection]
  BY <1>2
<1>4. n \in Nat \ {0}
  BY <1>1, MaxFilesAssumption
<1>5. files \in Seq(Files) /\ files # <<>> /\ Len(files) = n
  BY <1>4, FunctionIsSeq
<1>6. RequestOK
  <2>1. endpoint # "bulk_upload" => Len(files) = 1 /\ collection = <<>>
    BY <1>2, <1>5
  <2> QED
    BY <1>2, <1>3, <1>5, <2>1 DEF RequestOK
<1>7. DOMAIN request.files = 1 .. Len(request.files) /\ Len(request.files) \in Nat \ {0}
      /\ IsFile(request.files[1])
  BY <1>6, RequestFacts
<1>8. /\ pc = FirstStep(request.endpoint)
      /\ at = 1 /\ next = 1 /\ place = 0 /\ errors = <<>>
      /\ approved = [i \in DOMAIN request.files |-> None]
      /\ checksum = [i \in DOMAIN request.files |-> None]
      /\ outcome = [i \in DOMAIN request.files |-> 0]
      /\ reported = [i \in DOMAIN request.files |-> <<>>]
      /\ saved = [i \in DOMAIN request.files |-> None]
  BY DEF Init
<1>9. Len(This.body) \in Nat
  BY <1>7, <1>8 DEF This, IsFile
<1>10. pc \in {"collection", "headers", "scan"}
  BY <1>8 DEF FirstStep
<1>11. TypeOK
  BY <1>7, <1>8, <1>9, <1>10 DEF TypeOK
<1>12. Ahead
  BY <1>8 DEF Ahead
<1>13. StageOK
  BY <1>8 DEF StageOK, FirstStep
<1>14. ScannedFirst
  BY <1>8, <1>10 DEF ScannedFirst
<1> QED
  BY <1>6, <1>11, <1>12, <1>13, <1>14 DEF PipelineInv

(* What a step learns of the contents, and it can only be of the file at hand. *)
LearnsOf(record) == /\ record' \in [DOMAIN request.files -> {None} \cup Seq(Lines)]
                    /\ \A i \in DOMAIN request.files : i # at => record'[i] = record[i]

Learns == LearnsOf(approved) /\ LearnsOf(checksum) /\ LearnsOf(saved)

(* A step that does not settle the file, and stays with it.                  *)
LEMMA StayStep ==
  ASSUME PipelineInv, request' = request, at' = at, pc # "done", pc' # "done",
         UNCHANGED <<outcome, reported, saved>>, Learns,
         pc' \in {"collection", "headers"} => approved'[at] = None,
         TypeOK', StageOK'
  PROVE  PipelineInv'
<1>1. at \in DOMAIN request.files /\ DOMAIN request.files \subseteq Nat
  BY RequestFacts DEF PipelineInv, TypeOK
<1>2. RequestOK'
  BY DEF PipelineInv, RequestOK
<1>3. Ahead'
  BY <1>1 DEF PipelineInv, Ahead, Learns, LearnsOf
<1>4. ScannedFirst'
  <2>1. pc' \in {"configured", "checksum", "save"} => approved'[at] = This'.body
    BY DEF StageOK, PassedMandatory, Clean, This
  <2>2. ASSUME NEW i \in DOMAIN request.files, saved[i] # None
        PROVE  /\ saved[i] = request.files[i].body
               /\ saved[i] = approved'[i]
               /\ saved[i] = checksum'[i]
    <3>1. i # at
      BY <1>1, <2>2 DEF PipelineInv, Ahead
    <3> QED
      BY <2>2, <3>1 DEF PipelineInv, ScannedFirst, Learns, LearnsOf
  <2> QED
    BY <2>1, <2>2 DEF ScannedFirst
<1> QED
  BY <1>2, <1>3, <1>4 DEF PipelineInv

(* A step that settles it. *)
LEMMA SettleStep ==
  ASSUME PipelineInv, request' = request, pc # "done", Learns,
         NEW code \in Codes, NEW codes \in Seq(Codes \ {200}), Settle(code, codes),
         saved'[at] # None => /\ saved'[at] = This.body
                              /\ saved'[at] = approved'[at]
                              /\ saved'[at] = checksum'[at]
  PROVE  PipelineInv'
<1>1. /\ at \in 1 .. Len(request.files)
      /\ DOMAIN request.files = 1 .. Len(request.files) /\ Len(request.files) \in Nat
      /\ \A i \in DOMAIN request.files : Len(request.files[i].body) \in Nat
  BY RequestFacts DEF PipelineInv, TypeOK, IsFile
<1>2. RequestOK'
  BY DEF PipelineInv, RequestOK
<1>3. outcome' = [outcome EXCEPT ![at] = code] /\ reported' = [reported EXCEPT ![at] = codes]
  BY DEF Settle
<1>4. /\ outcome' \in [DOMAIN request.files -> Codes \cup {0}]
      /\ reported' \in [DOMAIN request.files -> Seq(Codes \ {200})]
  BY <1>3 DEF PipelineInv, TypeOK
<1>5. \A i \in DOMAIN request.files : saved'[i] # None =>
        /\ saved'[i] = request.files[i].body
        /\ saved'[i] = approved'[i]
        /\ saved'[i] = checksum'[i]
  BY DEF PipelineInv, ScannedFirst, Learns, LearnsOf, This
<1>6. CASE at < Len(request.files)
  <2>1. /\ at' = at + 1 /\ place' = 0
        /\ pc' = "headers" /\ next' = 1 /\ errors' = <<>>
    BY <1>6 DEF Settle, Start, Fresh
  <2>2. at + 1 \in DOMAIN request.files
    BY <1>1, <1>6
  <2>3. 0 \in 0 .. Len(This'.body)
    BY <1>1, <2>1, <2>2 DEF This
  <2>4. TypeOK'
    BY <1>4, <2>1, <2>2, <2>3 DEF TypeOK, Learns, LearnsOf
  <2>5. ASSUME NEW i \in DOMAIN request.files, i >= at + 1
        PROVE  outcome'[i] = 0 /\ saved'[i] = None /\ approved'[i] = None
    <3>1. i # at /\ i > at
      BY <1>1, <2>5
    <3> QED
      BY <1>1, <1>3, <3>1 DEF PipelineInv, Ahead, TypeOK, Learns, LearnsOf
  <2>6. Ahead'
    BY <1>1, <2>1, <2>5 DEF Ahead
  <2>7. request.endpoint # "scan_for_suspicious_content"
    BY <1>1, <1>6 DEF PipelineInv, RequestOK
  <2>8. StageOK'
    BY <2>1, <2>7 DEF StageOK
  <2> QED
    BY <1>2, <1>5, <2>1, <2>4, <2>6, <2>8 DEF PipelineInv, ScannedFirst
<1>7. CASE ~(at < Len(request.files))
  <2>1. pc' = "done" /\ UNCHANGED <<at, place, next, errors>>
    BY <1>7 DEF Settle
  <2>2. TypeOK'
    BY <1>4, <2>1 DEF PipelineInv, TypeOK, Learns, LearnsOf, This
  <2> QED
    BY <1>2, <1>5, <2>1, <2>2 DEF PipelineInv, Ahead, StageOK, ScannedFirst
<1> QED
  BY <1>6, <1>7

LEMMA LearnsNothing ==
  ASSUME TypeOK, UNCHANGED <<approved, checksum, saved>>
  PROVE  Learns
BY DEF TypeOK, Learns, LearnsOf

(* One turn of a list, and its end. *)
LEMMA TurnTypes ==
  ASSUME TypeOK, NEW list, Len(list) \in Nat, NEW code \in CheckCodes
  PROVE  /\ ErrorsAfter(code) \in Seq(Codes \ {200})
         /\ next <= Len(list) => NextAfter(list, code) \in Nat \ {0}
<1>1. code # 200 => ErrorOf(code) \in Codes \ {200}
  BY ErrorCodes
<1>2. errors \in Seq(Codes \ {200}) /\ next \in Nat \ {0}
  BY DEF TypeOK
<1>3. ErrorsAfter(code) \in Seq(Codes \ {200})
  BY <1>1, <1>2 DEF ErrorsAfter
<1> QED
  BY <1>2, <1>3 DEF NextAfter

LEMMA CollectionPipeline == PipelineInv /\ CollectionStep => PipelineInv'
<1> SUFFICES ASSUME PipelineInv, CollectionStep PROVE PipelineInv'
  OBVIOUS
<1> USE DEF PipelineInv
<1>1. /\ pc = "collection" /\ place = 0 /\ request.endpoint = "bulk_upload" /\ at = 1
      /\ UNCHANGED <<request, approved, checksum, saved>>
  BY DEF CollectionStep, StageOK
<1>2. Learns
  BY <1>1, LearnsNothing
<1>3. ASSUME NEW code \in Codes \ {200}, Reject(code)
      PROVE  PipelineInv'
  <2>1. outcome' \in [DOMAIN request.files -> Codes \cup {0}]
    BY <1>3 DEF Reject
  <2>2. TypeOK'
    BY <1>1, <1>3, <2>1 DEF Reject, TypeOK, This
  <2>3. RequestOK' /\ Ahead' /\ StageOK'
    BY <1>1, <1>3 DEF Reject, RequestOK, Ahead, StageOK
  <2>4. ScannedFirst'
    BY <1>1, <1>3 DEF Reject, ScannedFirst
  <2> QED
    BY <2>2, <2>3, <2>4
<1>4. CASE /\ next <= Len(request.collection)
           /\ LET code == CollectionCheck(request.collection[next], request.files) IN
                errors' = ErrorsAfter(code) /\ next' = NextAfter(request.collection, code)
           /\ UNCHANGED <<pc, at, place, outcome, reported>>
  <2>1. PICK code : /\ code = CollectionCheck(request.collection[next], request.files)
                    /\ errors' = ErrorsAfter(code) /\ next' = NextAfter(request.collection, code)
    BY <1>4
  <2>2. code \in CheckCodes
    BY <2>1, CollectionCheckCodes DEF CheckCodes
  <2>3. errors' \in Seq(Codes \ {200}) /\ next' \in Nat \ {0}
    <3>1. PICK list : list = request.collection /\ Len(list) \in Nat
      BY RequestFacts
    <3>2. /\ ErrorsAfter(code) \in Seq(Codes \ {200})
          /\ next <= Len(list) => NextAfter(list, code) \in Nat \ {0}
      BY <2>2, <3>1, TurnTypes
    <3> QED
      BY <1>4, <2>1, <3>1, <3>2
  <2>4. TypeOK'
    BY <1>1, <1>4, <2>3 DEF TypeOK, This
  <2>5. StageOK'
    BY <1>1, <1>4 DEF StageOK
  <2>6. approved'[at] = None
    BY <1>1 DEF Ahead, TypeOK
  <2> QED
    BY <1>1, <1>2, <1>4, <2>4, <2>5, <2>6, StayStep
<1>5. CASE Reject(500)
  <2>1. 500 \in Codes \ {200}
    BY DEF Codes
  <2> QED
    BY <1>3, <1>5, <2>1
<1>6. CASE errors # <<>> /\ Reject(StatusCodeForResponse(errors))
  <2>1. StatusCodeForResponse(errors) \in Codes \ {200}
    BY <1>6, StatusFacts DEF TypeOK
  <2> QED
    BY <1>3, <1>6, <2>1
<1>7. CASE Start("headers") /\ UNCHANGED <<at, place, outcome, reported>>
  <2>1. pc' = "headers" /\ next' = 1 /\ errors' = <<>>
    BY <1>7 DEF Start, Fresh
  <2>2. TypeOK'
    BY <1>1, <1>7, <2>1 DEF TypeOK, This
  <2>3. StageOK'
    BY <1>1, <1>7, <2>1 DEF StageOK
  <2>4. approved'[at] = None
    BY <1>1 DEF Ahead, TypeOK
  <2> QED
    BY <1>1, <1>2, <1>7, <2>1, <2>2, <2>3, <2>4, StayStep
<1> QED
  BY <1>4, <1>5, <1>6, <1>7 DEF CollectionStep

LEMMA HeadersPipeline == PipelineInv /\ CheckHeaders => PipelineInv'
<1> SUFFICES ASSUME PipelineInv, CheckHeaders PROVE PipelineInv'
  OBVIOUS
<1> USE DEF PipelineInv
<1>1. /\ pc = "headers" /\ place = 0 /\ request.endpoint # "scan_for_suspicious_content"
      /\ UNCHANGED <<request, approved, checksum, saved>>
      /\ at \in DOMAIN request.files
  BY DEF CheckHeaders, StageOK, TypeOK
<1>2. Learns
  BY <1>1, LearnsNothing
<1>3. at \in Nat /\ approved[at] = None /\ saved[at] = None
  BY <1>1, RequestFacts DEF Ahead
<1>4. CASE request.hasLength
  <2>1. /\ pc' = "mandatory" /\ next' = 1 /\ errors' = <<>>
        /\ UNCHANGED <<at, place, outcome, reported>>
    BY <1>4 DEF CheckHeaders, Start, Fresh
  <2>2. TypeOK'
    BY <1>1, <2>1 DEF TypeOK, This
  <2>3. next' \in 1 .. Len(Selected') /\ PassedUpTo(next)'
    BY <1>1, <1>3, <2>1, SelectedFacts DEF PassedUpTo, Selected
  <2>4. StageOK'
    BY <1>1, <1>4, <2>1, <2>3 DEF StageOK
  <2> QED
    BY <1>1, <1>2, <2>1, <2>2, <2>4, StayStep
<1>5. CASE ~request.hasLength
  <2>1. Settle(411, <<411>>)
    BY <1>5 DEF CheckHeaders
  <2>2. 411 \in Codes /\ <<411>> \in Seq(Codes \ {200})
    BY DEF Codes
  <2> QED
    BY <1>1, <1>2, <1>3, <2>1, <2>2, SettleStep
<1> QED
  BY <1>4, <1>5

(* The mandatory validator at next has passed. *)
LEMMA NextMandatoryStep ==
  ASSUME PipelineInv, pc = "mandatory", NextMandatory, request' = request, place' = 0, Learns,
         UNCHANGED <<checksum, saved>>, NEW n, n = next + 1, PassedUpTo(n)'
  PROVE  PipelineInv'
<1> USE DEF PipelineInv
<1>1. /\ UNCHANGED <<at, outcome, reported>>
      /\ next \in 1 .. Len(Selected) /\ Len(Selected) \in Nat /\ Selected' = Selected
      /\ request.hasLength /\ request.endpoint # "scan_for_suspicious_content"
  BY SelectedFacts DEF NextMandatory, StageOK, Selected
<1>2. 0 \in 0 .. Len(This.body) /\ Len(This.body) \in Nat
  BY RequestFacts DEF TypeOK, This, IsFile
<1>3. CASE next < Len(Selected)
  <2>1. next' = next + 1 /\ UNCHANGED <<pc, errors>>
    BY <1>3 DEF NextMandatory
  <2>2. TypeOK'
    BY <1>1, <1>2, <2>1 DEF TypeOK, This, Learns, LearnsOf
  <2>3. PassedUpTo(next)'
    BY <1>1, <2>1 DEF PassedUpTo, Clean, This
  <2>4. StageOK'
    BY <1>1, <1>3, <2>1, <2>3 DEF StageOK
  <2> QED
    BY <1>1, <2>1, <2>2, <2>4, StayStep
<1>4. CASE ~(next < Len(Selected))
  <2>1. /\ pc' = IF request.endpoint = "virus_check_file" THEN "clean" ELSE "configured"
        /\ next' = 1 /\ errors' = <<>>
    BY <1>4 DEF NextMandatory, Start, Fresh
  <2>2. TypeOK'
    BY <1>1, <1>2, <2>1 DEF TypeOK, This, Learns, LearnsOf
  <2>3. next = Len(Selected)
    BY <1>1, <1>4
  <2>4. This.named /\ Clean(at)' /\ \A k \in 3 .. Len(Selected) : Selected[k] \notin This.faults
    <3>1. Len(Selected) >= 2 /\ n > 2 /\ n - 1 = Len(Selected)
      BY <1>1, <2>3, SelectedFacts
    <3> QED
      BY <1>1, <3>1 DEF PassedUpTo, This
  <2>5. request.endpoint # "virus_check_file" => This.faults = {}
    <3>1. This.faults \subseteq FilenameValidators
      BY RequestFacts DEF TypeOK, This, IsFile
    <3> QED
      BY <2>4, <3>1, SelectedFacts
  <2>6. request.endpoint # "virus_check_file" => request.endpoint \in Uploads
    BY <1>1 DEF RequestOK, Endpoints
  <2>7. PassedMandatory(at)'
    BY <1>1, <2>4, <2>5 DEF PassedMandatory, This, Uploads
  <2>8. StageOK'
    BY <1>1, <2>1, <2>6, <2>7 DEF StageOK
  <2>9. pc' \notin {"done", "collection", "headers"}
    BY <2>1
  <2> QED
    BY <1>1, <2>2, <2>8, <2>9, StayStep
<1> QED
  BY <1>3, <1>4

(* A stream that stands at its start is read in full. *)
LEMMA WholeBody ==
  ASSUME NEW b \in Seq(Lines)
  PROVE  SubSeq(b, 0 + 1, Len(b)) = b
OBVIOUS

LEMMA RestFacts ==
  ASSUME RequestOK, TypeOK
  PROVE  /\ Rest \in Seq(Lines) /\ This.body \in Seq(Lines) /\ Len(This.body) \in Nat
         /\ place = 0 => Rest = This.body
<1>1. This.body \in Seq(Lines) /\ Len(This.body) \in Nat
  BY RequestFacts DEF TypeOK, This, IsFile
<1>2. place \in 0 .. Len(This.body)
  BY DEF TypeOK
<1>3. Rest \in Seq(Lines)
  <2>1. ASSUME NEW b \in Seq(Lines), NEW m \in 0 .. Len(b)
        PROVE  SubSeq(b, m + 1, Len(b)) \in Seq(Lines)
    OBVIOUS
  <2> QED
    BY <1>1, <1>2, <2>1 DEF Rest
<1>4. place = 0 => Rest = This.body
  BY <1>1, WholeBody DEF Rest
<1> QED
  BY <1>1, <1>3, <1>4

LEMMA MandatoryPipeline == PipelineInv /\ RunMandatory => PipelineInv'
<1> SUFFICES ASSUME PipelineInv, RunMandatory PROVE PipelineInv'
  OBVIOUS
<1> USE DEF PipelineInv
<1>1. /\ pc = "mandatory" /\ Selected[next] # "NoVirusFoundInFile"
      /\ UNCHANGED <<request, approved, checksum, saved>>
      /\ next \in 1 .. Len(Selected) /\ PassedUpTo(next) /\ place = 0
      /\ at \in DOMAIN request.files /\ at \in Nat
  BY RequestFacts DEF RunMandatory, StageOK, TypeOK
<1>2. Learns
  BY <1>1, LearnsNothing
<1>3. next \in Nat /\ next # 2 /\ next >= 1 /\ Len(Selected) \in Nat
  BY <1>1, SelectedFacts
<1>4. PICK code : /\ code = MandatoryCheck(Selected[next], This)
                  /\ IF code = 200 THEN NextMandatory /\ UNCHANGED place ELSE Settle(code, <<code>>)
  BY DEF RunMandatory
<1>5. CASE code = 200
  <2>1. NextMandatory /\ place' = 0
    BY <1>1, <1>4, <1>5
  <2>2. PICK n : n = next + 1
    OBVIOUS
  <2>3. ~((Selected[next] = "HaveFile" /\ ~This.named) \/ Selected[next] \in This.faults)
    BY <1>4, <1>5 DEF MandatoryCheck
  <2>4. UNCHANGED <<This, Selected>>
    BY <1>1, <2>1 DEF NextMandatory, This, Selected
  <2>5. This.named
    <3>1. CASE next = 1
      BY <2>3, <3>1, SelectedFacts
    <3>2. CASE next # 1
      BY <1>1, <1>3, <3>2 DEF PassedUpTo
    <3> QED
      BY <3>1, <3>2
  <2>6. n <= 2 => approved[at] = None
    BY <1>1, <1>3, <2>2 DEF PassedUpTo
  <2>7. n > 2 => Clean(at)
    <3>1. n > 2 => next > 2
      BY <1>3, <2>2
    <3> QED
      BY <1>1, <3>1 DEF PassedUpTo
  <2>8. \A k \in 3 .. n - 1 : Selected[k] \notin This.faults
    <3>1. \A k \in 3 .. n - 1 : k = next \/ k \in 3 .. next - 1
      BY <1>3, <2>2
    <3> QED
      BY <1>1, <2>3, <3>1 DEF PassedUpTo
  <2>9. PassedUpTo(n)'
    <3>1. UNCHANGED <<at, approved, request>>
      BY <1>1, <2>1 DEF NextMandatory
    <3>2. Clean(at) => Clean(at)'
      BY <3>1 DEF Clean
    <3> QED
      BY <2>4, <2>5, <2>6, <2>7, <2>8, <3>1, <3>2 DEF PassedUpTo
  <2> QED
    BY <1>1, <1>2, <2>1, <2>2, <2>9, NextMandatoryStep
<1>6. CASE code # 200
  <2>1. code = 400
    BY <1>4, <1>6 DEF MandatoryCheck
  <2>2. Settle(code, <<code>>) /\ code \in Codes /\ <<code>> \in Seq(Codes \ {200})
    BY <1>4, <1>6, <2>1 DEF Codes
  <2>3. saved'[at] = None
    BY <1>1 DEF Ahead
  <2> QED
    BY <1>1, <1>2, <2>2, <2>3, SettleStep
<1> QED
  BY <1>5, <1>6

LEMMA ScanPipeline == PipelineInv /\ ScanForVirus => PipelineInv'
<1> SUFFICES ASSUME PipelineInv, ScanForVirus PROVE PipelineInv'
  OBVIOUS
<1> USE DEF PipelineInv
<1>1. /\ pc = "mandatory" /\ Selected[next] = "NoVirusFoundInFile"
      /\ UNCHANGED <<request, checksum, saved>>
      /\ next \in 1 .. Len(Selected) /\ PassedUpTo(next) /\ place = 0
      /\ at \in DOMAIN request.files /\ at \in Nat
      /\ saved[at] = None
  BY RequestFacts DEF ScanForVirus, StageOK, TypeOK, Ahead
<1>2. next = 2
  <2>1. ~(next = 1)
    BY <1>1, SelectedFacts
  <2>2. "NoVirusFoundInFile" \notin FilenameValidators
    BY DEF FilenameValidators
  <2>3. ~(next \in 3 .. Len(Selected))
    BY <1>1, <2>2, SelectedFacts
  <2> QED
    BY <1>1, <2>1, <2>3, SelectedFacts
<1>3. Rest = This.body /\ Rest \in Seq(Lines)
  BY <1>1, RestFacts
<1>4. PICK code \in ScanVerdicts(Rest) :
        \/ /\ PassesScan(code)
           /\ NextMandatory
           /\ place' = PlaceAfterVirusCheck
           /\ approved' = [approved EXCEPT ![at] = IF code = 200 THEN Rest ELSE None]
        \/ /\ ~PassesScan(code)
           /\ Settle(ErrorOf(code), <<ErrorOf(code)>>)
           /\ UNCHANGED approved
  BY DEF ScanForVirus
<1>5. CASE /\ PassesScan(code)
           /\ NextMandatory
           /\ place' = PlaceAfterVirusCheck
           /\ approved' = [approved EXCEPT ![at] = IF code = 200 THEN Rest ELSE None]
  <2>1. code = 200 /\ place' = 0 /\ approved' = [approved EXCEPT ![at] = Rest]
    BY <1>5 DEF PassesScan, PlaceAfterVirusCheck
  <2>2. ~(\E i \in DOMAIN Rest : Rest[i] = "virus")
    BY <1>4, <2>1 DEF ScanVerdicts, Raised
  <2>3. approved'[at] = Rest
    BY <1>1, <2>1 DEF TypeOK
  <2>4. LearnsOf(approved)
    BY <1>1, <1>3, <2>1 DEF TypeOK, LearnsOf
  <2>5. Learns
    BY <1>1, <2>4 DEF TypeOK, Learns, LearnsOf
  <2>6. at' = at /\ This' = This /\ UNCHANGED <<Selected>>
    BY <1>1, <1>5 DEF NextMandatory, This, Selected
  <2>7. PICK n : n = next + 1
    OBVIOUS
  <2>8. PassedUpTo(n)'
    <3>1. Clean(at)'
      BY <1>1, <1>3, <2>2, <2>3, <2>6 DEF Clean, This
    <3>2. This.named
      BY <1>1, <1>2 DEF PassedUpTo
    <3>3. n = 3
      BY <1>2, <2>7
    <3> QED
      BY <2>6, <3>1, <3>2, <3>3 DEF PassedUpTo
  <2> QED
    BY <1>1, <1>5, <2>1, <2>5, <2>7, <2>8, NextMandatoryStep
<1>6. CASE /\ ~PassesScan(code)
           /\ Settle(ErrorOf(code), <<ErrorOf(code)>>)
           /\ UNCHANGED approved
  <2>1. Learns
    BY <1>1, <1>6, LearnsNothing
  <2>2. ErrorOf(code) \in Codes \ {200}
    BY <1>4, <1>6 DEF ScanVerdicts, PassesScan, ErrorOf, Raised, Codes
  <2>3. ErrorOf(code) \in Codes /\ <<ErrorOf(code)>> \in Seq(Codes \ {200})
    BY <2>2
  <2> QED
    BY <1>1, <1>6, <2>1, <2>3, SettleStep
<1> QED
  BY <1>4, <1>5, <1>6

LEMMA ConfiguredPipeline == PipelineInv /\ ConfiguredStep => PipelineInv'
<1> SUFFICES ASSUME PipelineInv, ConfiguredStep PROVE PipelineInv'
  OBVIOUS
<1> USE DEF PipelineInv
<1>1. /\ pc = "configured" /\ request.endpoint \in Uploads /\ PassedMandatory(at)
      /\ UNCHANGED <<request, approved, checksum, saved>>
  BY DEF ConfiguredStep, StageOK
<1>2. at \in DOMAIN request.files /\ at \in Nat /\ saved[at] = None
  BY <1>1, RequestFacts DEF TypeOK, Ahead
<1>3. Learns
  BY <1>1, <1>2, LearnsNothing
<1>4. IsFile(This) /\ place \in 0 .. Len(This.body)
  BY <1>1, <1>2, RequestFacts DEF This, TypeOK
<1>5. CASE /\ next <= Len(request.validators)
           /\ LET code == FileCheck(request.validators[next], This, place) IN
                errors' = ErrorsAfter(code) /\ next' = NextAfter(request.validators, code)
           /\ place' = PlaceAfter(request.validators[next], This, place)
           /\ UNCHANGED <<pc, at, outcome, reported>>
  <2>1. PICK code : /\ code = FileCheck(request.validators[next], This, place)
                    /\ errors' = ErrorsAfter(code) /\ next' = NextAfter(request.validators, code)
    BY <1>5
  <2>2. code \in CheckCodes
    BY <2>1, FileCheckCodes DEF CheckCodes
  <2>3. errors' \in Seq(Codes \ {200}) /\ next' \in Nat \ {0}
    <3>1. PICK list : list = request.validators /\ Len(list) \in Nat
      BY RequestFacts
    <3>2. /\ ErrorsAfter(code) \in Seq(Codes \ {200})
          /\ next <= Len(list) => NextAfter(list, code) \in Nat \ {0}
      BY <2>2, <3>1, TurnTypes
    <3> QED
      BY <1>5, <2>1, <3>1, <3>2
  <2>4. place' \in 0 .. Len(This.body)
    BY <1>4, <1>5, PlaceAfterScanning
  <2>5. This' = This
    BY <1>1, <1>2, <1>5 DEF This
  <2>6. TypeOK'
    BY <1>1, <1>2, <1>5, <2>3, <2>4, <2>5 DEF TypeOK
  <2>7. StageOK'
    BY <1>1, <1>2, <1>5 DEF StageOK, PassedMandatory, Clean
  <2> QED
    BY <1>1, <1>2, <1>3, <1>5, <2>6, <2>7, StayStep
<1>6. CASE Settle(500, <<500>>)
  <2>1. 500 \in Codes /\ <<500>> \in Seq(Codes \ {200})
    BY DEF Codes
  <2> QED
    BY <1>1, <1>2, <1>3, <1>6, <2>1, SettleStep
<1>7. CASE errors # <<>> /\ Settle(StatusCodeForResponse(errors), errors)
  <2>1. StatusCodeForResponse(errors) \in Codes /\ errors \in Seq(Codes \ {200})
    BY <1>7, StatusFacts DEF TypeOK
  <2> QED
    BY <1>1, <1>2, <1>3, <1>7, <2>1, SettleStep
<1>8. CASE Start("checksum") /\ UNCHANGED <<at, place, outcome, reported>>
  <2>1. pc' = "checksum" /\ next' = 1 /\ errors' = <<>>
    BY <1>8 DEF Start, Fresh
  <2>2. TypeOK'
    BY <1>1, <1>2, <1>8, <2>1 DEF TypeOK, This
  <2>3. StageOK'
    BY <1>1, <1>2, <1>8, <2>1 DEF StageOK, PassedMandatory, Clean
  <2> QED
    BY <1>1, <1>2, <1>3, <1>8, <2>1, <2>2, <2>3, StayStep
<1> QED
  BY <1>5, <1>6, <1>7, <1>8 DEF ConfiguredStep

LEMMA ChecksumPipeline == PipelineInv /\ GetFileChecksum => PipelineInv'
<1> SUFFICES ASSUME PipelineInv, GetFileChecksum PROVE PipelineInv'
  OBVIOUS
<1> USE DEF PipelineInv
<1>1. /\ pc = "checksum" /\ request.endpoint \in Uploads /\ PassedMandatory(at)
      /\ pc' = "save" /\ place' = 0
      /\ UNCHANGED <<request, at, next, errors, approved, outcome, reported, saved>>
      /\ at \in DOMAIN request.files
  BY DEF GetFileChecksum, PlaceAfterDigest, StageOK, TypeOK
<1>2. This' = This /\ This.body \in Seq(Lines) /\ Len(This.body) \in Nat
  BY <1>1, RestFacts DEF This
<1>3. checksum' = [checksum EXCEPT ![at] = This.body]
  BY <1>2, WholeBody DEF GetFileChecksum, PlaceOfDigest
<1>4. LearnsOf(checksum) /\ checksum'[at] = This.body
  BY <1>1, <1>2, <1>3 DEF TypeOK, LearnsOf
<1>5. Learns
  BY <1>1, <1>4 DEF TypeOK, Learns, LearnsOf
<1>6. TypeOK'
  BY <1>1, <1>2, <1>4 DEF TypeOK, LearnsOf
<1>7. StageOK'
  BY <1>1, <1>2, <1>4 DEF StageOK, PassedMandatory, Clean
<1> QED
  BY <1>1, <1>5, <1>6, <1>7, StayStep

LEMMA SavePipeline == PipelineInv /\ SaveFile => PipelineInv' /\ Settle(200, <<>>)
<1> SUFFICES ASSUME PipelineInv, SaveFile PROVE PipelineInv' /\ Settle(200, <<>>)
  OBVIOUS
<1> USE DEF PipelineInv
<1>1. /\ pc = "save" /\ PassedMandatory(at) /\ place = 0 /\ checksum[at] = This.body
      /\ UNCHANGED <<request, approved, checksum>>
      /\ at \in DOMAIN request.files
  BY DEF SaveFile, StageOK, TypeOK
<1>2. Rest = This.body /\ This.body \in Seq(Lines)
  BY <1>1, RestFacts
<1>3. saved' = [saved EXCEPT ![at] = This.body] /\ Settle(200, <<>>)
  BY <1>1, <1>2 DEF SaveFile
<1>4. LearnsOf(saved) /\ saved'[at] = This.body
  BY <1>1, <1>2, <1>3 DEF TypeOK, LearnsOf
<1>5. Learns
  BY <1>1, <1>4 DEF TypeOK, Learns, LearnsOf
<1>6. approved'[at] = This.body /\ checksum'[at] = This.body
  BY <1>1 DEF PassedMandatory, Clean, This
<1>7. 200 \in Codes /\ <<>> \in Seq(Codes \ {200})
  BY DEF Codes
<1> QED
  BY <1>1, <1>3, <1>4, <1>5, <1>6, <1>7, SettleStep

(* The two endpoints that only check. *)
LEMMA OnlyCheckedPipeline == PipelineInv /\ (AnswerClean \/ ScanOnly) => PipelineInv'
<1> SUFFICES ASSUME PipelineInv, AnswerClean \/ ScanOnly PROVE PipelineInv'
  OBVIOUS
<1> USE DEF PipelineInv
<1>1. /\ pc \in {"clean", "scan"}
      /\ UNCHANGED <<request, approved, checksum, saved>>
      /\ at \in DOMAIN request.files /\ at \in Nat
      /\ saved[at] = None
  BY RequestFacts DEF AnswerClean, ScanOnly, TypeOK, Ahead
<1>2. Learns
  BY <1>1, LearnsNothing
<1>3. PICK code \in Codes, codes \in Seq(Codes \ {200}) : Settle(code, codes)
  <2>1. <<>> \in Seq(Codes \ {200}) /\ 200 \in Codes
    BY DEF Codes
  <2>2. CASE AnswerClean
    BY <2>1, <2>2 DEF AnswerClean
  <2>3. CASE ScanOnly
    <3>1. PICK code : /\ code = IF This.type = None THEN 500
                                ELSE ScanForSuspiciousContent(request.validators[1], This, place)
                      /\ Settle(code, IF code = 200 THEN <<>> ELSE <<code>>)
      BY <2>3 DEF ScanOnly
    <3>2. code \in {200, 400, 500}
      BY <3>1 DEF ScanForSuspiciousContent
    <3>3. CASE code = 200
      <4>1. Settle(code, <<>>)
        BY <3>1, <3>3
      <4> QED
        BY <2>1, <3>3, <4>1
    <3>4. CASE code # 200
      <4>1. Settle(code, <<code>>)
        BY <3>1, <3>4
      <4>2. code \in Codes \ {200}
        BY <3>2, <3>4 DEF Codes
      <4>3. <<code>> \in Seq(Codes \ {200})
        BY <4>2
      <4> QED
        BY <4>1, <4>2, <4>3
    <3> QED
      BY <3>3, <3>4
  <2> QED
    BY <2>2, <2>3
<1> QED
  BY <1>1, <1>2, <1>3, SettleStep

THEOREM PipelineInvariance == Spec => []PipelineInv
<1>1. PipelineInv /\ [Next]_vars => PipelineInv'
  <2> SUFFICES ASSUME PipelineInv, [Next]_vars PROVE PipelineInv'
    OBVIOUS
  <2>1. CASE UNCHANGED vars
    BY <2>1 DEF vars, PipelineInv, RequestOK, TypeOK, Ahead, StageOK, ScannedFirst, PassedUpTo,
                PassedMandatory, Clean, This, Selected
  <2> QED
    BY <2>1, CollectionPipeline, HeadersPipeline, MandatoryPipeline, ScanPipeline,
       ConfiguredPipeline, ChecksumPipeline, SavePipeline, OnlyCheckedPipeline DEF Next, Quiesce
<1> QED
  BY <1>1, PipelineInit, PTL DEF Spec

(* The types of the pipeline's state.                                        *)
THEOREM PipelineTypes == Spec => []TypeOK
BY PipelineInvariance, PTL DEF PipelineInv

(* No client validator sees a file and S3 stores nothing that clamd has not  *)
(* approved in full, and the checksum given is that of what was stored, for  *)
(* every configuration (file_upload_handler.py, run_initial_file_checks).    *)
THEOREM ScannedFirstAlways == Spec => []ScannedFirst
BY PipelineInvariance, PTL DEF PipelineInv

------------------------------------------------------------------------------
(* VerdictInv is an invariant, if no list of validators holds two scans.     *)

(* The three properties, of one file. *)
AcceptedFine(i) ==
  LET f == request.files[i] IN
    /\ f.named
    /\ request.endpoint \in Uploads => f.faults = {}
    /\ request.endpoint # "scan_for_suspicious_content" =>
         request.hasLength /\ \A j \in DOMAIN f.body : f.body[j] # "virus"
    /\ \A k \in DOMAIN request.validators : FileCheck(request.validators[k], f, 0) = 200
    /\ \A k \in DOMAIN request.collection :
         CollectionCheck(request.collection[k], request.files) = 200

ReportedWell(i, code, codes) ==
  ListsFailures(codes, i, LastRun(i)) /\ (code = 200 <=> Failing(i, LastRun(i)) = {})

LEMMA NothingListed ==
  ASSUME NEW i, NEW n, Failing(i, n) = {}
  PROVE  ListsFailures(<<>>, i, n)
BY FS_EmptySet DEF ListsFailures

LEMMA VerdictsByFile ==
  /\ FailuresAllReported <=> \A i \in DOMAIN request.files :
       AllKnown /\ Judged(i) => ReportedWell(i, outcome[i], reported[i])
  /\ AcceptedPassesAll <=> \A i \in DOMAIN request.files : outcome[i] = 200 => AcceptedFine(i)
  /\ BreakdownIs500 <=> \A i \in DOMAIN request.files : Judged(i) => (outcome[i] = 500 <=> BrokeDown(i))
BY DEF AcceptedPassesAll, AcceptedFine, BreakdownIs500, BrokeDown, FailuresAllReported,
       ReportedWell

LEMMA VerdictsByFileAfter ==
  /\ AcceptedPassesAll' <=>
       \A i \in DOMAIN request'.files : outcome'[i] = 200 => AcceptedFine(i)'
  /\ BreakdownIs500' <=>
       \A i \in DOMAIN request'.files : Judged(i)' => (outcome'[i] = 500 <=> BrokeDown(i)')
BY DEF AcceptedPassesAll, AcceptedFine, BreakdownIs500, BrokeDown

(* What is asked of a file is asked of it throughout. *)
LEMMA SameQuestions ==
  ASSUME request' = request
  PROVE  \A i : /\ AcceptedFine(i)' <=> AcceptedFine(i)
                /\ LastRun(i)' = LastRun(i)
                /\ BrokeDown(i)' <=> BrokeDown(i)
                /\ \A n : ErrorsUpTo(i, n)' = ErrorsUpTo(i, n)
<1> TAKE i
<1>1. \A k : CodeOf(i, k)' = CodeOf(i, k)
  BY DEF CodeOf
<1>2. LastRun(i)' = LastRun(i)
  BY DEF LastRun, CodeOf
<1>3. AcceptedFine(i)' <=> AcceptedFine(i)
  BY DEF AcceptedFine
<1>4. BrokeDown(i)' <=> BrokeDown(i)
  BY <1>1, <1>2 DEF BrokeDown
<1>5. \A n : ErrorsUpTo(i, n)' = ErrorsUpTo(i, n)
  BY <1>1 DEF ErrorsUpTo
<1> QED
  BY <1>2, <1>3, <1>4, <1>5

LEMMA SameReports ==
  ASSUME request' = request
  PROVE  /\ FailuresAllReported' <=> \A i \in DOMAIN request.files :
              AllKnown /\ Judged(i)' => ReportedWell(i, outcome'[i], reported'[i])
         /\ \A i, n : Failing(i, n)' = Failing(i, n)
BY DEF FailuresAllReported, AllKnown, ReportedWell, ListsFailures, Failing, LastRun, CodeOf

(* A step that stays with the file.                                          *)
LEMMA StayVerdict ==
  ASSUME PipelineInv, VerdictInv, request' = request, pc # "done",
         UNCHANGED <<outcome, reported>>, Learns, LoopsOK'
  PROVE  VerdictInv'
<1>1. \A i \in DOMAIN request.files : i \in Nat /\ at \in Nat
  BY RequestFacts DEF PipelineInv, TypeOK
<1>2. AcceptedPassesAll'
  BY SameQuestions, VerdictsByFile, VerdictsByFileAfter DEF VerdictInv
<1>3. ASSUME NEW i \in DOMAIN request.files, Judged(i)'
      PROVE  Judged(i)
  <2>1. outcome[i] # 0 /\ request.endpoint \in Uploads /\ approved'[i] # None
        /\ request.files[i].faults = {}
    BY <1>3 DEF Judged
  <2>2. i # at
    BY <1>1, <2>1 DEF PipelineInv, Ahead
  <2> QED
    BY <2>1, <2>2 DEF Judged, Learns, LearnsOf
<1>4. BreakdownIs500'
  BY <1>3, SameQuestions, VerdictsByFile, VerdictsByFileAfter DEF VerdictInv
<1>5. FailuresAllReported'
  BY <1>3, SameReports, VerdictsByFile DEF VerdictInv
<1> QED
  BY <1>2, <1>4, <1>5 DEF VerdictInv

(* A step that settles it.                                                   *)
LEMMA SettleVerdict ==
  ASSUME PipelineInv, VerdictInv, request' = request, pc \notin {"collection", "done"}, Learns,
         NEW code \in Codes, NEW codes, Settle(code, codes),
         code = 200 => AcceptedFine(at),
         request.endpoint \in Uploads /\ approved'[at] # None /\ This.faults = {}
           => /\ code = 500 <=> BrokeDown(at)
              /\ AllKnown => ReportedWell(at, code, codes)
  PROVE  VerdictInv'
<1>1. /\ outcome' = [outcome EXCEPT ![at] = code] /\ reported' = [reported EXCEPT ![at] = codes]
      /\ pc' \in {"headers", "done"}
  BY DEF Settle, Start
<1>2. /\ at \in DOMAIN request.files
      /\ DOMAIN outcome = DOMAIN request.files /\ DOMAIN reported = DOMAIN request.files
  BY DEF PipelineInv, TypeOK
<1>3. /\ outcome'[at] = code /\ reported'[at] = codes
      /\ \A i \in DOMAIN request.files :
           i # at => outcome'[i] = outcome[i] /\ reported'[i] = reported[i]
  BY <1>1, <1>2
<1>4. LoopsOK'
  BY <1>1 DEF VerdictInv, LoopsOK, CollectionPassed
<1>5. ASSUME NEW i \in DOMAIN request.files, outcome'[i] = 200
      PROVE  AcceptedFine(i)'
  <2>1. CASE i = at
    BY <1>3, <1>5, <2>1, SameQuestions
  <2>2. CASE i # at
    BY <1>3, <1>5, <2>2, SameQuestions, VerdictsByFile DEF VerdictInv
  <2> QED
    BY <2>1, <2>2
<1>6. ASSUME NEW i \in DOMAIN request.files, Judged(i)'
      PROVE  /\ outcome'[i] = 500 <=> BrokeDown(i)'
             /\ AllKnown => ReportedWell(i, outcome'[i], reported'[i])
  <2>1. /\ request.endpoint \in Uploads /\ outcome'[i] # 0
        /\ approved'[i] # None /\ request.files[i].faults = {}
    BY <1>6 DEF Judged
  <2>2. CASE i = at
    BY <1>3, <2>1, <2>2, SameQuestions DEF This
  <2>3. CASE i # at
    <3>1. Judged(i)
      BY <1>3, <2>1, <2>3 DEF Judged, Learns, LearnsOf
    <3> QED
      BY <1>3, <2>3, <3>1, SameQuestions, VerdictsByFile DEF VerdictInv
  <2> QED
    BY <2>2, <2>3
<1>7. AcceptedPassesAll' /\ BreakdownIs500'
  BY <1>5, <1>6, VerdictsByFileAfter
<1>8. FailuresAllReported'
  BY <1>6, SameReports
<1> QED
  BY <1>4, <1>7, <1>8 DEF VerdictInv

LEMMA VerdictInit == Init => VerdictInv
<1> SUFFICES ASSUME Init PROVE VerdictInv
  OBVIOUS
<1>1. PipelineInv
  BY PipelineInit
<1>2. /\ pc = FirstStep(request.endpoint) /\ next = 1
      /\ outcome = [i \in DOMAIN request.files |-> 0]
  BY DEF Init
<1>3. pc \in {"collection", "headers", "scan"}
  BY <1>2 DEF FirstStep
<1>4. pc # "collection" => request.collection = <<>>
  BY <1>1, <1>2 DEF PipelineInv, RequestOK, FirstStep
<1>5. CollectionPassed(0)
  BY DEF CollectionPassed
<1>6. LoopsOK
  BY <1>2, <1>3, <1>4, <1>5 DEF LoopsOK
<1>7. \A i \in DOMAIN request.files : outcome[i] # 200 /\ ~Judged(i)
  BY <1>2 DEF Judged
<1> QED
  BY <1>6, <1>7, VerdictsByFile DEF VerdictInv

LEMMA CollectionVerdict == PipelineInv /\ VerdictInv /\ CollectionStep => VerdictInv'
<1> SUFFICES ASSUME PipelineInv, VerdictInv, CollectionStep PROVE VerdictInv'
  OBVIOUS
<1>1. /\ pc = "collection" /\ at = 1 /\ next \in Nat \ {0}
      /\ UNCHANGED <<request, approved, checksum, saved>>
      /\ errors \in Seq(Codes \ {200})
  BY DEF CollectionStep, PipelineInv, StageOK, TypeOK
<1>2. Learns
  BY <1>1, LearnsNothing DEF PipelineInv
<1>3. Len(request.collection) \in Nat /\ \A i \in DOMAIN request.files : i \in Nat /\ i >= 1
  BY RequestFacts DEF PipelineInv
<1>4. ASSUME NEW code \in Codes \ {200}, Reject(code)
      PROVE  VerdictInv'
  <2>1. \A i \in DOMAIN request.files : outcome'[i] = code /\ code # 200
    BY <1>4 DEF Reject
  <2>2. \A i \in DOMAIN request.files : approved'[i] = None
    BY <1>1, <1>3 DEF PipelineInv, Ahead
  <2>3. \A i \in DOMAIN request.files : ~Judged(i)'
    BY <1>1, <2>2 DEF Judged
  <2>4. LoopsOK'
    BY <1>4 DEF Reject, LoopsOK
  <2> QED
    BY <1>1, <2>1, <2>3, <2>4, VerdictsByFileAfter, SameReports DEF VerdictInv
<1>5. CASE /\ next <= Len(request.collection)
           /\ LET code == CollectionCheck(request.collection[next], request.files) IN
                errors' = ErrorsAfter(code) /\ next' = NextAfter(request.collection, code)
           /\ UNCHANGED <<pc, at, place, outcome, reported>>
  <2>1. PICK code : /\ code = CollectionCheck(request.collection[next], request.files)
                    /\ errors' = ErrorsAfter(code) /\ next' = NextAfter(request.collection, code)
    BY <1>5
  <2>2. ASSUME errors' = <<>> PROVE CollectionPassed(next' - 1)
    <3>1. code = 200 /\ errors = <<>>
      BY <1>1, <2>1, <2>2 DEF ErrorsAfter
    <3>2. next' = next + 1
      BY <2>1, <3>1 DEF NextAfter
    <3>3. CollectionPassed(next - 1)
      BY <1>1, <3>1 DEF VerdictInv, LoopsOK
    <3>4. \A k \in 1 .. next' - 1 : k = next \/ k \in 1 .. next - 1
      BY <1>1, <3>2
    <3> QED
      BY <2>1, <3>1, <3>3, <3>4 DEF CollectionPassed
  <2>3. LoopsOK'
    BY <1>1, <1>5, <2>2 DEF LoopsOK, CollectionPassed
  <2> QED
    BY <1>1, <1>2, <1>5, <2>3, StayVerdict
<1>6. CASE Reject(500)
  <2>1. 500 \in Codes \ {200}
    BY DEF Codes
  <2> QED
    BY <1>4, <1>6, <2>1
<1>7. CASE errors # <<>> /\ Reject(StatusCodeForResponse(errors))
  <2>1. StatusCodeForResponse(errors) \in Codes \ {200}
    BY <1>1, <1>7, StatusFacts
  <2> QED
    BY <1>4, <1>7, <2>1
<1>8. CASE /\ next > Len(request.collection) /\ errors = <<>>
           /\ Start("headers") /\ UNCHANGED <<at, place, outcome, reported>>
  <2>1. pc' = "headers"
    BY <1>8 DEF Start
  <2>2. CollectionPassed(next - 1)
    BY <1>1, <1>8 DEF VerdictInv, LoopsOK
  <2>3. \A k \in 1 .. Len(request.collection) : k \in 1 .. next - 1
    BY <1>1, <1>3, <1>8
  <2>4. CollectionPassed(Len(request.collection))
    BY <2>2, <2>3 DEF CollectionPassed
  <2>5. LoopsOK'
    BY <1>1, <2>1, <2>4 DEF LoopsOK, CollectionPassed
  <2> QED
    BY <1>1, <1>2, <1>8, <2>5, StayVerdict
<1> QED
  BY <1>5, <1>6, <1>7, <1>8 DEF CollectionStep

LEMMA HeadersVerdict == PipelineInv /\ VerdictInv /\ CheckHeaders => VerdictInv'
<1> SUFFICES ASSUME PipelineInv, VerdictInv, CheckHeaders PROVE VerdictInv'
  OBVIOUS
<1>1. /\ pc = "headers" /\ UNCHANGED <<request, approved, checksum, saved>>
      /\ at \in DOMAIN request.files
  BY DEF CheckHeaders, PipelineInv, TypeOK
<1>2. Learns
  BY <1>1, LearnsNothing DEF PipelineInv
<1>3. approved[at] = None
  BY <1>1, RequestFacts DEF PipelineInv, Ahead
<1>4. CASE request.hasLength
  <2>1. pc' = "mandatory" /\ UNCHANGED <<at, outcome, reported>>
    BY <1>4 DEF CheckHeaders, Start
  <2>2. LoopsOK'
    BY <1>1, <2>1 DEF VerdictInv, LoopsOK, CollectionPassed
  <2> QED
    BY <1>1, <1>2, <2>1, <2>2, StayVerdict
<1>5. CASE ~request.hasLength
  <2>1. Settle(411, <<411>>)
    BY <1>5 DEF CheckHeaders
  <2>2. PICK code \in Codes : code = 411 /\ code # 200
    BY DEF Codes
  <2>3. Settle(code, <<411>>)
    BY <2>1, <2>2
  <2> QED
    BY <1>1, <1>2, <1>3, <2>2, <2>3, SettleVerdict
<1> QED
  BY <1>4, <1>5

(* The mandatory validator at next has passed. *)
LEMMA NextMandatoryVerdict ==
  ASSUME PipelineInv, VerdictInv, pc = "mandatory", NextMandatory, request' = request,
         place' = 0, Learns
  PROVE  VerdictInv'
<1>1. /\ UNCHANGED <<at, outcome, reported>>
      /\ Len(request.validators) \in Nat
  BY RequestFacts DEF NextMandatory, PipelineInv
<1>2. CollectionPassed(Len(request.collection))'
  BY DEF VerdictInv, LoopsOK, CollectionPassed
<1>3. LoopsOK'
  <2>1. CASE next < Len(Selected)
    <3>1. pc' = "mandatory"
      BY <2>1 DEF NextMandatory
    <3> QED
      BY <1>2, <3>1 DEF LoopsOK
  <2>2. CASE ~(next < Len(Selected))
    <3>1. next' = 1 /\ errors' = <<>> /\ pc' \in {"clean", "configured"}
      BY <2>2 DEF NextMandatory, Start, Fresh
    <3>2. /\ LastRun(at) \in 0 .. Len(request.validators)
          /\ Len(request.validators) > 0 => LastRun(at) > 0
      BY LastRunFacts DEF PipelineInv
    <3>3. LastRun(at)' = LastRun(at)
      BY <1>1 DEF LastRun, CodeOf
    <3>4. RunSoFar' = 0
      BY <1>1, <3>1, <3>2, <3>3 DEF RunSoFar
    <3>5. ToSet(errors') = {}
      BY <3>1 DEF ToSet
    <3>6. ErrorsUpTo(at, RunSoFar)' = {}
      BY <3>4 DEF ErrorsUpTo
    <3>7. next' <= Len(request.validators) => next' <= LastRun(at)'
      BY <1>1, <3>1, <3>2, <3>3
    <3>8. ListsFailures(errors, at, RunSoFar)'
      <4>1. Failing(at', 0) = {}
        BY DEF Failing
      <4>2. ListsFailures(errors', at', 0)
        BY <3>1, <4>1, NothingListed
      <4> QED
        BY <3>4, <4>2 DEF ListsFailures, Failing, CodeOf
    <3> QED
      BY <1>2, <3>1, <3>5, <3>6, <3>7, <3>8 DEF LoopsOK
  <2> QED
    BY <2>1, <2>2
<1> QED
  BY <1>1, <1>3, StayVerdict

LEMMA MandatoryVerdict == PipelineInv /\ VerdictInv /\ RunMandatory => VerdictInv'
<1> SUFFICES ASSUME PipelineInv, VerdictInv, RunMandatory PROVE VerdictInv'
  OBVIOUS
<1>1. /\ pc = "mandatory" /\ place = 0 /\ PassedUpTo(next) /\ next \in 1 .. Len(Selected)
      /\ UNCHANGED <<request, approved, checksum, saved>>
      /\ at \in DOMAIN request.files
  BY DEF RunMandatory, PipelineInv, StageOK, TypeOK
<1>2. Learns
  BY <1>1, LearnsNothing DEF PipelineInv
<1>3. PICK code : /\ code = MandatoryCheck(Selected[next], This)
                  /\ IF code = 200 THEN NextMandatory /\ UNCHANGED place ELSE Settle(code, <<code>>)
  BY DEF RunMandatory
<1>4. CASE code = 200
  BY <1>1, <1>2, <1>3, <1>4, NextMandatoryVerdict
<1>5. CASE code # 200
  <2>1. /\ code = 400
        /\ (Selected[next] = "HaveFile" /\ ~This.named) \/ Selected[next] \in This.faults
    BY <1>3, <1>5 DEF MandatoryCheck
  <2>2. code \in Codes /\ Settle(code, <<code>>)
    BY <1>3, <1>5, <2>1 DEF Codes
  <2>3. ~(approved'[at] # None /\ This.faults = {})
    <3>1. CASE next = 1
      BY <1>1, <3>1 DEF PassedUpTo
    <3>2. CASE next # 1
      <4>1. This.named
        BY <1>1, <3>2, SelectedFacts DEF PassedUpTo
      <4> QED
        BY <2>1, <4>1
    <3> QED
      BY <3>1, <3>2
  <2> QED
    BY <1>1, <1>2, <1>5, <2>2, <2>3, SettleVerdict
<1> QED
  BY <1>4, <1>5

LEMMA ScanVerdict == PipelineInv /\ VerdictInv /\ ScanForVirus => VerdictInv'
<1> SUFFICES ASSUME PipelineInv, VerdictInv, ScanForVirus PROVE VerdictInv'
  OBVIOUS
<1>1. /\ pc = "mandatory" /\ PassedUpTo(next) /\ next \in 1 .. Len(Selected)
      /\ Selected[next] = "NoVirusFoundInFile" /\ place = 0
      /\ UNCHANGED <<request, checksum, saved>>
      /\ at \in DOMAIN request.files
      /\ approved \in [DOMAIN request.files -> {None} \cup Seq(Lines)]
  BY DEF ScanForVirus, PipelineInv, StageOK, TypeOK
<1>2. Rest \in Seq(Lines)
  BY RestFacts DEF PipelineInv
<1>3. PICK code \in ScanVerdicts(Rest) :
        \/ /\ PassesScan(code)
           /\ NextMandatory
           /\ place' = PlaceAfterVirusCheck
           /\ approved' = [approved EXCEPT ![at] = IF code = 200 THEN Rest ELSE None]
        \/ /\ ~PassesScan(code)
           /\ Settle(ErrorOf(code), <<ErrorOf(code)>>)
           /\ UNCHANGED approved
  BY DEF ScanForVirus
<1>4. LearnsOf(approved)
  BY <1>1, <1>2, <1>3 DEF LearnsOf
<1>5. Learns
  BY <1>1, <1>4 DEF PipelineInv, TypeOK, Learns, LearnsOf
<1>6. CASE NextMandatory /\ place' = PlaceAfterVirusCheck
  BY <1>1, <1>5, <1>6, NextMandatoryVerdict DEF PlaceAfterVirusCheck
<1>7. CASE ~PassesScan(code) /\ Settle(ErrorOf(code), <<ErrorOf(code)>>) /\ UNCHANGED approved
  <2>1. ErrorOf(code) \in Codes /\ ErrorOf(code) # 200
    BY <1>3, <1>7 DEF ScanVerdicts, PassesScan, ErrorOf, Raised, Codes
  <2>2. next <= 2
    <3>1. "NoVirusFoundInFile" \notin FilenameValidators
      BY DEF FilenameValidators
    <3>2. ~(next \in 3 .. Len(Selected))
      BY <1>1, <3>1, SelectedFacts
    <3> QED
      BY <1>1, <3>2, SelectedFacts
  <2>3. approved'[at] = None
    BY <1>1, <1>7, <2>2 DEF PassedUpTo
  <2> QED
    BY <1>1, <1>5, <1>7, <2>1, <2>3, SettleVerdict
<1> QED
  BY <1>3, <1>6, <1>7

(* In its turn a configured validator says what it would say of the whole    *)
(* file, and leaves the stream as the invariant wants it.                    *)
LEMMA TurnOfConfigured ==
  ASSUME OneScan, PipelineInv, VerdictInv, pc = "configured",
         next <= Len(request.validators)
  PROVE  LET s == request.validators[next] IN
           /\ FileCheck(s, This, place) = CodeOf(at, next)
           /\ \/ PlaceAfter(s, This, place) = 0
              \/ \E k \in 1 .. next : request.validators[k].name = "ScanForSuspiciousContent"
<1> DEFINE s == request.validators[next]
           ScansAt(k) == request.validators[k].name = "ScanForSuspiciousContent"
<1>1. request.validators \in FileSpecs
  BY DEF PipelineInv, RequestOK, StageOK, ValidatorsFor, Uploads
<1>2. /\ next \in Nat \ {0} /\ DOMAIN request.validators = 1 .. Len(request.validators)
      /\ Len(request.validators) \in Nat
      /\ IsFile(This) /\ place \in 0 .. Len(This.body)
  BY RequestFacts DEF PipelineInv, TypeOK, This
<1>3. \A j, k \in 1 .. Len(request.validators) : ScansAt(j) /\ ScansAt(k) => j = k
  BY <1>1, <1>2 DEF OneScan
<1>4. place = 0 \/ \E k \in 1 .. next - 1 : k <= Len(request.validators) /\ ScansAt(k)
  BY DEF VerdictInv, LoopsOK
<1>5. CASE place = 0
  <2>1. FileCheck(s, This, place) = CodeOf(at, next)
    BY <1>5 DEF CodeOf, This
  <2>2. ScansAt(next) \/ PlaceAfter(s, This, place) = 0
    BY <1>2, <1>5, PlaceAfterScanning
  <2> QED
    BY <1>2, <2>1, <2>2
<1>6. CASE \E k \in 1 .. next - 1 : k <= Len(request.validators) /\ ScansAt(k)
  <2>1. PICK k \in 1 .. next - 1 : k <= Len(request.validators) /\ ScansAt(k)
    BY <1>6
  <2>2. k \in 1 .. Len(request.validators) /\ next \in 1 .. Len(request.validators) /\ k # next
        /\ k \in 1 .. next
    BY <1>2, <2>1
  <2>3. ~ScansAt(next)
    BY <1>3, <2>1, <2>2
  <2>4. FileCheck(s, This, place) = CodeOf(at, next)
    BY <2>3, PlaceMatters DEF CodeOf, This
  <2> QED
    BY <2>1, <2>2, <2>4
<1> QED
  BY <1>4, <1>5, <1>6

(* The errors found so far, after that turn.                                 *)
LEMMA ErrorsOfTurn ==
  ASSUME NEW code \in CheckCodes, errors \in Seq(Codes \ {200}),
         NEW i, NEW n \in Nat \ {0}, code = CodeOf(i, n), ToSet(errors) = ErrorsUpTo(i, n - 1)
  PROVE  ToSet(ErrorsAfter(code)) = ErrorsUpTo(i, n)
<1>1. \A k : k \in 1 .. n <=> k \in 1 .. n - 1 \/ k = n
  OBVIOUS
<1>2. CASE code = 200
  <2>1. ErrorsAfter(code) = errors
    BY <1>2 DEF ErrorsAfter
  <2>2. ErrorsUpTo(i, n) = ErrorsUpTo(i, n - 1)
    BY <1>1, <1>2 DEF ErrorsUpTo
  <2> QED
    BY <2>1, <2>2
<1>3. CASE code # 200
  <2>1. ErrorOf(code) \in Codes \ {200}
    BY <1>3, ErrorCodes
  <2>2. ErrorsAfter(code) = Append(errors, ErrorOf(code))
    BY <1>3 DEF ErrorsAfter
  <2>3. ToSet(Append(errors, ErrorOf(code))) = ToSet(errors) \cup {ErrorOf(code)}
    <3>1. ASSUME NEW S, NEW q \in Seq(S), NEW x \in S
          PROVE  ToSet(Append(q, x)) = ToSet(q) \cup {x}
      <4>1. /\ DOMAIN q = 1 .. Len(q) /\ Len(q) \in Nat
            /\ DOMAIN Append(q, x) = 1 .. Len(q) + 1
            /\ \A k \in 1 .. Len(q) : Append(q, x)[k] = q[k]
            /\ Append(q, x)[Len(q) + 1] = x
        OBVIOUS
      <4>2. \A k : k \in 1 .. Len(q) + 1 <=> k \in 1 .. Len(q) \/ k = Len(q) + 1
        BY <4>1
      <4> QED
        BY <4>1, <4>2 DEF ToSet
    <3> QED
      BY <2>1, <3>1
  <2>4. ErrorsUpTo(i, n) = ErrorsUpTo(i, n - 1) \cup {ErrorOf(code)}
    BY <1>1, <1>3 DEF ErrorsUpTo
  <2> QED
    BY <2>2, <2>3, <2>4
<1> QED
  BY <1>2, <1>3

(* They are listed in the order of the validators. *)
LEMMA ListOfTurn ==
  ASSUME NEW code \in CheckCodes, errors \in Seq(Codes \ {200}),
         NEW i, NEW n \in Nat \ {0}, code = CodeOf(i, n), ListsFailures(errors, i, n - 1)
  PROVE  ListsFailures(ErrorsAfter(code), i, n)
<1> DEFINE Before == Failing(i, n - 1)
           Rank(k) == Cardinality(Failing(i, k))
<1>1. \A k : k \in 1 .. n <=> k \in 1 .. n - 1 \/ k = n
  OBVIOUS
<1>2. \A m \in Nat : IsFiniteSet(Failing(i, m)) /\ Rank(m) \in Nat
  <2> TAKE m \in Nat
  <2>1. IsFiniteSet(1 .. m)
    BY FS_Interval
  <2>2. Failing(i, m) \in SUBSET (1 .. m)
    BY DEF Failing
  <2> QED
    BY <2>1, <2>2, FS_Subset, FS_CardinalityType
<1>3. /\ Len(errors) = Rank(n - 1) /\ Len(errors) \in Nat
      /\ \A k \in Before :
           errors[Rank(k)] = IF CodeOf(i, k) = Raised THEN 500 ELSE CodeOf(i, k)
  BY DEF ListsFailures
<1>4. CASE code = 200
  <2>1. ErrorsAfter(code) = errors
    BY <1>4 DEF ErrorsAfter
  <2>2. Failing(i, n) = Before
    BY <1>1, <1>4 DEF Failing
  <2> QED
    BY <1>3, <2>1, <2>2 DEF ListsFailures
<1>5. CASE code # 200
  <2>1. ErrorsAfter(code) = Append(errors, ErrorOf(code))
    BY <1>5 DEF ErrorsAfter
  <2>2. Failing(i, n) = Before \cup {n} /\ n \notin Before
    BY <1>1, <1>5 DEF Failing
  <2>3. Rank(n) = Len(errors) + 1
    <3> HIDE DEF Before
    <3>1. IsFiniteSet(Before) /\ Cardinality(Before) = Len(errors)
      BY <1>2, <1>3 DEF Before
    <3> QED
      BY <2>2, <3>1, FS_AddElement
  <2>4. ASSUME NEW k \in Before PROVE Rank(k) \in 1 .. Len(errors)
    <3>1. k \in 1 .. n - 1 /\ k \in Failing(i, k) /\ Failing(i, k) \subseteq Before
      BY <2>4 DEF Failing
    <3>2. Rank(k) <= Rank(n - 1)
      BY <1>2, <3>1, FS_Subset
    <3>3. Rank(k) # 0
      BY <1>2, <3>1, FS_EmptySet
    <3> QED
      BY <1>2, <1>3, <3>1, <3>2, <3>3
  <2>5. /\ Len(Append(errors, ErrorOf(code))) = Len(errors) + 1
        /\ Append(errors, ErrorOf(code))[Len(errors) + 1] = ErrorOf(code)
        /\ \A m \in 1 .. Len(errors) : Append(errors, ErrorOf(code))[m] = errors[m]
    <3>1. ErrorOf(code) \in Codes \ {200}
      BY <1>5, ErrorCodes
    <3> QED
      BY <3>1
  <2>6. ASSUME NEW k \in Failing(i, n)
        PROVE  ErrorsAfter(code)[Rank(k)] =
                 IF CodeOf(i, k) = Raised THEN 500 ELSE CodeOf(i, k)
    <3>1. CASE k = n
      BY <2>1, <2>3, <2>5, <3>1 DEF ErrorOf
    <3>2. CASE k \in Before
      BY <1>3, <2>1, <2>4, <2>5, <3>2
    <3> QED
      BY <2>2, <3>1, <3>2
  <2> QED
    BY <2>1, <2>3, <2>5, <2>6 DEF ListsFailures
<1> QED
  BY <1>4, <1>5

(* 500 is among the errors exactly if a validator broke down.                *)
LEMMA BreakdownFacts ==
  ASSUME RequestOK, NEW i
  PROVE  /\ 500 \in ErrorsUpTo(i, LastRun(i)) <=> BrokeDown(i)
         /\ ErrorsUpTo(i, LastRun(i)) = {} => /\ LastRun(i) = Len(request.validators)
                                              /\ \A k \in 1 .. LastRun(i) : CodeOf(i, k) = 200
<1>1. \A k : CodeOf(i, k) \in CheckCodes
  BY FileCheckCodes DEF CodeOf, CheckCodes
<1>2. \A k : ErrorOf(CodeOf(i, k)) = 500 <=> CodeOf(i, k) \in {Raised, 500}
  BY <1>1, ErrorCodes
<1>3. Raised # 200
  BY DEF Raised
<1>4. 500 \in ErrorsUpTo(i, LastRun(i)) <=> BrokeDown(i)
  BY <1>2, <1>3 DEF ErrorsUpTo, BrokeDown
<1>5. ASSUME ErrorsUpTo(i, LastRun(i)) = {}
      PROVE  /\ LastRun(i) = Len(request.validators)
             /\ \A k \in 1 .. LastRun(i) : CodeOf(i, k) = 200
  <2>1. \A k \in 1 .. LastRun(i) : CodeOf(i, k) = 200
    BY <1>5 DEF ErrorsUpTo
  <2>2. /\ Len(request.validators) \in Nat
        /\ LastRun(i) \in 0 .. Len(request.validators)
        /\ Len(request.validators) > 0 => LastRun(i) > 0
        /\ LastRun(i) < Len(request.validators) => Stops(i, LastRun(i))
    BY RequestFacts, LastRunFacts
  <2>3. ASSUME LastRun(i) < Len(request.validators) PROVE FALSE
    <3>1. LastRun(i) \in 1 .. LastRun(i)
      BY <2>2, <2>3
    <3> QED
      BY <2>1, <2>2, <2>3, <3>1 DEF Stops
  <2> QED
    BY <2>1, <2>2, <2>3
<1> QED
  BY <1>4, <1>5

LEMMA ConfiguredTurnVerdict ==
  ASSUME OneScan, PipelineInv, VerdictInv, pc = "configured", request' = request,
         next <= Len(request.validators), NEW code,
         code = FileCheck(request.validators[next], This, place),
         errors' = ErrorsAfter(code), next' = NextAfter(request.validators, code),
         place' = PlaceAfter(request.validators[next], This, place),
         UNCHANGED <<pc, at, outcome, reported>>, Learns
  PROVE  VerdictInv'
<1> DEFINE n == Len(request.validators)
           last == LastRun(at)
<1>1. /\ n \in Nat /\ next \in 1 .. n
      /\ errors \in Seq(Codes \ {200})
  BY RequestFacts DEF PipelineInv, TypeOK
<1>2. /\ last \in 0 .. n
      /\ Stops(at, next) => last <= next
      /\ last < n => Stops(at, last)
  BY <1>1, LastRunFacts DEF PipelineInv
<1>3. /\ next <= last /\ ToSet(errors) = ErrorsUpTo(at, next - 1)
      /\ ListsFailures(errors, at, next - 1)
  BY <1>1 DEF VerdictInv, LoopsOK, RunSoFar
<1>4. /\ code = CodeOf(at, next)
      /\ place' = 0 \/ \E k \in 1 .. next : request.validators[k].name = "ScanForSuspiciousContent"
  BY TurnOfConfigured
<1>5. code \in CheckCodes
  BY FileCheckCodes DEF CheckCodes
<1>6. ToSet(errors') = ErrorsUpTo(at, next) /\ ListsFailures(errors', at, next)
  BY <1>1, <1>3, <1>4, <1>5, ErrorsOfTurn, ListOfTurn
<1>7. /\ next' > n => last = next
      /\ next' <= n => next' = next + 1 /\ next + 1 <= last
      /\ next' >= next + 1
  <2>1. CASE Stops(at, next)
    <3>1. next' = n + 1
      BY <1>4, <2>1 DEF NextAfter, Stops
    <3> QED
      BY <1>1, <1>2, <1>3, <2>1, <3>1
  <2>2. CASE ~Stops(at, next)
    <3>1. next' = next + 1
      BY <1>4, <2>2 DEF NextAfter, Stops
    <3>2. last = next => ~(last < n)
      BY <1>2, <2>2
    <3> QED
      BY <1>1, <1>2, <1>3, <3>1, <3>2
  <2> QED
    BY <2>1, <2>2
<1>8. LastRun(at)' = last /\ \A m : ErrorsUpTo(at, m)' = ErrorsUpTo(at', m)
  BY SameQuestions DEF ErrorsUpTo, CodeOf, LastRun
<1> HIDE DEF n, last
<1>9. RunSoFar' = next
  <2>1. RunSoFar' = IF next' <= n THEN next' - 1 ELSE last
    BY <1>8 DEF RunSoFar, n
  <2>2. next' \in Nat
    BY <1>1 DEF NextAfter, n
  <2> QED
    BY <1>1, <1>7, <2>1, <2>2
<1>10. ToSet(errors)' = ErrorsUpTo(at, RunSoFar)' /\ ListsFailures(errors, at, RunSoFar)'
  BY <1>6, <1>9 DEF ErrorsUpTo, CodeOf, ListsFailures, Failing
<1>11. place' = 0 \/ \E k \in 1 .. next' - 1 :
                       /\ k <= Len(request.validators)
                       /\ request.validators[k].name = "ScanForSuspiciousContent"
  <2>1. next' \in Nat
    BY <1>1, <1>5 DEF NextAfter, n
  <2>2. \A k \in 1 .. next : k \in 1 .. next' - 1 /\ k <= n
    BY <1>1, <1>7, <2>1
  <2> QED
    BY <1>4, <2>2 DEF n
<1>12. next' <= Len(request.validators) => next' <= LastRun(at)'
  BY <1>7, <1>8 DEF n
<1>13. LoopsOK'
  BY <1>10, <1>11, <1>12 DEF VerdictInv, LoopsOK, CollectionPassed
<1> QED
  BY <1>13, StayVerdict

LEMMA ConfiguredVerdict == OneScan /\ PipelineInv /\ VerdictInv /\ ConfiguredStep => VerdictInv'
<1> SUFFICES ASSUME OneScan, PipelineInv, VerdictInv, ConfiguredStep PROVE VerdictInv'
  OBVIOUS
<1>1. /\ pc = "configured"
      /\ UNCHANGED <<request, approved, checksum, saved>>
      /\ RequestOK /\ errors \in Seq(Codes \ {200})
      /\ next \in Nat \ {0} /\ Len(request.validators) \in Nat
  BY RequestFacts DEF ConfiguredStep, PipelineInv, TypeOK
<1>2. Learns
  BY <1>1, LearnsNothing DEF PipelineInv
<1>3. CASE /\ next <= Len(request.validators)
           /\ LET code == FileCheck(request.validators[next], This, place) IN
                errors' = ErrorsAfter(code) /\ next' = NextAfter(request.validators, code)
           /\ place' = PlaceAfter(request.validators[next], This, place)
           /\ UNCHANGED <<pc, at, outcome, reported>>
  <2>1. PICK code : /\ code = FileCheck(request.validators[next], This, place)
                    /\ errors' = ErrorsAfter(code) /\ next' = NextAfter(request.validators, code)
    BY <1>3
  <2> QED
    BY <1>1, <1>2, <1>3, <2>1, ConfiguredTurnVerdict
<1>4. CASE /\ next <= Len(request.validators)
           /\ request.validators[next].name \notin FileValidators \cup CollectionValidators
           /\ Settle(500, <<500>>)
  <2>1. PICK code \in Codes : code = 500 /\ code # 200
    BY DEF Codes
  <2>2. CodeOf(at, next) = Raised
    BY <1>4 DEF CodeOf, FileCheck, FileValidators, CollectionValidators, ContinuesOnFail
  <2>3. next <= LastRun(at) /\ LastRun(at) \in Nat
    BY <1>1, <1>4, LastRunFacts DEF VerdictInv, LoopsOK
  <2>4. BrokeDown(at)
    BY <1>1, <2>2, <2>3 DEF BrokeDown
  <2>5. Settle(code, <<500>>)
    BY <1>4, <2>1
  <2>6. ~AllKnown
    BY <1>1, <1>4, RequestFacts DEF AllKnown
  <2> QED
    BY <1>1, <1>2, <2>1, <2>4, <2>5, <2>6, SettleVerdict
<1>5. CASE next > Len(request.validators)
  <2>1. ToSet(errors) = ErrorsUpTo(at, LastRun(at)) /\ ListsFailures(errors, at, LastRun(at))
    BY <1>1, <1>5 DEF VerdictInv, LoopsOK, RunSoFar
  <2>2. CASE errors # <<>> /\ Settle(StatusCodeForResponse(errors), errors)
    <3>1. PICK code : code = StatusCodeForResponse(errors)
      OBVIOUS
    <3>2. code \in Codes \ {200} /\ (code = 500 <=> BrokeDown(at))
      BY <1>1, <2>1, <2>2, <3>1, StatusFacts, BreakdownFacts
    <3>3. Settle(code, errors)
      BY <2>2, <3>1
    <3>4. ReportedWell(at, code, errors)
      <4>1. Cardinality(Failing(at, LastRun(at))) # 0
        BY <1>1, <2>1, <2>2 DEF ListsFailures
      <4>2. Failing(at, LastRun(at)) # {}
        BY <4>1, FS_EmptySet
      <4> QED
        BY <2>1, <3>2, <4>2 DEF ReportedWell
    <3> QED
      BY <1>1, <1>2, <3>2, <3>3, <3>4, SettleVerdict
  <2>3. CASE /\ errors = <<>>
             /\ Start("checksum") /\ UNCHANGED <<at, place, outcome, reported>>
    <3>1. pc' = "checksum"
      BY <2>3 DEF Start
    <3>2. ErrorsUpTo(at, LastRun(at)) = {}
      BY <2>1, <2>3 DEF ToSet
    <3>3. LastRun(at)' = LastRun(at)
      BY <1>1, <2>3 DEF LastRun, CodeOf
    <3>4. ErrorsUpTo(at, LastRun(at))' = {}
      BY <1>1, <2>3, <3>2, <3>3 DEF ErrorsUpTo, CodeOf
    <3>5. LoopsOK'
      BY <1>1, <3>1, <3>4 DEF VerdictInv, LoopsOK, CollectionPassed
    <3> QED
      BY <1>1, <1>2, <2>3, <3>5, StayVerdict
  <2> QED
    BY <1>1, <1>5, <2>2, <2>3 DEF ConfiguredStep
<1> QED
  BY <1>1, <1>3, <1>4, <1>5 DEF ConfiguredStep

LEMMA ChecksumVerdict == PipelineInv /\ VerdictInv /\ GetFileChecksum => VerdictInv'
<1> SUFFICES ASSUME PipelineInv, VerdictInv, GetFileChecksum PROVE VerdictInv'
  OBVIOUS
<1>1. /\ pc = "checksum" /\ pc' = "save"
      /\ UNCHANGED <<request, at, approved, outcome, reported, saved>>
      /\ at \in DOMAIN request.files
  BY DEF GetFileChecksum, PipelineInv, TypeOK
<1>2. This.body \in Seq(Lines)
  BY RestFacts DEF PipelineInv
<1>3. checksum' = [checksum EXCEPT ![at] = This.body]
  BY <1>2, WholeBody DEF GetFileChecksum, PlaceOfDigest
<1>4. LearnsOf(checksum)
  BY <1>1, <1>2, <1>3 DEF PipelineInv, TypeOK, LearnsOf
<1>5. Learns
  BY <1>1, <1>4 DEF PipelineInv, TypeOK, Learns, LearnsOf
<1>6. LastRun(at)' = LastRun(at)
  BY <1>1 DEF LastRun, CodeOf
<1>7. ErrorsUpTo(at, LastRun(at))' = {}
  BY <1>1, <1>6 DEF VerdictInv, LoopsOK, ErrorsUpTo, CodeOf
<1>8. LoopsOK'
  BY <1>1, <1>7 DEF VerdictInv, LoopsOK, CollectionPassed
<1> QED
  BY <1>1, <1>5, <1>8, StayVerdict

LEMMA SaveVerdict == PipelineInv /\ VerdictInv /\ SaveFile => VerdictInv'
<1> SUFFICES ASSUME PipelineInv, VerdictInv, SaveFile PROVE VerdictInv'
  OBVIOUS
<1>1. /\ pc = "save" /\ PassedMandatory(at) /\ place = 0 /\ checksum[at] = This.body
      /\ UNCHANGED <<request, approved, checksum>>
      /\ at \in DOMAIN request.files /\ RequestOK /\ request.endpoint \in Uploads
  BY DEF SaveFile, PipelineInv, StageOK, TypeOK
<1>2. Rest = This.body /\ This.body \in Seq(Lines)
  BY <1>1, RestFacts DEF PipelineInv
<1>3. saved' = [saved EXCEPT ![at] = This.body] /\ Settle(200, <<>>)
  BY <1>1, <1>2 DEF SaveFile
<1>4. LearnsOf(saved)
  BY <1>1, <1>2, <1>3 DEF PipelineInv, TypeOK, LearnsOf
<1>5. Learns
  BY <1>1, <1>4 DEF PipelineInv, TypeOK, Learns, LearnsOf
<1>6. ErrorsUpTo(at, LastRun(at)) = {} /\ CollectionPassed(Len(request.collection))
  BY <1>1 DEF VerdictInv, LoopsOK
<1>7. /\ \A k \in DOMAIN request.validators : CodeOf(at, k) = 200
      /\ ~BrokeDown(at)
  BY <1>1, <1>6, RequestFacts, BreakdownFacts
<1>8. \A k \in DOMAIN request.collection :
        CollectionCheck(request.collection[k], request.files) = 200
  BY <1>1, <1>6, RequestFacts DEF CollectionPassed
<1>9. AcceptedFine(at)
  BY <1>1, <1>7, <1>8 DEF AcceptedFine, CodeOf, PassedMandatory, Clean
<1>10. PICK code \in Codes : code = 200 /\ code # 500
  BY DEF Codes
<1>11. Settle(code, <<>>)
  BY <1>3, <1>10
<1>12. ReportedWell(at, code, <<>>)
  <2>1. Failing(at, LastRun(at)) = {}
    BY <1>6 DEF ErrorsUpTo, Failing
  <2> QED
    BY <1>10, <2>1, NothingListed DEF ReportedWell
<1> QED
  BY <1>1, <1>5, <1>7, <1>9, <1>10, <1>11, <1>12, SettleVerdict

LEMMA CleanVerdict == PipelineInv /\ VerdictInv /\ AnswerClean => VerdictInv'
<1> SUFFICES ASSUME PipelineInv, VerdictInv, AnswerClean PROVE VerdictInv'
  OBVIOUS
<1>1. /\ pc = "clean" /\ PassedMandatory(at) /\ request.endpoint = "virus_check_file"
      /\ UNCHANGED <<request, approved, checksum, saved>>
      /\ RequestOK
  BY DEF AnswerClean, PipelineInv, StageOK
<1>2. Learns
  BY <1>1, LearnsNothing DEF PipelineInv
<1>3. request.validators = <<>> /\ request.collection = <<>> /\ request.endpoint \notin Uploads
  BY <1>1 DEF RequestOK, ValidatorsFor, Uploads
<1>4. AcceptedFine(at)
  BY <1>1, <1>3 DEF AcceptedFine, PassedMandatory, Clean
<1>5. PICK code \in Codes : code = 200
  BY DEF Codes
<1>6. Settle(code, <<>>)
  BY <1>5 DEF AnswerClean
<1> QED
  BY <1>1, <1>2, <1>3, <1>4, <1>6, SettleVerdict

LEMMA ScanOnlyVerdict == PipelineInv /\ VerdictInv /\ ScanOnly => VerdictInv'
<1> SUFFICES ASSUME PipelineInv, VerdictInv, ScanOnly PROVE VerdictInv'
  OBVIOUS
<1>1. /\ pc = "scan" /\ at = 1 /\ place = 0 /\ request.endpoint = "scan_for_suspicious_content"
      /\ UNCHANGED <<request, approved, checksum, saved>>
      /\ RequestOK
  BY DEF ScanOnly, PipelineInv, StageOK
<1>2. Learns
  BY <1>1, LearnsNothing DEF PipelineInv
<1>3. request.collection = <<>> /\ request.endpoint \notin Uploads /\ This.named
  BY <1>1 DEF RequestOK, Uploads, This
<1>4. PICK code : /\ code = IF This.type = None THEN 500
                            ELSE ScanForSuspiciousContent(request.validators[1], This, 0)
                  /\ Settle(code, IF code = 200 THEN <<>> ELSE <<code>>)
  BY <1>1 DEF ScanOnly
<1>5. code \in Codes
  BY <1>4 DEF ScanForSuspiciousContent, Codes
<1>6. ASSUME code = 200 PROVE AcceptedFine(at)
  <2>1. PICK types \in ScanRequests, delimiter \in BOOLEAN :
          request.validators = <<[name |-> "ScanForSuspiciousContent", limit |-> Missing,
                                  values |-> types, xml |-> request.files[1].type = "xml",
                                  delimiter |-> delimiter]>>
    BY <1>1 DEF RequestOK, ValidatorsFor, Uploads
  <2>2. DOMAIN request.validators = {1}
        /\ request.validators[1].name = "ScanForSuspiciousContent"
    BY <2>1
  <2>3. ScanForSuspiciousContent(request.validators[1], This, 0) = 200
    BY <1>4, <1>6
  <2>4. FileCheck(request.validators[1], This, 0) = 200
    BY <2>2, <2>3 DEF FileCheck
  <2> QED
    BY <1>1, <1>3, <2>2, <2>4 DEF AcceptedFine, This
<1> QED
  BY <1>1, <1>2, <1>3, <1>4, <1>5, <1>6, SettleVerdict

THEOREM VerdictInvariance == ASSUME OneScan PROVE Spec => []VerdictInv
<1>1. PipelineInv /\ VerdictInv /\ [Next]_vars => VerdictInv'
  <2> SUFFICES ASSUME PipelineInv, VerdictInv, [Next]_vars PROVE VerdictInv'
    OBVIOUS
  <2>1. CASE UNCHANGED vars
    <3>1. UNCHANGED <<request, pc, at, next, place, errors, outcome, reported, approved>>
      BY <2>1 DEF vars
    <3>2. AcceptedPassesAll'
      BY <3>1, SameQuestions, VerdictsByFile, VerdictsByFileAfter DEF VerdictInv
    <3>3. \A i : Judged(i)' <=> Judged(i)
      BY <3>1 DEF Judged
    <3>4. BreakdownIs500'
      BY <3>1, <3>3, SameQuestions, VerdictsByFile, VerdictsByFileAfter DEF VerdictInv
    <3>5. LastRun(at)' = LastRun(at)
      BY <3>1 DEF LastRun, CodeOf
    <3>6. RunSoFar' = RunSoFar
      BY <3>1, <3>5 DEF RunSoFar
    <3>7. /\ ErrorsUpTo(at, LastRun(at))' = ErrorsUpTo(at, LastRun(at))
          /\ ErrorsUpTo(at, RunSoFar)' = ErrorsUpTo(at, RunSoFar)
          /\ ListsFailures(errors, at, RunSoFar)' <=> ListsFailures(errors, at, RunSoFar)
      BY <3>1, <3>5, <3>6 DEF ErrorsUpTo, CodeOf, ListsFailures, Failing
    <3>8. ToSet(errors)' = ToSet(errors)
      BY <3>1
    <3>9. LoopsOK'
      BY <3>1, <3>5, <3>7, <3>8 DEF VerdictInv, LoopsOK, CollectionPassed
    <3>10. FailuresAllReported'
      BY <3>1, <3>3, SameReports, VerdictsByFile DEF VerdictInv
    <3> QED
      BY <3>2, <3>4, <3>9, <3>10 DEF VerdictInv
  <2> QED
    BY <2>1, CollectionVerdict, HeadersVerdict, MandatoryVerdict, ScanVerdict, ConfiguredVerdict,
       ChecksumVerdict, SaveVerdict, CleanVerdict, ScanOnlyVerdict DEF Next, Quiesce
<1> QED
  BY <1>1, VerdictInit, PipelineInvariance, PTL DEF Spec

(* A file is accepted only if every check of all of it passes: for every set *)
(* of files and every configuration without a second text scan in a list.    *)
THEOREM AcceptedPassesAllAlways == ASSUME OneScan PROVE Spec => []AcceptedPassesAll
BY VerdictInvariance, PTL DEF VerdictInv

(* A file that passes the mandatory checks is answered 500 exactly when one  *)
(* of the client's checks that it met broke down: it raised, or it was the   *)
(* text scan's own 500.  Whatever else the file failed, and whatever the     *)
(* client configured (get_status_code_for_response).                         *)
THEOREM BreakdownIs500Always == ASSUME OneScan PROVE Spec => []BreakdownIs500
BY VerdictInvariance, PTL DEF VerdictInv

(* A file that passes the mandatory checks is told of all its own failures,  *)
(* each once and in the order of its validators, and of nothing that another *)
(* file of the request did (errors_found is new for every target).           *)
THEOREM FailuresAllReportedAlways == ASSUME OneScan PROVE Spec => []FailuresAllReported
BY VerdictInvariance, PTL DEF VerdictInv

=============================================================================
