------------------------- MODULE ValidationPipeline -------------------------
(***************************************************************************)
(* What happens to the bytes of an upload between its arrival and S3: the  *)
(* header check, the mandatory validators with the virus scan, the client's *)
(* configured validators, the checksum and the put.  Every step reads, or   *)
(* does not read, one shared stream whose position outlives the step        *)
(* (UploadFile.file); that position, the list of errors and the order of    *)
(* the checks are what can go wrong.  bulk_upload runs the client's         *)
(* collection validators once and then every file through the same steps.   *)
(* Two endpoints stop short of S3: virus_check_file after the virus scan,    *)
(* and scan_for_suspicious_content, which runs one text scan and no more.    *)
(*                                                                         *)
(* Bytes are abstracted to lines, and a line to the one check that objects  *)
(* to it.  The key, the audit record and S3's failures are the subject of   *)
(* DocumentStore.                                                           *)
(***************************************************************************)
EXTENDS Integers, SequencesExt

CONSTANTS
  Files,            \* the files clients send
  FileSpecs,        \* the lists of file validators clients configure
  CollectionSpecs,  \* the lists of collection validators clients configure
  ScanRequests,     \* the scan_types clients ask for, {} for none
  MaxFiles,         \* most files of one bulk upload
  None

(* text_checkers, in suspicious_content_validator's all_scan_types. *)
ScanTypes == {"sql_injection_check", "html_tag_check",
              "javascript_url_check", "excel_char_check"}

(* A line is plain, carries a virus, is no UTF-8, or alarms one text scan. *)
Lines == {"plain", "virus", "garbled"} \cup ScanTypes

(* get_ordered_validators((HaveFile, NoVirusFoundInFile)): the others in any *)
(* order, for all of them answer 400.                                        *)
FilenameValidators == {"NoUrlInFilename", "NoDirectoryPathInFilename",
                       "NoWindowsVolumeInFilename", "NoUnacceptableCharactersInFilename"}
MandatoryOrder == <<"HaveFile", "NoVirusFoundInFile">> \o SetToSeq(FilenameValidators)

Uploads   == {"upload", "bulk_upload"}
Endpoints == Uploads \cup {"virus_check_file", "scan_for_suspicious_content"}

(* continue_to_next_validator_on_fail *)
ContinuesOnFail == {"MaxFileSize", "MinFileSize", "AllowedFileExtensions",
                    "DisallowedFileExtensions", "AllowedMimetypes", "DisallowedMimetypes"}
FileValidators == ContinuesOnFail \cup {"ScanForSuspiciousContent"}
CollectionValidators == {"MaxFileCount", "MinFileCount", "MaxCombinedFileSize"}

(* An UploadFile: has it a name, what is wrong with the name, its extension, *)
(* its content type if the client sent one, its lines.  Its size is the      *)
(* number of lines: only a file with no name has none, and HaveFile is first. *)
IsFile(f) == /\ DOMAIN f = {"named", "faults", "ext", "type", "body"}
             /\ f.faults \subseteq FilenameValidators
             /\ f.body \in Seq(Lines)

(* A FileValidatorSpec or FileCollectionValidatorSpec.  limit stands for     *)
(* size, max_count, min_count and max_combined_size, Missing if the          *)
(* configuration does not name it; values for extensions, content_types and  *)
(* scan_types, {} if it does not; delimiter is whether csv.reader takes the   *)
(* one that is given.                                                        *)
Missing == -1
IsSpec(s) == /\ DOMAIN s = {"name", "limit", "values", "xml", "delimiter"}
             /\ s.limit \in Int /\ s.limit >= Missing
             /\ s.delimiter \in BOOLEAN

ASSUME FilesAssumption == \A f \in Files : IsFile(f)
ASSUME SpecsAssumption ==
  \A list \in FileSpecs \cup CollectionSpecs :
    list \in Seq(ToSet(list)) /\ \A i \in DOMAIN list : IsSpec(list[i])
ASSUME MaxFilesAssumption == MaxFiles \in Nat \ {0}

VARIABLES
  request,  \* what the client sent, where, and its configuration
  pc,
  at,       \* position of the file being handled
  next,     \* position of the next validator of the list being run
  place,    \* stream position of that file: lines read
  errors,   \* validate's errors_found
  approved, \* per file: the content clamd answered OK to
  checksum, \* per file: the content the checksum is of
  outcome,  \* per file: its status, 0 while there is none
  reported, \* per file: the codes in its detail
  saved     \* per file: the content S3 took

vars == <<request, pc, at, next, place, errors, approved, checksum, outcome, reported, saved>>

This == request.files[at]
Rest == SubSeq(This.body, place + 1, Len(This.body))

------------------------------------------------------------------------------
(* The validators.  Raised stands for an exception.                          *)
Raised == 0

(* HaveFile and the filename validators; NoVirusFoundInFile is ScanForVirus. *)
MandatoryCheck(name, f) ==
  IF (name = "HaveFile" /\ ~f.named) \/ name \in f.faults THEN 400 ELSE 200

MaxFileSize(f, size) ==
  CASE size <= 0 -> Raised [] size > 0 /\ Len(f.body) > size -> 413 [] OTHER -> 200

MinFileSize(f, size) ==
  CASE size <= 0 -> Raised [] size > 0 /\ Len(f.body) < size -> 400 [] OTHER -> 200

AllowedFileExtensions(f, extensions) ==
  CASE extensions = {} -> Raised [] f.ext \in extensions -> 200 [] OTHER -> 415

DisallowedFileExtensions(f, extensions) == IF f.ext \in extensions THEN 415 ELSE 200

AllowedMimetypes(f, types) ==
  CASE types = {}      -> Raised
    [] types # {} /\ f.type = None -> 400
    [] types # {} /\ f.type \in types -> 200
    [] OTHER -> 415

DisallowedMimetypes(f, types) ==
  CASE f.type = None -> 400 [] f.type \in types -> 415 [] OTHER -> 200

(* ScanForSuspiciousContent reads on from where the stream stands, line by   *)
(* line up to the first it objects to, and leaves the stream there.          *)
ScansOf(s) == CASE s.values # {} -> s.values
                [] s.values = {} /\ s.xml -> ScanTypes \ {"html_tag_check"}
                [] OTHER -> ScanTypes

Alarms(s, f, from) ==
  {i \in from + 1 .. Len(f.body) : f.body[i] \in ScansOf(s) \cup {"garbled"}}

(* Scan types it does not know are answered 400 and a delimiter csv.reader   *)
(* does not take 500, before anything is read; XML is not split, so there    *)
(* the delimiter does not matter.                                            *)
InvalidScanTypes(s) == ~(s.values \subseteq ScanTypes)
BadDelimiter(s) == ~s.xml /\ ~s.delimiter

ScanForSuspiciousContent(s, f, from) ==
  CASE InvalidScanTypes(s)                      -> 400
    [] ~InvalidScanTypes(s) /\ BadDelimiter(s) -> 500
    [] OTHER -> IF Alarms(s, f, from) # {} THEN 400 ELSE 200

PlaceAfterScan(s, f, from) ==
  CASE InvalidScanTypes(s) \/ BadDelimiter(s) -> from
    [] OTHER -> IF Alarms(s, f, from) # {} THEN Min(Alarms(s, f, from)) ELSE Len(f.body)

(* A file validator, called with a file whose stream stands at from.         *)
(* get_validator finds collection validators too; on a file they raise.      *)
FileCheck(s, f, from) ==
  CASE s.name = "MaxFileSize"              -> MaxFileSize(f, s.limit)
    [] s.name = "MinFileSize"              -> MinFileSize(f, s.limit)
    [] s.name = "AllowedFileExtensions"    -> AllowedFileExtensions(f, s.values)
    [] s.name = "DisallowedFileExtensions" -> DisallowedFileExtensions(f, s.values)
    [] s.name = "AllowedMimetypes"         -> AllowedMimetypes(f, s.values)
    [] s.name = "DisallowedMimetypes"      -> DisallowedMimetypes(f, s.values)
    [] s.name = "ScanForSuspiciousContent" -> ScanForSuspiciousContent(s, f, from)
    [] OTHER                               -> Raised

PlaceAfter(s, f, from) ==
  IF s.name = "ScanForSuspiciousContent" THEN PlaceAfterScan(s, f, from) ELSE from

(* A collection validator; a file validator raises on a list of files, but   *)
(* for the text scan that first finds its scan types invalid.                *)
CombinedSize(files) == MapThenSumSet(LAMBDA i : Len(files[i].body), DOMAIN files)

CollectionCheck(s, files) ==
  LET Fits(ok) == CASE s.limit = Missing -> Raised [] s.limit # Missing /\ ok -> 200 [] OTHER -> 422
  IN  CASE s.name = "MaxFileCount"        -> Fits(Len(files) <= s.limit)
        [] s.name = "MinFileCount"        -> Fits(Len(files) >= s.limit)
        [] s.name = "MaxCombinedFileSize" -> Fits(CombinedSize(files) <= s.limit)
        [] s.name = "ScanForSuspiciousContent" /\ InvalidScanTypes(s) -> 400
        [] OTHER                          -> Raised

(* get_status_code_for_response *)
StatusCodeForResponse(codes) ==
  CASE Cardinality(ToSet(codes)) = 1 -> codes[1]
    [] Cardinality(ToSet(codes)) > 1 /\ 500 \in ToSet(codes) -> 500
    [] OTHER -> 422

------------------------------------------------------------------------------
(* One turn of validate's loop with a validator that answered code: what is  *)
(* added to errors_found, and where the loop goes on.                        *)
(* Mistakes: an exception reported as the client's fault, or as it is. *)
ErrorAsClients(code) == IF code = Raised THEN 400 ELSE code
ErrorRaw(code) == code

ErrorOf(code) == IF code = Raised THEN 500 ELSE code
ErrorsAfter(code) == IF code = 200 THEN errors ELSE Append(errors, ErrorOf(code))
NextAfter(list, code) ==
  IF code # 200 /\ list[next].name \notin ContinuesOnFail THEN Len(list) + 1 ELSE next + 1

(* Mistake: errors_found as a default argument, shared by every call. *)
FreshShared == errors

(* validate starts with an empty list of errors, for every target.           *)
Fresh == <<>>

Start(stage) == pc' = stage /\ next' = 1 /\ errors' = Fresh

(* The file has its status: the handler raises it, or returns.  bulk_upload  *)
(* goes on with the next file, whose stream nobody has read.                 *)
Settle(code, codes) ==
  /\ outcome' = [outcome EXCEPT ![at] = code]
  /\ reported' = [reported EXCEPT ![at] = codes]
  /\ IF at < Len(request.files)
     THEN at' = at + 1 /\ place' = 0 /\ Start("headers")
     ELSE pc' = "done" /\ UNCHANGED <<at, place, next, errors>>

------------------------------------------------------------------------------
(* validate_file_collection, bulk_upload only.  Its error, or that of an     *)
(* unknown validator, is the answer to the whole request.                    *)
Reject(code) ==
  /\ outcome' = [i \in DOMAIN request.files |-> code]
  /\ pc' = "done"
  /\ UNCHANGED <<at, next, place, errors, reported>>

CollectionStep ==
  /\ pc = "collection"
  /\ LET list == request.collection IN
     \/ /\ next <= Len(list)
        /\ list[next].name \in FileValidators \cup CollectionValidators
        /\ LET code == CollectionCheck(list[next], request.files) IN
             errors' = ErrorsAfter(code) /\ next' = NextAfter(list, code)
        /\ UNCHANGED <<pc, at, place, outcome, reported>>
     \/ /\ next <= Len(list)
        /\ list[next].name \notin FileValidators \cup CollectionValidators
        /\ Reject(500)
     \/ /\ next > Len(list) /\ errors # <<>>
        /\ Reject(StatusCodeForResponse(errors))
     \/ /\ next > Len(list) /\ errors = <<>>
        /\ Start("headers")
        /\ UNCHANGED <<at, place, outcome, reported>>
  /\ UNCHANGED <<request, approved, checksum, saved>>

(* run_header_validators *)
CheckHeaders ==
  /\ pc = "headers"
  /\ IF request.hasLength
     THEN Start("mandatory") /\ UNCHANGED <<at, place, outcome, reported>>
     ELSE Settle(411, <<411>>)
  /\ UNCHANGED <<request, approved, checksum, saved>>

(* run_virus_check leaves out the validators of the name.                    *)
Selected == IF request.endpoint = "virus_check_file" THEN <<"HaveFile", "NoVirusFoundInFile">>
                                                     ELSE MandatoryOrder

(* run_selected_validators moves on, or to the client's validators.          *)
NextMandatory ==
  /\ IF next < Len(Selected) THEN next' = next + 1 /\ UNCHANGED <<pc, errors>>
     ELSE Start(IF request.endpoint = "virus_check_file" THEN "clean" ELSE "configured")
  /\ UNCHANGED <<at, outcome, reported>>

RunMandatory ==
  /\ pc = "mandatory" /\ Selected[next] # "NoVirusFoundInFile"
  /\ LET code == MandatoryCheck(Selected[next], This) IN
     IF code = 200 THEN NextMandatory /\ UNCHANGED place ELSE Settle(code, <<code>>)
  /\ UNCHANGED <<request, approved, checksum, saved>>

(* NoVirusFoundInFile reads the stream, has clamd scan what it read and      *)
(* rewinds.  clamd may answer something else (500), or the call may raise:   *)
(* nobody catches that, the file fails with 500.                             *)
ScanVerdicts(content) ==
  {IF \E i \in DOMAIN content : content[i] = "virus" THEN 400 ELSE 200, 500, Raised}

(* Mistake: no seek after the scan. *)
PlaceAfterVirusCheckUnrewound == Len(This.body)

PlaceAfterVirusCheck == 0

(* Mistake: a non-standard scan result taken for none. *)
PassesUnlessFound(code) == code \in {200, 500}

(* run_selected_validators stops at every status but 200. *)
PassesScan(code) == code = 200

ScanForVirus ==
  /\ pc = "mandatory" /\ Selected[next] = "NoVirusFoundInFile"
  /\ \E code \in ScanVerdicts(Rest) :
       \/ /\ PassesScan(code)
          /\ NextMandatory
          /\ place' = PlaceAfterVirusCheck
          /\ approved' = [approved EXCEPT ![at] = IF code = 200 THEN Rest ELSE None]
       \/ /\ ~PassesScan(code)
          /\ Settle(ErrorOf(code), <<ErrorOf(code)>>)
          /\ UNCHANGED approved
  /\ UNCHANGED <<request, checksum, saved>>

(* validate_file.  An unknown validator name is raised outside the try.      *)
ConfiguredStep ==
  /\ pc = "configured"
  /\ LET list == request.validators IN
     \/ /\ next <= Len(list)
        /\ list[next].name \in FileValidators \cup CollectionValidators
        /\ LET code == FileCheck(list[next], This, place) IN
             errors' = ErrorsAfter(code) /\ next' = NextAfter(list, code)
        /\ place' = PlaceAfter(list[next], This, place)
        /\ UNCHANGED <<pc, at, outcome, reported>>
     \/ /\ next <= Len(list)
        /\ list[next].name \notin FileValidators \cup CollectionValidators
        /\ Settle(500, <<500>>)
     \/ /\ next > Len(list) /\ errors # <<>>
        /\ Settle(StatusCodeForResponse(errors), errors)
     \/ /\ next > Len(list) /\ errors = <<>>
        /\ Start("checksum")
        /\ UNCHANGED <<at, place, outcome, reported>>
  /\ UNCHANGED <<request, approved, checksum, saved>>

(* get_file_checksum rewinds, digests to the end, and rewinds again.         *)
PlaceOfDigest == 0
PlaceAfterDigest(end) == 0

GetFileChecksum ==
  /\ pc = "checksum"
  /\ checksum' = [checksum EXCEPT ![at] = SubSeq(This.body, PlaceOfDigest + 1, Len(This.body))]
  /\ place' = PlaceAfterDigest(Len(This.body))
  /\ pc' = "save"
  /\ UNCHANGED <<request, at, next, errors, approved, outcome, reported, saved>>

(* upload_file_obj puts what is left of the stream; S3 refuses a body that   *)
(* does not have the checksum sent with it, and the handler answers 500.     *)
(* 200 stands for 200 and 201, saved or updated.                             *)
SaveFile ==
  /\ pc = "save"
  /\ IF Rest = checksum[at]
     THEN saved' = [saved EXCEPT ![at] = Rest] /\ Settle(200, <<>>)
     ELSE Settle(500, <<500>>) /\ UNCHANGED saved
  /\ UNCHANGED <<request, approved, checksum>>

(* virus_check_file: "No virus found". *)
AnswerClean ==
  /\ pc = "clean"
  /\ Settle(200, <<>>)
  /\ UNCHANGED <<request, approved, checksum, saved>>

(* scan_for_suspicious_content: a missing content type is not looked for.    *)
ScanOnly ==
  /\ pc = "scan"
  /\ LET code == IF This.type = None THEN 500
                 ELSE ScanForSuspiciousContent(request.validators[1], This, place)
     IN Settle(code, IF code = 200 THEN <<>> ELSE <<code>>)
  /\ UNCHANGED <<request, approved, checksum, saved>>

------------------------------------------------------------------------------
(* The list of validators that an endpoint runs for a file: the client's, or *)
(* the scan that was asked for, or none; XML is told by the content type.    *)
ValidatorsFor(endpoint, f) ==
  CASE endpoint \in Uploads -> FileSpecs
    [] endpoint = "scan_for_suspicious_content" ->
         {<<[name |-> "ScanForSuspiciousContent", limit |-> Missing, values |-> types,
             xml |-> f.type = "xml", delimiter |-> delimiter]>> :
           types \in ScanRequests, delimiter \in BOOLEAN}
    [] OTHER -> {<<>>}

FirstStep(endpoint) == CASE endpoint = "bulk_upload"                 -> "collection"
                         [] endpoint = "scan_for_suspicious_content" -> "scan"
                         [] OTHER                                    -> "headers"

Init ==
  /\ \E endpoint \in Endpoints, hasLength \in BOOLEAN, n \in 1 .. MaxFiles :
       \E files \in [1 .. n -> Files], collection \in CollectionSpecs :
         /\ endpoint = "bulk_upload" \/ (n = 1 /\ collection = <<>>)
         /\ endpoint = "scan_for_suspicious_content" => files[1].named
         /\ \E list \in ValidatorsFor(endpoint, files[1]) :
              request = [endpoint |-> endpoint, hasLength |-> hasLength, files |-> files,
                         validators |-> list, collection |-> collection]
  /\ pc = FirstStep(request.endpoint)
  /\ at = 1 /\ next = 1 /\ place = 0 /\ errors = <<>>
  /\ approved = [i \in DOMAIN request.files |-> None]
  /\ checksum = [i \in DOMAIN request.files |-> None]
  /\ outcome = [i \in DOMAIN request.files |-> 0]
  /\ reported = [i \in DOMAIN request.files |-> <<>>]
  /\ saved = [i \in DOMAIN request.files |-> None]

Quiesce == pc = "done" /\ UNCHANGED vars

Next == \/ CollectionStep \/ CheckHeaders \/ RunMandatory \/ ScanForVirus
        \/ ConfiguredStep \/ GetFileChecksum \/ SaveFile
        \/ AnswerClean \/ ScanOnly \/ Quiesce

Spec == Init /\ [][Next]_vars

------------------------------------------------------------------------------
Codes == {200, 400, 411, 413, 415, 422, 500}

TypeOK ==
  /\ pc \in {"collection", "headers", "mandatory", "configured", "checksum", "save",
             "clean", "scan", "done"}
  /\ at \in DOMAIN request.files
  /\ next \in Nat \ {0}
  /\ place \in 0 .. Len(This.body)
  /\ errors \in Seq(Codes \ {200})
  /\ outcome \in [DOMAIN request.files -> Codes \cup {0}]
  /\ reported \in [DOMAIN request.files -> Seq(Codes \ {200})]
  /\ {approved, checksum, saved} \subseteq [DOMAIN request.files -> {None} \cup Seq(Lines)]

(* A file is accepted only if every check of it, given the whole file, would *)
(* pass, and every check of the collection: the mandatory ones, the scan and *)
(* all that the client configured.  The endpoints that only check accept a   *)
(* file only if their checks of the whole file would pass.                   *)
AcceptedPassesAll ==
  \A i \in DOMAIN request.files : outcome[i] = 200 =>
    LET f == request.files[i] IN
      /\ f.named
      /\ request.endpoint \in Uploads => f.faults = {}
      /\ request.endpoint # "scan_for_suspicious_content" =>
           request.hasLength /\ \A j \in DOMAIN f.body : f.body[j] # "virus"
      /\ \A k \in DOMAIN request.validators : FileCheck(request.validators[k], f, 0) = 200
      /\ \A k \in DOMAIN request.collection :
           CollectionCheck(request.collection[k], request.files) = 200

(* No client validator sees a file, and S3 stores nothing, that clamd has    *)
(* not approved in full, and the checksum the client is given is of just     *)
(* what was stored ("must run before client-specific validation",            *)
(* run_initial_file_checks).                                                 *)
ScannedFirst ==
  /\ pc \in {"configured", "checksum", "save"} => approved[at] = This.body
  /\ \A i \in DOMAIN request.files : saved[i] # None =>
       /\ saved[i] = request.files[i].body
       /\ saved[i] = approved[i]
       /\ saved[i] = checksum[i]

(* What the configured validators say of the whole file i, one after the     *)
(* other up to the first failure that does not let the next one run.         *)
CodeOf(i, k) == FileCheck(request.validators[k], request.files[i], 0)

LastRun(i) ==
  LET stops == {k \in DOMAIN request.validators :
                  CodeOf(i, k) # 200 /\ request.validators[k].name \notin ContinuesOnFail}
  IN  IF stops = {} THEN Len(request.validators) ELSE Min(stops)

(* The failures among the first n, and the list that has the code of each,   *)
(* in their order and no more: 500 for a validator that could not be run.    *)
Failing(i, n) == {k \in 1 .. n : CodeOf(i, k) # 200}

ListsFailures(codes, i, n) ==
  /\ Len(codes) = Cardinality(Failing(i, n))
  /\ \A k \in Failing(i, n) :
       codes[Cardinality(Failing(i, k))] = IF CodeOf(i, k) = Raised THEN 500 ELSE CodeOf(i, k)

AllKnown == \A k \in DOMAIN request.validators :
              request.validators[k].name \in FileValidators \cup CollectionValidators

(* The upload of file i has its answer, and its mandatory checks passed.     *)
Judged(i) == /\ request.endpoint \in Uploads /\ outcome[i] # 0
             /\ approved[i] # None /\ request.files[i].faults = {}

(* A file that passes the mandatory checks is refused only with its own      *)
(* failures, all of them and in order, whatever happened to the file before  *)
(* it in the request; a file with none is accepted.                          *)
FailuresAllReported ==
  \A i \in DOMAIN request.files :
    (AllKnown /\ Judged(i))
      => /\ ListsFailures(reported[i], i, LastRun(i))
         /\ outcome[i] = 200 <=> Failing(i, LastRun(i)) = {}

(* What breaks down is the service's own: a check raised, or the text scan   *)
(* met an exception it did not expect and said 500 itself.  Scan types that  *)
(* do not exist are none of it: the scan answers them 400, as its            *)
(* documentation says, also where the client's configuration names them.     *)
BrokeDown(i) == \E k \in 1 .. LastRun(i) : CodeOf(i, k) \in {Raised, 500}

(* A file that passes the mandatory checks is answered 500 exactly when one  *)
(* of the client's checks that it met broke down, whatever else the file     *)
(* failed: what validate collects and get_status_code_for_response sums up   *)
(* neither hides a breakdown behind the file's own failures nor calls those  *)
(* a breakdown.                                                              *)
BreakdownIs500 ==
  \A i \in DOMAIN request.files :
    Judged(i) => (outcome[i] = 500 <=> BrokeDown(i))

==============================================================================
