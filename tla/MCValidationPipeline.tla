------------------------ MODULE MCValidationPipeline ------------------------
(* Instances of ValidationPipeline: one file per way of failing, one list of *)
(* validators per way the loop can go.                                       *)
EXTENDS ValidationPipeline

File(body) == [named |-> TRUE, faults |-> {}, ext |-> "csv", type |-> "text", body |-> body]

MCFiles ==
  {File(<<"plain", "plain">>),
   File(<<"plain", "virus">>),
   File(<<"plain", "sql_injection_check", "plain">>),
   File(<<"garbled">>),
   [File(<<"html_tag_check">>) EXCEPT !.ext = "xml", !.type = "xml"],
   [File(<<>>) EXCEPT !.type = None],
   [File(<<"plain">>) EXCEPT !.faults = {"NoUrlInFilename"}],
   [File(<<"plain">>) EXCEPT !.named = FALSE]}

V(name, limit, values) ==
  [name |-> name, limit |-> limit, values |-> values, xml |-> FALSE, delimiter |-> TRUE]
Max2 == V("MaxFileSize", 2, {})
Min1 == V("MinFileSize", 1, {})
Csv == V("AllowedFileExtensions", Missing, {"csv"})
Text == V("AllowedMimetypes", Missing, {"text"})
Scan(values) == V("ScanForSuspiciousContent", Missing, values)

MCFileSpecs ==
  {<<>>,
   <<Max2, Csv>>,
   <<Min1, Text, Scan({})>>,
   <<Scan({"sql_injection_check"}), Max2>>,
   <<[Scan({}) EXCEPT !.xml = TRUE, !.delimiter = FALSE]>>,
   <<V("DisallowedFileExtensions", Missing, {"csv"}), [Scan({}) EXCEPT !.delimiter = FALSE]>>,
   <<V("MaxFileSize", 0, {}), Csv, Scan({"unknown_check"})>>,
   <<V("DisallowedFileExtensions", Missing, {"csv"}),
     V("DisallowedMimetypes", Missing, {"text"}), V("MaxFileSize", 1, {})>>,
   <<V("AllowedFileExtensions", Missing, {}), V("AllowedMimetypes", Missing, {}), Text>>,
   <<Csv, V("MaxFileCount", 1, {}), Max2>>,
   <<Max2, V("NoSuchValidator", Missing, {})>>}

MCScanRequests == {{}, {"sql_injection_check"}, {"html_tag_check", "unknown_check"}}

MCCollectionSpecs ==
  {<<>>,
   <<V("MaxFileCount", 1, {})>>,
   <<V("MinFileCount", 2, {}), V("MaxCombinedFileSize", 3, {})>>,
   <<V("MaxCombinedFileSize", 3, {}), V("MaxFileCount", Missing, {})>>,
   <<Max2, Scan({"unknown_check"})>>,
   <<V("MaxFileCount", 2, {}), V("NoSuchValidator", Missing, {})>>}

(* Two scans in one list, each for a hazard of its own. *)
TwoScans == {<<Scan({"sql_injection_check"}), Scan({"html_tag_check"})>>}

NoCollectionSpecs == {<<>>}
==============================================================================
