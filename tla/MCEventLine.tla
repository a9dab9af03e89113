---------------------------- MODULE MCEventLine ----------------------------
(***************************************************************************)
(* The calls an event line goes through: the surrogate scan, the strict    *)
(* decoding, the schema of its stream, the digest; the manifest that names *)
(* its source; and the generator of fixture lines.  Each call is checked   *)
(* on inputs of its own, chosen in the initial state; the others have      *)
(* returned from a trivial one.                                            *)
(***************************************************************************)
EXTENDS SurrogateScan, MCStrictJSON, MCCanonicalJSON, MCEventContract, MCManifest,
        MCFixtureGen

Scanned == data = <<>> /\ i = 1 /\ inString = FALSE /\ verdict = "pass"
DecodedAlready ==
  /\ text = "scalars" /\ document = <<>> /\ answer = <<Failed>>
  /\ dec = Start(<<>>) /\ calls = <<Call("document")>> /\ stage = "value"
Digested ==
  LET null == [literal |-> <<110, 117, 108, 108>>]
  IN  first = null /\ second = null /\ firstText = null.literal /\ secondText = null.literal
Parsed ==
  /\ line = Line(1, FALSE, "refused", <<>>) /\ limit = 0 /\ profile = "WatcherInput"
  /\ result = <<Refused>>
Configured ==
  /\ stream = <<>> /\ entries = <<>> /\ taken = 0 /\ seen = {} /\ monitors = <<>>
  /\ status = "error"
Generated ==
  /\ call = "stream" /\ validSlug = FALSE /\ lineBytes = 1 /\ size = 0
  /\ events = 0 /\ total = 0 /\ crossed = FALSE /\ round = 0
  /\ reached = 0 /\ output = <<>> /\ outcome = "error"

Init ==
  \/ ScanInit /\ DecodedAlready /\ Digested /\ Parsed /\ Configured /\ Generated
  \/ Scanned /\ DecodeInit /\ Digested /\ Parsed /\ Configured /\ Generated
  \/ Scanned /\ DecodedAlready /\ DigestInit /\ Parsed /\ Configured /\ Generated
  \/ Scanned /\ DecodedAlready /\ Digested /\ ParseInit /\ Configured /\ Generated
  \/ Scanned /\ DecodedAlready /\ Digested /\ Parsed /\ ManifestInit /\ Generated
  \/ Scanned /\ DecodedAlready /\ Digested /\ Parsed /\ Configured /\ GenerateInit

Next ==
  \/ /\ ScanNext
     /\ UNCHANGED <<decodeVars, digestVars, parseVars, manifestVars, generateVars>>
  \/ /\ DecodeNext
     /\ UNCHANGED <<scanVars, digestVars, parseVars, manifestVars, generateVars>>
  \/ /\ DigestNext
     /\ UNCHANGED <<scanVars, decodeVars, parseVars, manifestVars, generateVars>>
  \/ /\ Parse
     /\ UNCHANGED <<scanVars, decodeVars, digestVars, manifestVars, generateVars>>
  \/ /\ ManifestNext
     /\ UNCHANGED <<scanVars, decodeVars, digestVars, parseVars, generateVars>>
  \/ /\ Generate
     /\ UNCHANGED <<scanVars, decodeVars, digestVars, parseVars, manifestVars>>

Spec ==
  Init /\ [][Next]_<<scanVars, decodeVars, digestVars, parseVars, manifestVars, generateVars>>
=============================================================================
