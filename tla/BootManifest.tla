----------------------------- MODULE BootManifest -----------------------------
(***************************************************************************)
(* BootManifestVerifier (OBC/Components/BootManager): the decision whether *)
(* the manifest beside a staged image lets that image be activated.  A     *)
(* manifest is abstracted to its target slot, its version and the first    *)
(* thing that is wrong with it besides those two, if any: digests, keys    *)
(* and signatures either match or do not.                                  *)
(***************************************************************************)
EXTENDS Naturals, Sequences

\* The order in which parseManifest looks at the file.  The fields are filled
\* in as they are read, so a manifest that fails late has given its version.
ParseOrder == <<"lines", "keys", "schema", "size", "digest", "slot", "version",
                "key_slot", "algorithm", "signature">>

ParseDefects == {ParseOrder[i] : i \in 1 .. Len(ParseOrder)}

\* What the file says may also disagree with the image, the trusted signer or
\* the signature computed with the trusted key.
Defects == {"none", "absent", "image_path", "image_size", "image_digest", "signer", "mac"}
           \cup ParseDefects

Manifests(versions) == [defect : Defects, slot : {"A", "B"}, version : versions]

\* readFile: there is one, of at most MAX_MANIFEST_BYTES bytes.
ReadFile(man) == man.defect # "absent"

\* parseManifest: version 0 is malformed, too.
Parses(man) == man.defect \notin ParseDefects /\ man.version # 0

\* BootManifestDecision::manifest.softwareVersion, whatever the decision.
ReadVersion(man) ==
  IF ~ReadFile(man) \/ \E i \in 1 .. 7 : man.defect = ParseOrder[i] THEN 0 ELSE man.version

\* validateConfig: signer, key slot and algorithm are the configured ones.
SignerKnown(man) == man.defect # "signer"

\* computeBootManifestSignatureHex over the canonical payload, compared.
SignatureValid(man) == man.defect # "mac"

\* verifyBootManifestFile, check by check.
Checks(man, slot, floor) ==
  << <<"MANIFEST_MISSING", ReadFile(man)>>,
     <<"MANIFEST_MALFORMED", Parses(man)>>,
     <<"IMAGE_PATH_MISMATCH", man.defect # "image_path">>,
     <<"SIZE_MISMATCH", man.defect # "image_size">>,
     <<"DIGEST_MISMATCH", man.defect # "image_digest">>,
     <<"TARGET_SLOT_MISMATCH", man.slot = slot>>,
     <<"VERSION_DOWNGRADE", man.version > floor>>,
     <<"SIGNER_UNKNOWN", SignerKnown(man)>>,
     <<"SIGNATURE_INVALID", SignatureValid(man)>> >>

Accepts(man, slot, floor) == \A i \in 1 .. 9 : Checks(man, slot, floor)[i][2]
===============================================================================
