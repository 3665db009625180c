---------------------------- MODULE PolicyBundle ----------------------------
(***************************************************************************)
(* PolicyBundleVerifier (policy-bundle-verifier.ts): the policies on disk  *)
(* are compared with a manifest that a maintainer signed.  Policies and    *)
(* manifest are files that others may write while they are read, one file  *)
(* after the other.                                                        *)
(*                                                                         *)
(* A content stands for its digest.  A manifest is a sequence of [path,    *)
(* sha256], in any order and possibly with a path twice.  A signature is   *)
(* the key that made it and the payload it is over.                        *)
(***************************************************************************)
EXTENDS Integers, Sequences, FiniteSets, Selection

CONSTANTS
    NumPaths,           \* the paths are 1 .. NumPaths, in their order
    Policy,             \* what a policy file can hold
    Manifests,          \* what the manifest file can hold, besides nothing and garbage
    Signers,            \* keys
    MaxWrites           \* bound on the writes of others

Paths == 1 .. NumPaths
Entry(path, sha) == [path |-> path, sha256 |-> sha]
Files == [path : Nat, sha256 : Policy]

ASSUME BundleAssumption ==
    /\ NumPaths \in Nat /\ MaxWrites \in Nat
    /\ \A m \in Manifests : m \in Seq(Files)

VARIABLES
    policies,           \* the policy files: path to content, "absent" if there is none
    manifestFile,       \* [at, files], at in "missing", "malformed", "present"
    signature,          \* [at, key, payload], at in "missing", "malformed", "present"
    trustedSigners,
    writes,             \* number of writes by others
    reading,            \* "idle", "reading", "read", "done"
    listed,             \* the paths found and not read yet
    live,               \* what was read
    bundle              \* what verify() returned: [verified, errors, signer]

bundleVars == <<policies, manifestFile, signature, trustedSigners, writes, reading,
                listed, live, bundle>>

-----------------------------------------------------------------------------
(* canonicalizeManifest(): the entries by path; entries of one path keep   *)
(* their order.                                                            *)
NotAfter(files, i, j) ==
    \/ files[i].path < files[j].path
    \/ files[i].path = files[j].path /\ i <= j

ByPath(files, places) == {r \in places \X places : NotAfter(files, r[1], r[2])}

CanonicalizeManifest(files) ==
    LET order == Sorted(DOMAIN files, ByPath(files, DOMAIN files))
    IN  [k \in DOMAIN files |-> files[order[k]]]

(* The map that diffManifests() builds: of two entries the later one counts. *)
AsMap(files) ==
    [p \in {files[i].path : i \in DOMAIN files} |->
        LET last == CHOOSE i \in DOMAIN files :
                        files[i].path = p /\ \A j \in DOMAIN files : files[j].path = p => j <= i
        IN  files[last].sha256]

NotVerified == [verified |-> FALSE, errors |-> {}, signer |-> "none"]

BundleInit ==
    /\ policies \in [Paths -> Policy \union {"absent"}]
    /\ \E m \in Manifests : manifestFile = [at |-> "present", files |-> m]
    /\ \E m \in Manifests, k \in Signers, at \in {"missing", "malformed", "present"} :
          signature = [at |-> at, key |-> k, payload |-> CanonicalizeManifest(m)]
    /\ trustedSigners \in SUBSET Signers
    /\ writes = 0 /\ reading = "idle" /\ listed = {} /\ live = <<>>
    /\ bundle = NotVerified

(* Somebody writes or removes a policy file, or the manifest. *)
WritePolicy(p, c) ==
    /\ writes < MaxWrites /\ policies[p] # c /\ reading # "done"
    /\ policies' = [policies EXCEPT ![p] = c]
    /\ writes' = writes + 1
    /\ UNCHANGED <<manifestFile, signature, trustedSigners, reading, listed, live, bundle>>

WriteManifest(at, m) ==
    /\ writes < MaxWrites /\ reading # "done"
    /\ manifestFile' = [at |-> at, files |-> m]
    /\ writes' = writes + 1
    /\ UNCHANGED <<policies, signature, trustedSigners, reading, listed, live, bundle>>

-----------------------------------------------------------------------------
Fails(errors) ==
    /\ reading' = "done"
    /\ bundle' = [NotVerified EXCEPT !.errors = errors]

(* collectBundleFiles(): without a policy verify() ends at once. *)
CollectBundleFiles ==
    /\ reading = "idle"
    /\ listed' = {p \in Paths : policies[p] # "absent"}
    /\ IF listed' = {} THEN Fails({"EmptyBundle"}) ELSE reading' = "reading" /\ UNCHANGED bundle
    /\ UNCHANGED <<policies, manifestFile, signature, trustedSigners, writes, live>>

(* computeBundleManifest(): the files one by one; one that is gone ends    *)
(* verify() with an error of an odd code.                                  *)
ReadNext ==
    /\ reading = "reading"
    /\ LET p == CHOOSE p \in listed : \A q \in listed : p <= q
       IN  IF policies[p] = "absent"
              THEN Fails({"ManifestMalformed"}) /\ UNCHANGED <<listed, live>>
              ELSE /\ live' = Append(live, Entry(p, policies[p]))
                   /\ listed' = listed \ {p}
                   /\ reading' = IF listed' = {} THEN "read" ELSE "reading"
                   /\ UNCHANGED bundle
    /\ UNCHANGED <<policies, manifestFile, signature, trustedSigners, writes>>

\* Slip: a file that the manifest lists and the disk lacks is no drift.
DriftedUnlessRemoved(files) ==
    \E p \in DOMAIN AsMap(live) :
        p \notin DOMAIN AsMap(files) \/ AsMap(files)[p] # AsMap(live)[p]

(* diffManifests(): a path added, removed or modified. *)
Drifted(files) == AsMap(live) # AsMap(files)

(* verifySignature(): the trusted signer the signature is from, or why     *)
(* there is none.                                                          *)
SignatureError(files) ==
    IF signature.at = "missing" THEN "SignatureMissing"
    ELSE IF trustedSigners = {} THEN "NoTrustedSigners"
    ELSE IF signature.at = "malformed" THEN "SignatureMalformed"
    ELSE IF signature.key \in trustedSigners /\ signature.payload = CanonicalizeManifest(files)
         THEN "none"
    ELSE "SignatureInvalid"

(* verify(): the manifest is read, and everything is compared. *)
Verify ==
    LET files == manifestFile.files
        errors == IF manifestFile.at = "missing" THEN {"ManifestMissing"}
                  ELSE IF manifestFile.at = "malformed" THEN {"ManifestMalformed"}
                  ELSE (IF Drifted(files) THEN {"BundleTampered"} ELSE {})
                       \union ({SignatureError(files)} \ {"none"})
    IN  /\ reading = "read"
        /\ reading' = "done"
        /\ bundle' = [verified |-> errors = {}, errors |-> errors,
                      signer |-> IF errors = {} THEN signature.key ELSE "none"]
        /\ UNCHANGED <<policies, manifestFile, signature, trustedSigners, writes, listed, live>>

BundleNext ==
    \/ \E p \in Paths, c \in Policy \union {"absent"} : WritePolicy(p, c)
    \/ \E at \in {"missing", "malformed", "present"}, m \in Manifests : WriteManifest(at, m)
    \/ CollectBundleFiles \/ ReadNext \/ Verify

BundleSpec == BundleInit /\ [][BundleNext]_bundleVars

-----------------------------------------------------------------------------
(* Whatever is written to the policies and the manifest meanwhile, a       *)
(* bundle that is found verified was read exactly as a trusted signer      *)
(* signed it: the files that were read are those of the signed payload,    *)
(* with the digests it gives, none more and none less.                     *)
VerifiedIsSigned ==
    bundle.verified =>
        /\ signature.at = "present" /\ signature.key \in trustedSigners
        /\ AsMap(live) = AsMap(signature.payload)
=============================================================================
