----------------------------- MODULE Stage3Runner -----------------------------
(***************************************************************************)
(* Stage3Service and its _Stage3Runner (gest/backend/stage3.py): download a  *)
(* stage3 tarball, fetch its signature, verify its hashes, ask gpg, unpack.  *)
(* The service does not refuse a second Unpack while one is streaming, so    *)
(* the module runs several requests at once, each with a runner and a work   *)
(* directory of its own under a target root they may share.                  *)
(*                                                                         *)
(* A tarball is what a download left in the work directory: "none", "cut"    *)
(* (shorter than published), "other" (whole, but not the published bytes)    *)
(* or "good".  Hashes are taken to tell these apart.                         *)
(***************************************************************************)
EXTENDS Integers, FiniteSets

CONSTANTS
    Requests,   \* the Unpack calls
    Roots,      \* the target roots
    SafeRoots,  \* those mount.guard_target_root accepts
    HasGpg      \* gpg is installed

ASSUME RootsAssumption == SafeRoots \subseteq Roots

Algorithms == {"BLAKE2B", "SHA512"}
Contents == {"none", "cut", "other", "good"}

VARIABLES
    phase,     \* per request: the command that runs, or "called" | "refused" |
               \* "done"; "lost": nobody waits for it; "orphaned": its tar runs on
    root,      \* its target root
    httpSig,   \* its signature URL is http(s)
    digests,   \* per algorithm, whose hash .DIGESTS lists: "good", "other", or "none"
    tarball,   \* the file in the work directory
    sig,       \* _sig_downloaded
    workdir,   \* the work directory exists
    code,      \* Finished's exit code
    finished,  \* number of Finished signals
    target     \* what has been unpacked into each root: set of <<content, whole>>

stage3Vars == <<phase, root, httpSig, digests, tarball, sig, workdir, code, finished, target>>

Spawned == {"download", "sig", "gpg", "unpack"}
Phases == Spawned \cup {"called", "refused", "done", "lost", "orphaned"}

Stage3TypeOK ==
    /\ phase \in [Requests -> Phases]
    /\ root \in [Requests -> Roots]
    /\ httpSig \in [Requests -> BOOLEAN]
    /\ digests \in [Requests -> [Algorithms -> {"good", "other", "none"}]]
    /\ tarball \in [Requests -> Contents]
    /\ sig \in [Requests -> BOOLEAN]
    /\ workdir \in [Requests -> BOOLEAN]
    /\ code \in [Requests -> {0, 1}]
    /\ finished \in [Requests -> Nat]
    /\ target \in [Roots -> SUBSET (Contents \X BOOLEAN)]

Stage3Init ==
    /\ phase = [r \in Requests |-> "called"]
    /\ root \in [Requests -> Roots]
    /\ httpSig \in [Requests -> BOOLEAN]
    /\ digests \in [Requests -> [Algorithms -> {"good", "other", "none"}]]
    /\ tarball = [r \in Requests |-> "none"]
    /\ sig = [r \in Requests |-> FALSE]
    /\ workdir = [r \in Requests |-> FALSE]
    /\ code = [r \in Requests |-> 0]
    /\ finished = [r \in Requests |-> 0]
    /\ target = [x \in Roots |-> {}]

inputs == <<root, httpSig, digests>>

-----------------------------------------------------------------------------
\* _run: a command that cannot be spawned raises, in start or in the callback
\* of the command before; nobody catches it, and the runner is not heard of
\* again.
Run(r, command) ==
    phase' \in {[phase EXCEPT ![r] = command], [phase EXCEPT ![r] = "lost"]}

\* _on_call: polkit, the confinement of the target root and the URL scheme
\* come first; then the runner makes its work directory, which may raise too,
\* and downloads.
Unpack(r) ==
    /\ phase[r] = "called"
    /\ \/ /\ phase' = [phase EXCEPT ![r] = "refused"]
          /\ UNCHANGED workdir
       \/ /\ root[r] \in SafeRoots
          /\ phase' = [phase EXCEPT ![r] = "lost"]
          /\ UNCHANGED workdir
       \/ /\ root[r] \in SafeRoots
          /\ Run(r, "download")
          /\ workdir' = [workdir EXCEPT ![r] = TRUE]
    /\ UNCHANGED <<inputs, tarball, sig, code, finished, target>>

\* Mutant: a run that fails is cleaned up but not announced.
Finish_silent(r, c) ==
    /\ phase' = [phase EXCEPT ![r] = "done"]
    /\ workdir' = [workdir EXCEPT ![r] = FALSE]
    /\ tarball' = [tarball EXCEPT ![r] = "none"]
    /\ code' = [code EXCEPT ![r] = c]
    /\ finished' = [finished EXCEPT ![r] = IF c = 0 THEN @ + 1 ELSE @]

\* _finish: the work directory goes, then Finished is sent.
Finish(r, c) ==
    /\ phase' = [phase EXCEPT ![r] = "done"]
    /\ workdir' = [workdir EXCEPT ![r] = FALSE]
    /\ tarball' = [tarball EXCEPT ![r] = "none"]
    /\ code' = [code EXCEPT ![r] = c]
    /\ finished' = [finished EXCEPT ![r] = @ + 1]

\* verify.parse_digests: the algorithms .DIGESTS lists for this file.
Expected(r) == {a \in Algorithms : digests[r][a] # "none"}

\* Mutant: any one matching hash is enough.
Verified_any(r, content) ==
    \E a \in Expected(r) : digests[r][a] = content

\* verify.verify_hashes, and the refusal of a file with no digest.
Verified(r, content) ==
    /\ Expected(r) # {}
    /\ \A a \in Expected(r) : digests[r][a] = content

\* _verify_hashes and the part of _gpg_verify before a command is run, with
\* the tarball as the download left it.
VerifyHashes(r, content, signature) ==
    \* no digest, a mismatch, or a tarball that cannot be read
    \/ /\ Finish(r, 1)
       /\ UNCHANGED sig
    \/ /\ Verified(r, content)
       /\ Run(r, IF signature /\ HasGpg THEN "gpg" ELSE "unpack")
       /\ sig' = [sig EXCEPT ![r] = signature]
       /\ tarball' = [tarball EXCEPT ![r] = content]
       /\ UNCHANGED <<workdir, code, finished>>

\* _after_download: a failed download, or a missing file, ends the run.
AfterDownload(r) ==
    /\ phase[r] = "download"
    /\ \E c \in {0, 1}, content \in Contents :
        \/ /\ c # 0 \/ content = "none"
           /\ Finish(r, 1)
           /\ UNCHANGED sig
        \/ /\ c = 0 /\ content # "none"
           /\ httpSig[r]
           /\ Run(r, "sig")
           /\ tarball' = [tarball EXCEPT ![r] = content]
           /\ UNCHANGED <<sig, workdir, code, finished>>
        \/ /\ c = 0 /\ content # "none"
           /\ ~httpSig[r]
           /\ VerifyHashes(r, content, FALSE)
    /\ UNCHANGED <<inputs, target>>

\* _after_sig: a missing signature is not fatal.
AfterSig(r) ==
    /\ phase[r] = "sig"
    /\ \E downloaded \in BOOLEAN : VerifyHashes(r, tarball[r], downloaded)
    /\ UNCHANGED <<inputs, target>>

\* _after_gpg: advisory, whatever gpg says.
AfterGpg(r) ==
    /\ phase[r] = "gpg"
    /\ Run(r, "unpack")
    /\ UNCHANGED <<inputs, tarball, sig, workdir, code, finished, target>>

\* tar writes into the target from its start on; an orphaned one to its end.
Extract(r) ==
    /\ phase[r] \in {"unpack", "orphaned"}
    /\ \E whole \in BOOLEAN :
        /\ whole => phase[r] = "orphaned"
        /\ target' = [target EXCEPT ![root[r]] = @ \cup {<<tarball[r], whole>>}]
    /\ target' # target
    /\ UNCHANGED <<inputs, phase, tarball, sig, workdir, code, finished>>

\* Mutant: tar's exit status is not reported.
AfterUnpack_ok(r) ==
    /\ phase[r] = "unpack"
    /\ \E c \in {0, 1} :
        target' = [target EXCEPT ![root[r]] = @ \cup {<<tarball[r], c = 0>>}]
    /\ Finish(r, 0)
    /\ UNCHANGED <<inputs, sig>>

\* _after_unpack.
AfterUnpack(r) ==
    /\ phase[r] = "unpack"
    /\ \E c \in {0, 1} :
        /\ target' = [target EXCEPT ![root[r]] = @ \cup {<<tarball[r], c = 0>>}]
        /\ Finish(r, c)
    /\ UNCHANGED <<inputs, sig>>

Step(r) ==
    \/ Unpack(r) \/ AfterDownload(r) \/ AfterSig(r) \/ AfterGpg(r)
    \/ Extract(r) \/ AfterUnpack(r)

\* SoftwareService._idle_check: the process that also unpacks leaves when
\* package management is idle, and knows nothing of these runners.
ServiceExits ==
    /\ \E r \in Requests : phase[r] \in Spawned
    /\ phase' = [r \in Requests |-> IF phase[r] = "unpack" THEN "orphaned"
                                   ELSE IF phase[r] \in Spawned THEN "lost" ELSE phase[r]]
    /\ UNCHANGED <<inputs, tarball, sig, workdir, code, finished, target>>

Stage3Next == (\E r \in Requests : Step(r)) \/ ServiceExits

Stage3Spec == Stage3Init /\ [][Stage3Next]_stage3Vars
\* Every command the runner starts ends, and the loop runs its callback.
Callback(r) == Unpack(r) \/ AfterDownload(r) \/ AfterSig(r) \/ AfterGpg(r) \/ AfterUnpack(r)
Stage3Fair == \A r \in Requests : WF_stage3Vars(Callback(r))

-----------------------------------------------------------------------------
\* Nothing reaches a target root that does not match every hash some request
\* for that root listed, whatever order the downloads, the signature and gpg
\* come in ("Hash verification is mandatory and runs before any unpack").
OnlyVerifiedUnpacked ==
    \A x \in Roots : \A e \in target[x] :
        \E r \in Requests :
            /\ root[r] = x
            /\ Expected(r) # {}
            /\ \A a \in Expected(r) : digests[r][a] = e[1]

\* No directory outside the confinement is written.
OnlySafeRoots == \A x \in Roots \ SafeRoots : target[x] = {}

\* Success means that the root holds a whole unpack of bytes that match.
SuccessMeansUnpacked ==
    \A r \in Requests : phase[r] = "done" /\ code[r] = 0 =>
        \E e \in target[root[r]] : e[2] /\ Verified(r, e[1])

\* When the end of a run has been announced its work directory is gone.
NoLeftovers == \A r \in Requests : phase[r] = "done" => ~workdir[r]

Stage3Inv == OnlySafeRoots /\ SuccessMeansUnpacked /\ NoLeftovers

\* Every accepted request ends with one Finished, however its commands end,
\* or is lost: a command could not be spawned or the process has left.
EveryRunEnds ==
    \A r \in Requests :
        phase[r] = "download" ~> finished[r] = 1 \/ phase[r] \in {"lost", "orphaned"}
=============================================================================
