------------------------------ MODULE Signing ------------------------------
(***************************************************************************)
(* Signed jobs.  kive job sign captures a job's files, signs their digest  *)
(* with the configured signing CA and puts the certificate beside them;    *)
(* kive build captures the files again, one at a time while an editor may  *)
(* be saving, and records in the catalog whether the bytes it stores are   *)
(* the ones a trusted vendor signed.  The CLI commands exclude one another *)
(* by kive.lock; the editor is outside it.                                 *)
(*                                                                         *)
(* A digest is the function from file names to contents itself: SHA-256 of *)
(* length-prefixed names and contents is taken to be injective.            *)
(***************************************************************************)
EXTENDS Naturals, FiniteSets, Functions, TLC

CONSTANTS
  Files,        \* the source files of the job
  Texts,        \* contents of a source file
  CAs,          \* signing CAs that may come to be; GenerateCA mints one
  None,         \* no such file
  MaxEdits,     \* bound on saves by the editor
  MaxCommands   \* bound on kive commands

(* The leftovers of AtomicWriteSignature: a signer that is killed leaves   *)
(* its temporary file in the job directory, where it is like any source    *)
(* file.  The entry counts them; each has a name of its own.               *)
Temp == "temp"

VARIABLES
  tree,      \* the job directory: [Files -> Texts], and the leftovers
  sig,       \* .kive-job.crt: None, or a certificate
  crt, key,  \* secrets/<job_signer_ca>.crt and .key: None or a CA
  minted,    \* CAs that exist
  trusted,   \* CAs whose certificates job_signer_ca_trust lists
  expired,   \* CAs past NotAfter
  op,        \* the command running
  unread,    \* files the capture has still to read
  snap,      \* what it has read
  cert,      \* the certificate made by Sign
  row,       \* the job in the catalog
  signings,  \* history: digests signed, with their CA
  intact,    \* history: nothing touched the job since it was last signed
  killed,    \* history: some command was killed
  edits, commands

signVars == <<tree, sig, crt, key, minted, trusted, expired, op, unread, snap, cert,
              row, signings, intact, killed, edits, commands>>

diskVars == <<tree, sig, crt, key>>
envVars  == <<minted, trusted, expired, edits, killed>>

Names == Files \cup {Temp}

Unsigned == [status |-> "unsigned", files |-> <<>>, ca |-> None]

SigningInit ==
  /\ tree = [f \in Names |-> IF f = Temp THEN 0 ELSE CHOOSE t \in Texts : TRUE]
  /\ sig = None /\ crt = None /\ key = None
  /\ minted = {} /\ trusted = {} /\ expired = {}
  /\ op = "idle" /\ unread = {} /\ snap = <<>> /\ cert = None
  /\ row = Unsigned /\ signings = {} /\ intact = FALSE /\ killed = FALSE
  /\ edits = 0 /\ commands = 0

-----------------------------------------------------------------------------
(* Outside the CLI. *)

(* External: a file of the job is saved, at any time. *)
Edit(f, t) ==
  /\ edits < MaxEdits /\ tree[f] # t
  /\ tree' = [tree EXCEPT ![f] = t]
  /\ edits' = edits + 1 /\ intact' = FALSE
  /\ UNCHANGED <<sig, crt, key, minted, trusted, expired, op, unread, snap, cert, row,
                 signings, killed, commands>>

(* External: job_signer_ca_trust and the certificates it names change. *)
SetTrust(T) ==
  /\ op = "idle" /\ T \subseteq minted /\ T # trusted
  /\ trusted' = T
  /\ UNCHANGED <<diskVars, minted, expired, op, unread, snap, cert, row, signings, intact,
                 killed, edits, commands>>

(* External: time passes. *)
Expire(c) ==
  /\ op = "idle" /\ c \in minted \ expired
  /\ expired' = expired \cup {c}
  /\ UNCHANGED <<diskVars, minted, trusted, op, unread, snap, cert, row, signings, intact,
                 killed, edits, commands>>

-----------------------------------------------------------------------------
(* kive job sign generate-ca-cert. *)

(* Refuse to overwrite; make the pair in temporary files. *)
GenerateCA ==
  /\ op = "idle" /\ commands < MaxCommands
  /\ crt = None /\ key = None
  /\ \E c \in CAs \ minted : minted' = minted \cup {c} /\ cert' = c
  /\ op' = "rename-crt" /\ commands' = commands + 1
  /\ UNCHANGED <<diskVars, trusted, expired, unread, snap, row, signings, intact, killed,
                 edits>>

RenameCrt ==
  /\ op = "rename-crt"
  /\ crt' = cert /\ op' = "rename-key"
  /\ UNCHANGED <<tree, sig, key, envVars, unread, snap, cert, row, signings, intact, commands>>

(* A key that cannot be put in place takes the certificate with it. *)
RenameKey ==
  /\ op = "rename-key"
  /\ \/ key' = cert /\ UNCHANGED crt
     \/ crt' = None /\ UNCHANGED key
  /\ op' = "idle" /\ cert' = None
  /\ UNCHANGED <<tree, sig, envVars, unread, snap, row, signings, intact, commands>>

-----------------------------------------------------------------------------
(* Capture: read the files one by one. *)

BeginCapture(next) ==
  /\ op = "idle" /\ commands < MaxCommands
  /\ op' = next /\ commands' = commands + 1
  /\ unread' = Names \cup {"sig"} /\ snap' = <<>>
  /\ UNCHANGED <<diskVars, envVars, cert, row, signings, intact>>

(* kive job sign reads the CA pair first and then the job; a missing pair  *)
(* ends the command.                                                       *)
RunJobSign == crt # None /\ key # None /\ BeginCapture("sign")

BuildJobs == BeginCapture("build")

(* One file of the walk; the signature is one of them. *)
CaptureFile(f) ==
  /\ op \in {"sign", "build"} /\ f \in unread
  /\ unread' = unread \ {f}
  /\ snap' = snap @@ (f :> IF f = "sig" THEN sig ELSE tree[f])
  /\ UNCHANGED <<diskVars, envVars, op, cert, row, signings, intact, commands>>

(* The files present, without the signature. *)
Digest(s) == Restrict(s, {f \in DOMAIN s : f # "sig" /\ s[f] # None})

-----------------------------------------------------------------------------
(* kive job sign. *)

(* Sign: the certificate must be the key's and in date. *)
Sign ==
  /\ op = "sign" /\ unread = {}
  /\ \/ /\ crt = key /\ crt \notin expired
        /\ cert' = [digest |-> Digest(snap), ca |-> crt]
        /\ signings' = signings \cup {cert'}
        /\ op' = "write-temp"
     \/ /\ crt # key \/ crt \in expired
        /\ op' = "idle"
        /\ UNCHANGED <<cert, signings>>
  /\ UNCHANGED <<diskVars, envVars, unread, snap, row, intact, commands>>

(* The bundle goes to a temporary file in the job directory, which then    *)
(* becomes the signature.                                                  *)
AtomicWriteSignature ==
  \/ /\ op = "write-temp" /\ op' = "rename-sig"
     /\ UNCHANGED <<diskVars, envVars, unread, snap, cert, row, signings, intact, commands>>
  \/ /\ op = "rename-sig" /\ op' = "idle"
     /\ sig' = cert /\ cert' = None
     /\ intact' = \A f \in Names : snap[f] = tree[f]
     /\ UNCHANGED <<tree, crt, key, envVars, unread, snap, row, signings, commands>>

-----------------------------------------------------------------------------
(* kive build. *)

(* Verify: chain and dates first, then the digest of the captured bytes.   *)
(* Without a usable trust bundle every signature is invalid.               *)
Verify(s) ==
  CASE s["sig"] = None -> "unsigned"
    [] s["sig"] # None /\ s["sig"].ca \in trusted \ expired
                       /\ s["sig"].digest = Digest(s) -> "signed"
    [] OTHER -> "invalid"

(* Mutant: the job's files are read a second time for the catalog. *)
CommitBuildReadsAgain ==
  /\ op = "build" /\ unread = {}
  /\ row' = [status |-> Verify(snap), files |-> Digest(tree),
             ca |-> IF Verify(snap) = "signed" THEN snap["sig"].ca ELSE None]
  /\ op' = "idle"
  /\ UNCHANGED <<diskVars, envVars, unread, snap, cert, signings, intact, commands>>

(* The status and the files of the same capture go into the catalog. *)
CommitBuild ==
  /\ op = "build" /\ unread = {}
  /\ row' = [status |-> Verify(snap), files |-> Digest(snap),
             ca |-> IF Verify(snap) = "signed" THEN snap["sig"].ca ELSE None]
  /\ op' = "idle"
  /\ UNCHANGED <<diskVars, envVars, unread, snap, cert, signings, intact, commands>>

(* The command is killed: what it has renamed or written stays. *)
Kill ==
  /\ op # "idle"
  /\ op' = "idle" /\ cert' = None /\ killed' = TRUE
  /\ tree' = IF op = "rename-sig" THEN [tree EXCEPT ![Temp] = @ + 1] ELSE tree
  /\ intact' = (intact /\ op # "rename-sig")
  /\ UNCHANGED <<sig, crt, key, minted, trusted, expired, edits, unread, snap, row, signings,
                 commands>>

SigningNext ==
  \/ \E f \in Files, t \in Texts : Edit(f, t)
  \/ \E T \in SUBSET CAs : SetTrust(T)
  \/ \E c \in CAs : Expire(c)
  \/ GenerateCA \/ RenameCrt \/ RenameKey
  \/ RunJobSign \/ BuildJobs
  \/ \E f \in Names \cup {"sig"} : CaptureFile(f)
  \/ Sign \/ AtomicWriteSignature
  \/ CommitBuild
  \/ Kill

SigningSpec == SigningInit /\ [][SigningNext]_signVars

-----------------------------------------------------------------------------
(* A job recorded as signed by a vendor holds, byte for byte, a set of     *)
(* files that vendor's CA signed as a whole, though the capture reads one  *)
(* file at a time, edits fall between the reads and the signature may be   *)
(* from before or after them.                                              *)
SignedIsWhatWasSigned ==
  row.status = "signed" => [digest |-> row.files, ca |-> row.ca] \in signings

(* Sign, then build: a job nothing has touched since its signature was put *)
(* in place is recorded as signed whenever its CA is trusted and in date.  *)
SignThenBuild ==
  /\ op = "build" /\ unread = {} /\ row' # row
  /\ intact /\ snap["sig"] = sig /\ \A f \in Names : snap[f] = tree[f]
  /\ sig.ca \in trusted \ expired
  => row'.status = "signed"

(* secrets/ holds both files of the signing CA or neither, unless some     *)
(* command was killed half-way: a generation that fails can be run again,  *)
(* and is not refused for what it left behind.                             *)
PairUnlessKilled == op = "idle" /\ ~killed => crt = key

=============================================================================
