---------------------------- MODULE IdentityStore ----------------------------
(***************************************************************************)
(* Identities and keys of one node: the files of identity_store.c on the   *)
(* external flash, the keys of credential_manager.c in a database that is  *)
(* rebuilt at every start, the start-up itself and the shell commands that *)
(* change the files.  A power cycle may come between any two steps.        *)
(*                                                                         *)
(* A file of the flash file system (littlefs) is written when it is        *)
(* closed: a power cycle in between leaves what it held, nothing in a new  *)
(* file.  A key is known by its public half; a signature is the kid and    *)
(* the key of its signer.                                                  *)
(***************************************************************************)
EXTENDS Cbor, SequencesExt

CONSTANTS RootKid,       \* { 0x00, 0x00, 0x03, 0x00 }
          Gates, Mates,  \* kids whose third byte is that device type
          Provisionings, \* provisioning data the identity manager hands out
          MAX_IDENTITY_SIZE,
          Commands       \* bound: the commands entered while the node is up

(* The identity manager signs the identity it hands out as the node's own, *)
(* and the kid of a node is not the root's.                                *)
ASSUME ProvisioningsAssumption ==
  \A d \in Provisionings : \A p \in DeserializeProvisioningData(d) :
    DeserializeIdentity(p.own.pubid) \subseteq {p.private} /\ p.private.kid # RootKid

VARIABLES dirs,   \* the directories "self" (and the LoRaMAC keys') and "valid"
          self,   \* files of the node itself
          valid,  \* files of learned identities, by kid
          keys,   \* the credential manager's database
          boot,   \* [mode, todo, id]: how far the start is, files still to be
                  \* read, self_node_id
          setup,  \* result of credential_manager_setup
          cmd     \* [name, data, todo, open]: the shell command being executed

idVars == <<dirs, self, valid, keys, boot, setup, cmd>>

Empty     == Message(0, <<>>)
NoFiles   == [p \in {} |-> Empty]
AllDirs   == {"self", "valid"}
SelfFiles == <<"root", "private", "own", "joineui", "deveui", "nwkkey">>
NoCommand == [name |-> "none", data |-> {}, todo |-> <<>>, open |-> FALSE]
Booting   == [mode |-> "check", todo |-> {}, id |-> NoId]

IdInit ==
  /\ dirs = {} /\ self = NoFiles /\ valid = NoFiles
  /\ keys = {} /\ boot = Booting /\ setup = "none" /\ cmd = NoCommand

(* A power cycle: the keys are in RAM. *)
IdRestart ==
  /\ keys' = {} /\ boot' = Booting /\ setup' = "none" /\ cmd' = NoCommand
  /\ UNCHANGED <<dirs, self, valid>>
-----------------------------------------------------------------------------
(* Mutant: opening a file truncates it. *)
TruncateMutant(files, p) == [q \in DOMAIN files \cup {p} |-> IF q = p THEN Empty ELSE files[q]]

(* _write_file: vfs_open creates the file if there is none, vfs_write and  *)
(* vfs_close put the content into it unless it was removed.                *)
Opened(files, p) ==
  [q \in DOMAIN files \cup {p} |-> IF q \in DOMAIN files THEN files[q] ELSE Empty]
Closed(files, p, content) == [q \in DOMAIN files |-> IF q = p THEN content ELSE files[q]]

(* _read_file; there is no result without a file. *)
ReadFile(files, p) == IF p \in DOMAIN files THEN {files[p]} ELSE {}

(* get_root_identity, get_own_private_identity; get_own_public_identity;   *)
(* get_public_identities_next for one file.                                *)
PlainIdentity(p)   == UNION {DeserializeIdentity(m) : m \in ReadFile(self, p)}
SignedIdentities(files, p) == UNION {DeserializeSignedIdentity(m) : m \in ReadFile(files, p)}
PublicIdentity(files, p) ==
  UNION {DeserializeIdentity(s.pubid) : s \in SignedIdentities(files, p)}

(* get_own_node_id; self_node_id stays zero when it fails. *)
OwnNodeId ==
  LET own == PlainIdentity("private") IN IF own = {} THEN NoId ELSE (CHOOSE i \in own : TRUE).kid
-----------------------------------------------------------------------------
(* credential_manager_get_key, credential_manager_add_key. *)
GetKey(ks, kind, kid) == {k.key : k \in {c \in ks : c.kind = kind /\ c.kid = kid}}
AddKey(ks, kind, i) ==
  {k \in ks : ~(k.kind = kind /\ k.kid = i.kid)} \cup {[kind |-> kind, kid |-> i.kid, key |-> i.key]}

(* _cose_crypto_service_verify: the signature names the expected kid and   *)
(* was made with the key that is known for it.                             *)
CryptoVerify(kid, signature) ==
  signature.kid = kid /\ signature.key \in GetKey(keys, "public", kid)

(* _cose_crypto_service_sign: both keys must be known. *)
CryptoSign(kid) ==
  IF GetKey(keys, "private", kid) = {} \/ GetKey(keys, "public", kid) = {} THEN {}
  ELSE {[kid |-> kid, key |-> k] : k \in GetKey(keys, "private", kid)}
-----------------------------------------------------------------------------
(* identity_store_init: a missing directory makes it format the flash, a   *)
(* missing file drops it to the shell, which is never left.  What is in    *)
(* the files is not looked at.                                             *)
CheckStore ==
  /\ boot.mode = "check"
  /\ IF dirs # AllDirs
     THEN /\ dirs' = {} /\ self' = NoFiles /\ valid' = NoFiles
          /\ boot' = [boot EXCEPT !.mode = "format"]
     ELSE /\ boot' = IF DOMAIN self = ToSet(SelfFiles)
                     THEN [boot EXCEPT !.mode = "keys", !.id = OwnNodeId]
                     ELSE [boot EXCEPT !.mode = "shell"]
          /\ UNCHANGED <<dirs, self, valid>>
  /\ UNCHANGED <<keys, setup, cmd>>

(* _setup_flash after formatting: the directories are created. *)
MakeDirs ==
  /\ boot.mode = "format"
  /\ dirs' = AllDirs
  /\ boot' = [boot EXCEPT !.mode = "check"]
  /\ UNCHANGED <<self, valid, keys, setup, cmd>>

(* storage_setup_ram_mtd erases the database; credential_manager_setup     *)
(* adds the root's and the node's own keys and opens the directory.  main  *)
(* ignores a failure: the node goes on without the missing keys.           *)
SetupOwnKeys ==
  /\ boot.mode = "keys"
  /\ \E n \in 0 .. 3 :
       LET root == PlainIdentity("root")
           prv  == PlainIdentity("private")
           pub  == PublicIdentity(self, "own")
           k1   == UNION {AddKey({}, "public", i) : i \in root}
           k2   == UNION {AddKey(k1, "private", i) : i \in prv}
           k3   == UNION {AddKey(k2, "public", i) : i \in pub}
           last == IF root = {} THEN 0 ELSE IF prv = {} THEN 1 ELSE IF pub = {} THEN 2 ELSE 3
       IN  /\ n <= last
           /\ keys' = <<{}, k1, k2, k3>>[n + 1]
           /\ IF n = 3 /\ "valid" \in dirs
              THEN boot' = [boot EXCEPT !.mode = "learned", !.todo = DOMAIN valid] /\ setup' = setup
              ELSE boot' = [boot EXCEPT !.mode = "run", !.todo = {}] /\ setup' = "failed"
  /\ UNCHANGED <<dirs, self, valid, cmd>>

(* Mutant: the first file that cannot be read ends the loop. *)
StopAtTornMutant(kid) ==
  /\ boot.mode = "learned" /\ kid \in boot.todo
  /\ LET read == PublicIdentity(valid, kid)
     IN  IF read = {} THEN keys' = keys /\ boot' = [boot EXCEPT !.todo = {}]
         ELSE /\ keys' = UNION {AddKey(keys, "public", i) : i \in read}
              /\ boot' = [boot EXCEPT !.todo = @ \ {kid}]
  /\ UNCHANGED <<dirs, self, valid, setup, cmd>>

(* The loop of credential_manager_setup over the learned identities: a     *)
(* file that cannot be read is skipped, a key that cannot be added ends    *)
(* the setup.  The signatures are not verified again.                      *)
SetupLearnedKey(kid) ==
  /\ boot.mode = "learned" /\ kid \in boot.todo
  /\ LET read == PublicIdentity(valid, kid)
     IN  \/ /\ keys' = IF read = {} THEN keys ELSE UNION {AddKey(keys, "public", i) : i \in read}
            /\ boot' = [boot EXCEPT !.todo = @ \ {kid}]
            /\ setup' = setup
         \/ /\ read # {}
            /\ boot' = [boot EXCEPT !.mode = "run", !.todo = {}] /\ setup' = "failed" /\ keys' = keys
  /\ UNCHANGED <<dirs, self, valid, cmd>>

SetupDone ==
  /\ boot.mode = "learned" /\ boot.todo = {}
  /\ boot' = [boot EXCEPT !.mode = "run"] /\ setup' = "ok"
  /\ UNCHANGED <<dirs, self, valid, keys, cmd>>

BootStep == CheckStore \/ MakeDirs \/ SetupOwnKeys \/ SetupDone
              \/ \E kid \in Gates \cup Mates : SetupLearnedKey(kid)
-----------------------------------------------------------------------------
(* The shell: the one the start drops to, or the thread that is started    *)
(* before the keys are set up.                                             *)
Shell(name) == cmd = NoCommand /\ (boot.mode = "shell"
                 \/ (boot.mode \in {"keys", "learned", "run"} /\ name \in Commands))
FileContent(p, d) ==
  CASE p = "root"    -> SerializeIdentity(d.root, MAX_IDENTITY_SIZE)
    [] p = "private" -> SerializeIdentity(d.private, MAX_IDENTITY_SIZE)
    [] p = "own"     -> SerializeSignedPublicIdentity(d.own, MAX_IDENTITY_SIZE)
    [] OTHER         -> {Message(0, <<Bytes(d.loramac, 8)>>)}

(* A command is entered: provision_own_identity with data that can be      *)
(* decoded, delete_learned_identities, or wipe.                            *)
Provision(d) ==
  /\ Shell("provision")
  /\ \E p \in DeserializeProvisioningData(d) :
       cmd' = [name |-> "provision", data |-> {p}, todo |-> SelfFiles, open |-> FALSE]
  /\ UNCHANGED <<dirs, self, valid, keys, boot, setup>>

(* The files are written one after the other; the first that cannot be     *)
(* opened or written ends the command.                                     *)
ProvisionOpen ==
  /\ cmd.name = "provision" /\ ~cmd.open
  /\ \/ /\ "self" \in dirs
        /\ self' = Opened(self, Head(cmd.todo))
        /\ cmd' = [cmd EXCEPT !.open = TRUE]
     \/ self' = self /\ cmd' = NoCommand
  /\ UNCHANGED <<dirs, valid, keys, boot, setup>>

ProvisionClose ==
  /\ cmd.name = "provision" /\ cmd.open
  /\ \/ /\ \E d \in cmd.data : \E m \in FileContent(Head(cmd.todo), d) :
             self' = Closed(self, Head(cmd.todo), m)
        /\ cmd' = IF Len(cmd.todo) = 1 THEN NoCommand
                  ELSE [cmd EXCEPT !.todo = Tail(@), !.open = FALSE]
     \/ self' = self /\ cmd' = NoCommand
  /\ UNCHANGED <<dirs, valid, keys, boot, setup>>

(* _delete_known_identities removes the directory and creates it again;    *)
(* _setup_flash, by which wipe clears everything, does that to all.        *)
Delete ==
  /\ Shell("delete") /\ "valid" \in dirs
  /\ dirs' = dirs \ {"valid"} /\ valid' = NoFiles
  /\ cmd' = [NoCommand EXCEPT !.name = "mkdir"]
  /\ UNCHANGED <<self, keys, boot, setup>>

Wipe ==
  /\ Shell("wipe")
  /\ dirs' = {} /\ self' = NoFiles /\ valid' = NoFiles
  /\ cmd' = [NoCommand EXCEPT !.name = "mkdir"]
  /\ UNCHANGED <<keys, boot, setup>>

RecreateDirs ==
  /\ cmd.name = "mkdir"
  /\ dirs' \in {AllDirs, dirs}
  /\ cmd' = NoCommand
  /\ UNCHANGED <<self, valid, keys, boot, setup>>

ShellStep == (\E d \in Provisionings : Provision(d))
               \/ ProvisionOpen \/ ProvisionClose \/ Delete \/ Wipe \/ RecreateDirs
=============================================================================
