------------------------------ MODULE Pairing ------------------------------
(***************************************************************************)
(* Pairing and the authorised clients (nvhttp.cpp, crypto.cpp): the five   *)
(* phase handshake kept in map_id_sess, the PIN typed in the web UI, the   *)
(* list of paired clients in memory and in the state file, the certificate *)
(* chain the TLS verify callback uses and the queue that feeds it.         *)
(* A handler runs to completion; the save it ends with may fail, and the   *)
(* host may crash while the file is written.                               *)
(***************************************************************************)
EXTENDS Naturals, Sequences, SequencesExt

CONSTANTS
  Id,        \* uniqueid parameters clients send
  Cert,      \* client certificates; one client device each
  Pin,       \* PINs the user can type
  MaxNamed,  \* bound on the list of paired devices
  None

\* The PIN each client device shows to its user.
PinOf == CHOOSE f \in [Cert -> Pin] : \A c, d \in Cert : f[c] = f[d] => c = d

VARIABLES
  sess,      \* map_id_sess: [Id -> session or None]
  named,     \* client_root.named_devices: sequence of [cert, on]
  chain,     \* certificates in cert_chain
  addCert,   \* certificates in the add_cert queue
  file,      \* the state file: [ok, named]; ok = FALSE when it cannot be parsed
  backupOk,  \* its backup copy can be parsed
  fresh,     \* FRESH_STATE flag
  vouched,   \* ghost: certificates whose PIN the user typed into their session
  unsaved    \* ghost: the last save did not reach the disk

pairVars == <<sess, named, chain, addCert, file, backupOk, fresh, vouched, unsaved>>

Phases == {"NONE", "GETSERVERCERT", "CLIENTCHALLENGE", "SERVERCHALLENGERESP"}
Session == [phase : Phases, cert : Cert, key : Pin \cup {None},
            good : BOOLEAN]
CertsOf(ns) == {ns[i].cert : i \in DOMAIN ns}

Init ==
  /\ sess = [i \in Id |-> None] /\ named = <<>> /\ chain = {} /\ addCert = {}
  /\ file = [ok |-> TRUE, named |-> <<>>] /\ backupOk = TRUE
  /\ fresh = FALSE /\ vouched = {} /\ unsaved = FALSE

----------------------------------------------------------------------------
(* The state file. *)

\* load_state: what can be parsed replaces the list and the chain.
LoadState(f, ns, ch) ==
  /\ named' = IF f.ok THEN f.named ELSE ns
  /\ chain' = IF f.ok THEN CertsOf(f.named) ELSE ch

\* Mutant of SaveState: the backup is made after the write.
SaveStateBackupLast(ns) ==
  /\ file.ok
  /\ \/ file' = [ok |-> TRUE, named |-> ns] /\ unsaved' = FALSE
     \/ file' = [ok |-> FALSE, named |-> <<>>] /\ unsaved' = TRUE
  /\ backupOk' = file'.ok

\* save_state: back the file up; an unreadable file stops it; then write, which
\* may fail with the old file intact or leave a truncated one.
SaveState(ns) ==
  /\ backupOk' = file.ok
  /\ \/ file.ok /\ file' = [ok |-> TRUE, named |-> ns] /\ unsaved' = FALSE
     \/ file.ok /\ file' \in {file, [ok |-> FALSE, named |-> <<>>]} /\ unsaved' = TRUE
     \/ ~file.ok /\ file' = file /\ unsaved' = TRUE

----------------------------------------------------------------------------
(* The handshake: GET /pair and the PIN. *)

\* phrase=getservercert: emplace keeps an existing session (its certificate and
\* phase too), but its salt and its waiting response are replaced.
GetServerCert(i, c) ==
  /\ sess' = [sess EXCEPT ![i] = IF @ = None
                THEN [phase |-> "NONE", cert |-> c, key |-> None, good |-> FALSE]
                ELSE @]
  /\ UNCHANGED <<named, chain, addCert, file, backupOk, fresh, vouched, unsaved>>

\* pin(): the first session of the map gets it, whichever that is. Out of order
\* drops the session.
PinTyped(i, p) ==
  /\ sess[i] # None
  /\ sess' = [sess EXCEPT ![i] = IF @.phase # "NONE" THEN None
                ELSE [@ EXCEPT !.phase = "GETSERVERCERT", !.key = p]]
  /\ vouched' = IF sess[i].phase = "NONE" /\ p = PinOf[sess[i].cert]
                THEN vouched \cup {sess[i].cert} ELSE vouched
  /\ UNCHANGED <<named, chain, addCert, file, backupOk, fresh, unsaved>>

\* A phase called out of order fails and forgets the session.
Advance(i, from, s) ==
  /\ sess[i] # None
  /\ sess' = [sess EXCEPT ![i] = IF @.phase = from THEN s ELSE None]
  /\ UNCHANGED <<named, chain, addCert, file, backupOk, fresh, vouched, unsaved>>

ClientChallenge(i) ==
  Advance(i, "GETSERVERCERT", [sess[i] EXCEPT !.phase = "CLIENTCHALLENGE"])

\* Mutant of ServerChallengeResp: the hash counts without the PIN's key.
ServerChallengeRespAnyKey(i, c) ==
  Advance(i, "CLIENTCHALLENGE",
          [sess[i] EXCEPT !.phase = "SERVERCHALLENGERESP", !.good = sess[i].cert = c])

\* The hash the client sent is the right one iff it decrypts under the key
\* derived from the PIN: client c used its own PIN and its own certificate.
ServerChallengeResp(i, c) ==
  Advance(i, "CLIENTCHALLENGE",
          [sess[i] EXCEPT !.phase = "SERVERCHALLENGERESP",
                          !.good = sess[i].cert = c /\ sess[i].key = PinOf[c]])

\* clientpairingsecret: phase, hash and signature must be right; then the
\* certificate is queued for the chain and, unless FRESH_STATE, saved and loaded
\* back. The session is forgotten in any case.
ClientPairingSecret(i, signed) ==
  /\ sess[i] # None /\ Len(named) < MaxNamed
  /\ sess' = [sess EXCEPT ![i] = None]
  /\ LET c == sess[i].cert
         paired == sess[i].phase = "SERVERCHALLENGERESP" /\ sess[i].good /\ signed
         ns == Append(named, [cert |-> c, on |-> TRUE])
     IN IF ~paired THEN UNCHANGED <<named, chain, addCert, file, backupOk, unsaved>>
        ELSE /\ addCert' = addCert \cup {c}
             /\ IF fresh THEN named' = ns /\ UNCHANGED <<chain, file, backupOk, unsaved>>
                ELSE SaveState(ns) /\ LoadState(file', ns, chain)
  /\ UNCHANGED <<fresh, vouched>>

----------------------------------------------------------------------------
(* Connections and the client list. *)

\* The verify callback: drain the queue into the chain, verify, then the first
\* entry with this certificate decides; no entry counts as enabled.
Accepted(c) ==
  /\ c \in chain \cup addCert
  /\ c \in CertsOf(named) =>
       named[SelectInSeq(named, LAMBDA n : n.cert = c)].on

Connect(c) ==
  /\ chain' = chain \cup addCert /\ addCert' = {}
  /\ UNCHANGED <<sess, named, file, backupOk, fresh, vouched, unsaved>>

Unpair(k) ==
  /\ k \in DOMAIN named
  /\ SaveState(RemoveAt(named, k)) /\ LoadState(file', RemoveAt(named, k), chain)
  /\ UNCHANGED <<sess, addCert, fresh, vouched>>

EraseAllClients ==
  /\ named' = <<>> /\ chain' = {} /\ SaveState(<<>>)
  /\ UNCHANGED <<sess, addCert, fresh, vouched>>

SetClientEnabled(k, b) ==
  /\ k \in DOMAIN named
  /\ named' = [named EXCEPT ![k].on = b]
  /\ SaveState(named')
  /\ UNCHANGED <<sess, chain, addCert, fresh, vouched>>

\* The process ends and is started again, with or without FRESH_STATE: start()
\* loads the file when it can be parsed.
Restart(f) ==
  /\ fresh' = f /\ sess' = [i \in Id |-> None] /\ addCert' = {}
  /\ LoadState(file, <<>>, {})
  /\ unsaved' = FALSE
  /\ UNCHANGED <<file, backupOk, vouched>>

Next ==
  \/ \E i \in Id, c \in Cert : GetServerCert(i, c) \/ ServerChallengeResp(i, c)
  \/ \E i \in Id, p \in Pin : PinTyped(i, p)
  \/ \E i \in Id : ClientChallenge(i)
  \/ \E i \in Id, b \in BOOLEAN : ClientPairingSecret(i, b)
  \/ \E c \in Cert : Connect(c)
  \/ \E k \in 1 .. MaxNamed : Unpair(k)
  \/ \E k \in 1 .. MaxNamed, b \in BOOLEAN : SetClientEnabled(k, b)
  \/ EraseAllClients
  \/ \E f \in BOOLEAN : Restart(f)

Spec == Init /\ [][Next]_pairVars

----------------------------------------------------------------------------
\* Whatever order the phases of several clients come in, and whoever the PIN
\* went to, a certificate gets into the chain, the list or the file only if the
\* user typed that client's PIN into its session (nvhttp.cpp pair, pin).
PairedKnowsPin ==
  chain \cup addCert \cup CertsOf(named) \cup CertsOf(file.named) \subseteq vouched

\* A client all of whose entries were disabled is refused, also right after it
\* was paired and before the queue was drained (verify, is_client_enabled).
DisabledIsRefused ==
  \A c \in Cert : c \in CertsOf(named) /\ Accepted(c) =>
    \E i \in DOMAIN named : named[i].cert = c /\ named[i].on

\* A restart loses nothing that a save did not lose before: outside FRESH_STATE
\* the file holds the list in memory unless the last save failed.
RestartKeepsClients ==
  ~fresh /\ ~unsaved /\ file.ok => file.named = named

\* A save that left the file unreadable has left a readable backup
\* (save_state copies the file before it writes it).
BackupBeforeWrite ==
  file.ok /\ ~file'.ok => backupOk'
=============================================================================
