------------------------------ MODULE ConfigUi ------------------------------
(***************************************************************************)
(* The configuration web UI (confighttp.cpp) with the credential file of   *)
(* httpcommon.cpp. One thread serves the requests, so a handler is one     *)
(* step; what makes it hard is that a browser tab acts on a listing it     *)
(* fetched earlier, that files may fail to be written, and that clients    *)
(* stream meanwhile. Launching and pairing themselves are in AppProcess,   *)
(* LaunchEvent and Pairing.                                                *)
(***************************************************************************)
EXTENDS Integers, Sequences, Functions

CONSTANTS
  Tab,       \* browser tabs with the application list open
  Login,     \* user and password pairs
  User,      \* spellings of the user name, the clients of the token table
  Client,    \* paired clients
  Name,      \* application names, naturals in their sorting order
  FirstApps, \* the applications file before any edit, with ids 1, 2, ...
  MaxSave,   \* bound on applications saved
  Lifetime,  \* CSRF_TOKEN_LIFETIME
  MaxNow,    \* bound on time
  None

VARIABLES
  login,     \* config::sunshine.username and password, None before the first
  loginFile, \* the credentials file: a login, None, or "torn"
  apps,      \* the applications file: a sequence of [name, id]
  view,      \* the list each tab shows
  saves,     \* applications saved
  meant,     \* the applications the users mean to have
  spoiled,   \* an edit used an outdated list, or its file was not written
  tokens,    \* csrf_tokens: [number, expires] per user, or None
  newest,    \* the token each user was given last
  now,       \* time
  paired,    \* clients with a certificate
  enabled,   \* clients that are enabled
  pending,   \* clients admitted to a launch whose session has not started
  streaming, \* clients with a session
  app        \* an application runs

loginVars == <<login, loginFile>>
appsVars == <<apps, view, saves, meant, spoiled>>
tokenVars == <<tokens, newest, now>>
clientVars == <<paired, enabled, pending, streaming, app>>
uiVars == <<loginVars, appsVars, tokenVars, clientVars>>

Ids(s) == {s[i].id : i \in DOMAIN s}

Init ==
  /\ login = None /\ loginFile = None
  /\ apps = FirstApps /\ view = [t \in Tab |-> <<>>] /\ saves = 0 /\ meant = Ids(FirstApps)
  /\ spoiled = FALSE
  /\ tokens = [u \in User |-> None] /\ newest = [u \in User |-> None] /\ now = 0
  /\ paired = Client /\ enabled = Client /\ pending = {} /\ streaming = {} /\ app = FALSE

(***************************************************************************)
(* Credentials                                                             *)
(***************************************************************************)

\* reload_user_creds: a file that cannot be read leaves the login as it is.
Reload(file) == login' = IF file \in Login THEN file ELSE login

\* savePassword: the file is read, changed and written, then loaded again; its
\* errors are logged and the answer is a success all the same.
SavePassword(old, new) ==
  /\ login = None \/ old = login
  /\ loginFile' \in (IF loginFile = "torn" THEN {"torn"} ELSE {new, loginFile})
  /\ Reload(loginFile')
  /\ UNCHANGED <<appsVars, tokenVars, clientVars>>

\* The program ends, during a write of the credentials perhaps, and is started
\* again: http::init loads the credentials when the file has them.
Restart ==
  /\ loginFile' \in {loginFile, "torn"}
  /\ login' = IF loginFile' \in Login THEN loginFile' ELSE None
  /\ tokens' = [u \in User |-> None] /\ newest' = [u \in User |-> None]
  /\ pending' = {} /\ streaming' = {} /\ app' = FALSE
  /\ UNCHANGED <<appsVars, now, paired, enabled>>

(***************************************************************************)
(* The list of applications                                                *)
(***************************************************************************)

\* getApps
GetApps(t) ==
  /\ login # None /\ view' = [view EXCEPT ![t] = apps]
  /\ UNCHANGED <<loginVars, apps, saves, meant, spoiled, tokenVars, clientVars>>

\* The arrangements that std::sort may leave, by name alone.
Sorted(s) ==
  {t \in {[i \in DOMAIN s |-> s[f[i]]] : f \in Bijection(DOMAIN s, DOMAIN s)} :
     \A i, j \in DOMAIN t : i < j => t[i].name <= t[j].name}

\* The list is written, or it is not and the answer is the same.
WriteApps(new, t, stillMeant) ==
  /\ meant' = stillMeant
  /\ \/ apps' \in new /\ spoiled' = (spoiled \/ view[t] # apps)
     \/ apps' = apps /\ spoiled' = TRUE
  /\ UNCHANGED <<loginVars, view, tokenVars, clientVars>>

\* Mutant of Saved: the list is sorted before the entry is replaced.
SavedAfterSort(index, entry) ==
  IF index = 0 THEN Sorted(Append(apps, entry))
  ELSE {[s EXCEPT ![index] = IF index \in DOMAIN s THEN entry ELSE @] : s \in Sorted(apps)}

\* The body of saveApp: index 0 stands for the -1 of a new application, and an
\* index beyond the end replaces nothing. The trailing sort is part of it.
Saved(index, entry) ==
  Sorted(IF index = 0 THEN Append(apps, entry)
         ELSE [i \in DOMAIN apps |-> IF i = index THEN entry ELSE apps[i]])

\* saveApp, from a tab that shows view[t]
SaveApp(t, index, name) ==
  /\ login # None /\ saves < MaxSave /\ index \in 0..Len(view[t]) /\ saves' = saves + 1
  /\ LET entry == [name |-> name, id |-> Len(FirstApps) + saves + 1]
         old == IF index = 0 THEN {} ELSE {view[t][index].id}
     IN WriteApps(Saved(index, entry), t, (meant \ old) \cup {entry.id})

\* The list without one entry
Deleted(index) == {[i \in 1..(Len(apps) - 1) |-> IF i < index THEN apps[i] ELSE apps[i + 1]]}

\* deleteApp and check_app_index
DeleteApp(t, index) ==
  /\ login # None /\ index \in DOMAIN view[t] /\ index \in DOMAIN apps
  /\ UNCHANGED saves
  /\ WriteApps(Deleted(index), t, meant \ {view[t][index].id})

(***************************************************************************)
(* Tokens                                                                  *)
(***************************************************************************)

Tick ==
  /\ now < MaxNow /\ now' = now + 1
  /\ UNCHANGED <<loginVars, appsVars, tokens, newest, clientVars>>

\* The expiry test of generate_csrf_token and of validate_stored_csrf_token
Fresh(tok) == tok # None /\ tok.expires >= now

\* generate_csrf_token: expired tokens are dropped, the user's own is replaced.
GetToken(u) ==
  /\ login # None
  /\ LET tok == [number |-> IF newest[u] = None THEN 1 ELSE 3 - newest[u].number,
                 expires |-> now + Lifetime]
     IN /\ newest' = [newest EXCEPT ![u] = tok]
        /\ tokens' = [v \in User |-> IF v = u THEN tok ELSE IF Fresh(tokens[v]) THEN tokens[v] ELSE None]
  /\ UNCHANGED <<loginVars, appsVars, now, clientVars>>

\* validate_stored_csrf_token; an expired token is erased.
CheckToken(u) ==
  /\ tokens[u] # None /\ ~Fresh(tokens[u]) /\ tokens' = [tokens EXCEPT ![u] = None]
  /\ UNCHANGED <<loginVars, appsVars, newest, now, clientVars>>

(***************************************************************************)
(* Clients                                                                 *)
(***************************************************************************)

\* A client is admitted by the verify callback; its session starts later.
Admit(c) ==
  /\ c \in paired \cap enabled /\ c \notin pending /\ pending' = pending \cup {c}
  /\ UNCHANGED <<loginVars, appsVars, tokenVars, paired, enabled, streaming, app>>

StartSession(c) ==
  /\ c \in pending /\ pending' = pending \ {c} /\ streaming' = streaming \cup {c} /\ app' = TRUE
  /\ UNCHANGED <<loginVars, appsVars, tokenVars, paired, enabled>>

EndSession(c) ==
  /\ c \in streaming /\ streaming' = streaming \ {c}
  /\ UNCHANGED <<loginVars, appsVars, tokenVars, paired, enabled, pending, app>>

\* updateClient: disabling one client ends every session, and then the application.
UpdateClient(c, on) ==
  /\ login # None /\ c \in paired
  /\ enabled' = IF on THEN enabled \cup {c} ELSE enabled \ {c}
  /\ streaming' = IF on THEN streaming ELSE {}
  /\ app' = (app /\ on)
  /\ UNCHANGED <<loginVars, appsVars, tokenVars, paired, pending>>

\* unpair ends the application only with the last client.
Unpair(c) ==
  /\ login # None /\ c \in paired /\ paired' = paired \ {c} /\ enabled' = enabled \ {c}
  /\ app' = (app /\ paired' # {})
  /\ UNCHANGED <<loginVars, appsVars, tokenVars, pending, streaming>>

UnpairAll ==
  /\ login # None /\ paired' = {} /\ enabled' = {} /\ app' = FALSE
  /\ UNCHANGED <<loginVars, appsVars, tokenVars, pending, streaming>>

CloseApp ==
  /\ login # None /\ app' = FALSE
  /\ UNCHANGED <<loginVars, appsVars, tokenVars, paired, enabled, pending, streaming>>

\* The four areas share nothing but the login and Restart.
LoginNext == Restart \/ \E old, new \in Login : SavePassword(old, new)
AppsNext ==
  \E t \in Tab :
    \/ GetApps(t)
    \/ \E i \in 0..(MaxSave + Len(FirstApps)) : DeleteApp(t, i) \/ \E n \in Name : SaveApp(t, i, n)
TokensNext == Tick \/ \E u \in User : GetToken(u) \/ CheckToken(u)
ClientsNext ==
  \/ UnpairAll \/ CloseApp
  \/ \E c \in Client : Admit(c) \/ StartSession(c) \/ EndSession(c) \/ Unpair(c)
  \/ \E c \in Client, on \in BOOLEAN : UpdateClient(c, on)

Next == LoginNext \/ AppsNext \/ TokensNext \/ ClientsNext

Spec == Init /\ [][Next]_uiVars

(***************************************************************************)
(* Properties                                                              *)
(***************************************************************************)

\* The file holds exactly the applications the users saved and did not delete, as
\* long as each edit was made from the current list and was written.
NothingLost == ~spoiled => Ids(apps) = meant

\* The login in force is the one a restart will load.
LoginSurvives == loginFile \in Login => login = loginFile

\* The token a user was given last is accepted for its whole lifetime, whatever
\* tokens other users ask for.
NewestTokenAccepted == \A u \in User : newest[u] # None /\ now <= newest[u].expires => tokens[u] = newest[u]

\* Disabling a client ends its session: a disabled client streams only if its
\* launch was admitted before.
DisabledStops == \A c \in streaming : c \notin enabled' /\ c \in enabled => c \notin streaming' \/ c \notin paired'

\* The inductive invariant behind NothingLost: as long as nothing was spoiled, the
\* ids in the file differ and are those meant, and a new one is larger than all.
ListInv ==
  /\ saves \in Nat
  /\ ~spoiled =>
       /\ apps \in Seq([name : Name, id : Nat]) /\ Ids(apps) = meant
       /\ \A i \in DOMAIN apps : apps[i].id <= Len(FirstApps) + saves
       /\ \A i, j \in DOMAIN apps : apps[i].id = apps[j].id => i = j

\* The one behind NewestTokenAccepted.
TokenInv ==
  /\ now \in Nat /\ tokens = [u \in User |-> tokens[u]] /\ newest = [u \in User |-> newest[u]]
  /\ \A u \in User : newest[u] # None =>
       newest[u].expires \in Nat /\ (now <= newest[u].expires => tokens[u] = newest[u])
=============================================================================
