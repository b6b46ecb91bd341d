--------------------------- MODULE PlatformProofs ---------------------------
(***************************************************************************)
(* Proofs about the parts that stand beside the runs: accounts, files,     *)
(* configuration, the knowledge base and the reading of plans, for any     *)
(* number of users, workspaces, files, chapters and requests at a time.    *)
(* The parts share no state; each has an invariant of its own.             *)
(***************************************************************************)
EXTENDS Platform, PlanReading, FiniteSetTheorems, TLAPS

(***************************************************************************)
(* Accounts and organisations.  An account is in the one organisation      *)
(* there is because a registration that reads no account is alone, and one *)
(* that reads an organisation reads the one that stays.                    *)
(***************************************************************************)
RegistrationsAgree ==
  /\ Registered = {} => orgs = {}
  /\ \A e \in Registered : orgs = {accounts[e].org}
  /\ \A r \in Registrations : registering[r].first => Registered = {}
  /\ \A r, q \in Registrations : registering[r].first /\ registering[q].first => r = q
  /\ \A r \in Registrations :
       registering[r] # NoRegistration /\ ~registering[r].first =>
         Registered # {} /\ orgs = {registering[r].org}

AccessInv == AccessTypeOK /\ (~overlapped => RegistrationsAgree)

\* AccessInv holds of the empty tables.
LEMMA InitAccessInv == AccessInit => AccessInv
  <1> SUFFICES ASSUME AccessInit PROVE AccessInv
    OBVIOUS
  <1>1. Registered = {}
    BY DEF AccessInit, Registered
  <1>2. AccessTypeOK
    BY <1>1 DEF AccessInit, AccessTypeOK
  <1>3. RegistrationsAgree
    BY <1>1 DEF AccessInit, RegistrationsAgree, NoRegistration
  <1> QED
    BY <1>2, <1>3 DEF AccessInv

\* A registration that reads the tables agrees with what is there, or is told
\* to overlap.
LEMMA RegisterReadsKeeps ==
  ASSUME AccessInv, NEW r \in Registrations, NEW email \in Emails, NEW org \in OrgNames,
         RegisterReads(r, email, org)
  PROVE  AccessInv'
  <1> DEFINE new == [email |-> email, org |-> org, first |-> IsFirst]
  <1>1. new \in Registration /\ new # NoRegistration
    BY NoneAssumption DEF Registration, NoRegistration, IsFirst
  <1>2. UNCHANGED <<accounts, orgs, admins, keys, access, refresh, permissions>>
    BY DEF RegisterReads
  <1>3. Registered' = Registered
    BY <1>2 DEF Registered
  <1>4. \A q \in Registrations : registering'[q] = IF q = r THEN new ELSE registering[q]
    BY DEF RegisterReads, AccessInv, AccessTypeOK
  <1>5. AccessTypeOK'
    BY <1>1, <1>2, <1>3 DEF RegisterReads, AccessInv, AccessTypeOK
  <1>6. ASSUME ~overlapped'
        PROVE  RegistrationsAgree'
    <2>1. ~overlapped /\ (Registered = {} => \A q \in Registrations : ~registering[q].first)
      BY <1>6 DEF RegisterReads
    <2>2. new.first = (Registered = {}) /\ (new.first \/ orgs = {new.org})
      BY DEF IsFirst, RegisterReads
    <2> HIDE DEF new
    <2>3. RegistrationsAgree
      BY <2>1 DEF AccessInv
    <2>4. QED
      BY <1>2, <1>3, <1>4, <2>1, <2>2, <2>3 DEF RegistrationsAgree
  <1> QED
    BY <1>5, <1>6 DEF AccessInv

\* The first registration that commits makes the organisation, the others
\* join the one they have read.
LEMMA RegisterCommitsKeeps ==
  ASSUME AccessInv, NEW r \in Registrations, RegisterCommits(r)
  PROVE  AccessInv'
  <1> DEFINE reg == registering[r]
             row == [org |-> reg.org, active |-> TRUE]
  <1>1. reg \in Registration /\ AccessTypeOK
    BY DEF RegisterCommits, AccessInv, AccessTypeOK
  <1>2. reg.email \in Emails /\ reg.org \in OrgNames /\ reg.first \in BOOLEAN
    BY <1>1 DEF Registration
  <1>3. row \in Account /\ row # NoAccount
    BY <1>2, NoneAssumption DEF Account, NoAccount
  <1>4. /\ reg # NoRegistration /\ reg.email \notin Registered
        /\ orgs' = orgs \cup {reg.org}
        /\ accounts' = [accounts EXCEPT ![reg.email] = row]
        /\ admins' = IF reg.first THEN admins \cup {<<reg.org, reg.email>>} ELSE admins
        /\ access' = access \cup {reg.email} /\ refresh' = refresh \cup {reg.email}
        /\ registering' = [registering EXCEPT ![r] = NoRegistration]
        /\ UNCHANGED <<keys, overlapped, permissions>>
    BY DEF RegisterCommits, Enrol
  <1>5. \A q \in Registrations : registering'[q] = IF q = r THEN NoRegistration ELSE registering[q]
    BY <1>1, <1>4 DEF AccessTypeOK
  <1>6. \A e \in Emails : accounts'[e] = IF e = reg.email THEN row ELSE accounts[e]
    BY <1>1, <1>4 DEF AccessTypeOK
  <1> HIDE DEF reg
  <1>7. Registered' = Registered \cup {reg.email}
    BY <1>2, <1>3, <1>6 DEF Registered
  <1>8. AccessTypeOK'
    <2>1. accounts' \in [Emails -> Account \cup {NoAccount}]
      BY <1>1, <1>3, <1>4 DEF AccessTypeOK
    <2>2. admins' \subseteq orgs' \X Registered'
      BY <1>1, <1>4, <1>7 DEF AccessTypeOK
    <2>3. orgs' \subseteq OrgNames /\ access' \subseteq Registered' /\ refresh' \subseteq Registered'
      BY <1>1, <1>2, <1>4, <1>7 DEF AccessTypeOK
    <2>4. registering' \in [Registrations -> Registration \cup {NoRegistration}]
      BY <1>1, <1>4 DEF AccessTypeOK
    <2>5. QED
      BY <1>1, <1>4, <2>1, <2>2, <2>3, <2>4 DEF AccessTypeOK
  <1>9. ASSUME ~overlapped'
        PROVE  RegistrationsAgree'
    <2>1. RegistrationsAgree
      BY <1>4, <1>9 DEF AccessInv
    <2>2. orgs' = {reg.org}
      BY <1>2, <1>4, <2>1 DEF RegistrationsAgree, reg
    <2>3. \A e \in Registered' : accounts'[e].org = reg.org
      <3>1. \A e \in Registered : reg.first = FALSE /\ accounts[e].org = reg.org
        BY <1>2, <1>4, <2>1 DEF RegistrationsAgree, reg
      <3>2. row.org = reg.org
        OBVIOUS
      <3>3. Registered \subseteq Emails
        BY DEF Registered
      <3>4. QED
        BY <1>2, <1>6, <1>7, <3>1, <3>2, <3>3
    <2>4. \A q \in Registrations : registering'[q].first = FALSE
      <3>1. \A q \in Registrations : registering[q].first \in BOOLEAN
        <4> SUFFICES ASSUME NEW q \in Registrations
                     PROVE  registering[q].first \in BOOLEAN
          OBVIOUS
        <4>1. registering[q] \in Registration \/ registering[q] = NoRegistration
          BY <1>1 DEF AccessTypeOK
        <4>2. NoRegistration.first \in BOOLEAN
          BY DEF NoRegistration
        <4>3. QED
          BY <4>1, <4>2 DEF Registration
      <3>2. ASSUME NEW q \in Registrations, q # r, registering[q].first
            PROVE  FALSE
        BY <1>1, <1>2, <1>4, <2>1, <3>2 DEF RegistrationsAgree, reg
      <3>3. QED
        BY <1>5, <3>1, <3>2 DEF NoRegistration
    <2>5. \A q \in Registrations : registering'[q] # NoRegistration => orgs' = {registering'[q].org}
      <3> SUFFICES ASSUME NEW q \in Registrations, registering'[q] # NoRegistration
                   PROVE  registering[q].org = reg.org /\ q # r
        BY <1>5, <2>2
      <3>1. registering'[q] = registering[q] /\ ~registering[q].first
        BY <1>5, <2>4
      <3>2. Registered # {} /\ orgs = {registering[q].org}
        BY <2>1, <3>1 DEF RegistrationsAgree
      <3>3. QED
        BY <1>4, <1>5, <2>2, <3>2
    <2>6. QED
      BY <1>7, <2>2, <2>3, <2>4, <2>5 DEF RegistrationsAgree
  <1> QED
    BY <1>8, <1>9 DEF AccessInv

\* The other requests leave the organisations, and who is in them, alone.
LEMMA OthersKeepAccess ==
  ASSUME AccessInv, UNCHANGED <<orgs, overlapped>>, AccessTypeOK', Registered' = Registered,
         \A e \in Registered : accounts'[e].org = accounts[e].org,
         \A r \in Registrations : registering'[r] \in {registering[r], NoRegistration}
  PROVE  AccessInv'
  <1> SUFFICES ASSUME ~overlapped', RegistrationsAgree
               PROVE  RegistrationsAgree'
    BY DEF AccessInv
  <1>1. ~NoRegistration.first
    BY DEF NoRegistration
  <1>2. \A r \in Registrations :
          registering'[r].first => registering'[r] = registering[r] /\ registering[r].first
    BY <1>1
  <1>3. \A r \in Registrations :
          registering'[r] # NoRegistration => registering'[r] = registering[r]
    OBVIOUS
  <1>4. \A e \in Registered' : orgs' = {accounts'[e].org}
    BY DEF RegistrationsAgree
  <1> QED
    BY <1>2, <1>3, <1>4 DEF RegistrationsAgree

\* Every step keeps AccessInv.
LEMMA AccessStep == AccessInv /\ [AccessNext]_accessVars => AccessInv'
  <1> SUFFICES ASSUME AccessInv, [AccessNext]_accessVars
               PROVE  AccessInv'
    OBVIOUS
  <1>1. AccessTypeOK
    BY DEF AccessInv
  <1>2. ASSUME UNCHANGED <<accounts, orgs, registering, overlapped>>, AccessTypeOK'
        PROVE  AccessInv'
    BY <1>2, OthersKeepAccess DEF Registered
  <1>3. ASSUME NEW r \in Registrations, RegisterFails(r)
        PROVE  AccessInv'
    <2>1. AccessTypeOK' /\ Registered' = Registered
      BY <1>1, <1>3 DEF RegisterFails, AccessTypeOK, Registered
    <2>2. QED
      BY <1>1, <1>3, <2>1, OthersKeepAccess DEF RegisterFails, AccessTypeOK
  <1>4. ASSUME NEW e \in Emails, Login(e) \/ Refresh(e) \/ Logout(e) \/ Expire(e)
        PROVE  AccessInv'
    <2>1. accounts[e].active => e \in Registered
      BY <1>4 DEF Registered, NoAccount
    <2>2. AccessTypeOK'
      BY <1>1, <1>4, <2>1 DEF Login, Refresh, Logout, Expire, AccessTypeOK, Registered
    <2>3. QED
      BY <1>2, <1>4, <2>2 DEF Login, Refresh, Logout, Expire
  <1>5. ASSUME NEW caller \in Emails, NEW e \in Emails, NEW active \in BOOLEAN,
               SetActive(caller, e, active)
        PROVE  AccessInv'
    <2> DEFINE row == [accounts[e] EXCEPT !.active = active]
    <2>1. accounts[e] \in Account
      BY <1>1, <1>5 DEF SetActive, Registered, AccessTypeOK
    <2>2. row \in Account /\ row.org = accounts[e].org /\ row # NoAccount
      BY <2>1, NoneAssumption DEF Account, NoAccount
    <2>3. accounts' = [accounts EXCEPT ![e] = row]
      BY <1>5 DEF SetActive
    <2> HIDE DEF row
    <2>4. \A f \in Emails : accounts'[f] = IF f = e THEN row ELSE accounts[f]
      BY <1>1, <2>3 DEF AccessTypeOK
    <2>5. Registered' = Registered /\ e \in Registered
      BY <1>5, <2>2, <2>4 DEF SetActive, Registered
    <2>6. UNCHANGED <<orgs, admins, keys, access, refresh, registering, overlapped, permissions>>
      BY <1>5 DEF SetActive
    <2>7. AccessTypeOK'
      BY <1>1, <2>2, <2>3, <2>5, <2>6 DEF AccessTypeOK
    <2>8. \A f \in Registered : accounts'[f].org = accounts[f].org
      BY <2>2, <2>4 DEF Registered
    <2>9. QED
      BY <2>5, <2>6, <2>7, <2>8, OthersKeepAccess
  <1>6. ASSUME NEW caller \in Emails, NEW o \in OrgNames, NEW e \in Emails,
               AddMember(caller, o, e) \/ RemoveMember(caller, o, e)
        PROVE  AccessInv'
    <2>1. AccessTypeOK'
      BY <1>1, <1>6 DEF AddMember, RemoveMember, AccessTypeOK, Registered
    <2>2. QED
      BY <1>2, <1>6, <2>1 DEF AddMember, RemoveMember
  <1>7. ASSUME NEW caller \in Emails, NEW o \in OrgNames, NEW w \in Secured,
               NEW level \in Levels \cup {NoLevel}, level = NoLevel \/ o \in orgs,
               permissions' = [permissions EXCEPT ![<<o, w>>] = level],
               UNCHANGED <<accounts, orgs, admins, keys, access, refresh, registering, overlapped>>
        PROVE  AccessInv'
    <2>1. permissions' \in [OrgNames \X Secured -> Levels \cup {NoLevel}]
      BY <1>1, <1>7 DEF AccessTypeOK
    <2>2. \A p \in OrgNames \ orgs, v \in Secured : permissions'[<<p, v>>] = NoLevel
      BY <1>1, <1>7 DEF AccessTypeOK
    <2>3. AccessTypeOK'
      BY <1>1, <1>7, <2>1, <2>2 DEF AccessTypeOK, Registered
    <2>4. QED
      BY <1>2, <1>7, <2>3
  <1>8. ASSUME NEW w \in Secured, WorkspaceGoes(w)
        PROVE  AccessInv'
    <2>1. AccessTypeOK'
      BY <1>1, <1>8 DEF WorkspaceGoes, AccessTypeOK, Registered
    <2>2. QED
      BY <1>2, <1>8, <2>1 DEF WorkspaceGoes
  <1>9. ASSUME NEW caller \in Emails, NEW k \in Keys, CreateKey(caller, k) \/ RevokeKey(caller, k)
        PROVE  AccessInv'
    <2>1. keys' \in [Keys -> Key \cup {NoKey}]
      <3>1. [owner |-> caller, revoked |-> FALSE] \in Key
        BY DEF Key
      <3>2. keys \in [Keys -> Key \cup {NoKey}]
        BY <1>1 DEF AccessTypeOK
      <3>3. CASE CreateKey(caller, k)
        BY <3>1, <3>2, <3>3 DEF CreateKey
      <3>4. CASE RevokeKey(caller, k)
        <4> DEFINE row == [keys[k] EXCEPT !.revoked = TRUE]
        <4>1. keys[k] \in Key
          BY <3>1, <3>4 DEF RevokeKey
        <4>2. row \in Key
          BY <4>1 DEF Key
        <4>3. keys' = [keys EXCEPT ![k] = row]
          BY <3>4 DEF RevokeKey
        <4> HIDE DEF row
        <4>4. QED
          BY <3>2, <4>2, <4>3
      <3>5. QED
        BY <1>9, <3>3, <3>4
    <2>2. UNCHANGED <<accounts, orgs, admins, access, refresh, registering, overlapped, permissions>>
      BY <1>9 DEF CreateKey, RevokeKey
    <2>3. AccessTypeOK'
      BY <1>1, <2>1, <2>2 DEF AccessTypeOK, Registered
    <2>4. QED
      BY <1>2, <2>2, <2>3
  <1>10. CASE UNCHANGED accessVars
    BY <1>1, <1>2, <1>10 DEF accessVars, AccessTypeOK, Registered
  <1> QED
    BY <1>3, <1>4, <1>5, <1>6, <1>7, <1>8, <1>9, <1>10, RegisterReadsKeeps, RegisterCommitsKeeps
       DEF AccessNext, SetPermission, RemovePermission

\* Every reachable state satisfies the inductive invariant.
THEOREM AccessInvariance == AccessSpec => []AccessInv
  BY InitAccessInv, AccessStep, PTL DEF AccessSpec

\* Accounts, organisations, memberships and credentials refer to rows that exist.
THEOREM AccessTypesHold == AccessSpec => []AccessTypeOK
  <1>1. AccessInv => AccessTypeOK
    BY DEF AccessInv
  <1> QED
    BY <1>1, AccessInvariance, PTL

\* There is one organisation and every account is in it, unless the first two
\* registrations overlapped (register).
THEOREM OneOrganisationAlways == AccessSpec => []OneOrganisation
  <1>1. AccessInv => OneOrganisation
    BY DEF AccessInv, RegistrationsAgree, OneOrganisation
  <1> QED
    BY <1>1, AccessInvariance, PTL

-----------------------------------------------------------------------------
(***************************************************************************)
(* The files of the workspaces.  SavedEditsStay is inductive with the      *)
(* types: an editor that saves has seen the content it replaces, or there  *)
(* is none and nothing saved that could be lost.                           *)
(***************************************************************************)
FilesInv == WorkspaceTypeOK /\ SavedEditsStay

-----------------------------------------------------------------------------
\* A file that is not there has no saved edits.
LEMMA NothingSavedInNoFile ==
  ASSUME FilesInv, NEW w \in Workspaces, NEW f \in Files, wsFiles[w][f] = NoFile
  PROVE  saved[w][f] = {}
  <1>1. saved[w][f] \subseteq {"no file"}
    BY DEF FilesInv, SavedEditsStay, NoFile
  <1>2. saved[w][f] \subseteq Edits
    BY DEF FilesInv, WorkspaceTypeOK, Contents
  <1> QED
    BY <1>1, <1>2, MarksAssumption

\* A step that changes the files of one workspace w, to table, and what is
\* saved of them, to kept, keeps the invariant when that does.
LEMMA ChangeKeeps ==
  ASSUME FilesInv, NEW w \in Workspaces,
         NEW table \in [Files -> Contents \cup {NoFile}], NEW kept \in [Files -> Contents],
         \A f \in Files : kept[f] \subseteq table[f],
         wsFiles' = [wsFiles EXCEPT ![w] = table], saved' = [saved EXCEPT ![w] = kept],
         wsRows' \subseteq Workspaces, wsDirs' \subseteq Workspaces,
         w \notin wsDirs' => \A f \in Files : table[f] = NoFile,
         wsDirs \ {w} \subseteq wsDirs',
         managing' \in [ManagerRequests -> Managing \cup {NotManaging}],
         fileReq' \in [Sessions -> Workspaces \cup {NoWorkspace}],
         editor' \in [Sessions -> Open \cup {NotOpen}], fix' \in [Fixers -> Fix \cup {NoFix}]
  PROVE  FilesInv'
  <1>1. WorkspaceTypeOK /\ SavedEditsStay
    BY DEF FilesInv
  <1>2. \A v \in Workspaces : /\ wsFiles'[v] = IF v = w THEN table ELSE wsFiles[v]
                              /\ saved'[v] = IF v = w THEN kept ELSE saved[v]
    BY <1>1 DEF WorkspaceTypeOK
  <1>3. /\ wsFiles' \in [Workspaces -> [Files -> Contents \cup {NoFile}]]
        /\ saved' \in [Workspaces -> [Files -> Contents]]
    BY <1>1 DEF WorkspaceTypeOK
  <1>4. \A v \in Workspaces \ wsDirs', f \in Files : wsFiles'[v][f] = NoFile
    BY <1>1, <1>2 DEF WorkspaceTypeOK
  <1>5. WorkspaceTypeOK'
    BY <1>3, <1>4 DEF WorkspaceTypeOK
  <1>6. SavedEditsStay'
    BY <1>1, <1>2 DEF SavedEditsStay
  <1> QED
    BY <1>5, <1>6 DEF FilesInv

\* A step that leaves the files alone.
LEMMA OthersKeep ==
  ASSUME FilesInv, UNCHANGED <<wsFiles, saved>>,
         wsRows' \subseteq Workspaces, wsDirs' \subseteq Workspaces, wsDirs \subseteq wsDirs',
         managing' \in [ManagerRequests -> Managing \cup {NotManaging}],
         fileReq' \in [Sessions -> Workspaces \cup {NoWorkspace}],
         editor' \in [Sessions -> Open \cup {NotOpen}], fix' \in [Fixers -> Fix \cup {NoFix}]
  PROVE  FilesInv'
  BY DEF FilesInv, WorkspaceTypeOK, SavedEditsStay

LEMMA InitFilesInv == WorkspaceInit => FilesInv
  <1> SUFFICES ASSUME WorkspaceInit PROVE FilesInv
    OBVIOUS
  <1>1. WorkspaceTypeOK
    BY DEF WorkspaceInit, WorkspaceTypeOK, Contents
  <1>2. SavedEditsStay
    BY DEF WorkspaceInit, SavedEditsStay
  <1> QED
    BY <1>1, <1>2 DEF FilesInv

-----------------------------------------------------------------------------
LEMMA ManagerKeeps ==
  ASSUME FilesInv, NEW r \in ManagerRequests, NEW w \in Workspaces,
         \/ CreateWorkspace(r, w) \/ DeleteWorkspace(r, w)
         \/ FollowWithRow(r) \/ RowIsLost(r)
  PROVE  FilesInv'
  <1> USE DEF managerRest
  <1>1. WorkspaceTypeOK
    BY DEF FilesInv
  <1>2. CASE CreateWorkspace(r, w)
    <2>1. managing' \in [ManagerRequests -> Managing \cup {NotManaging}]
      BY <1>1, <1>2 DEF WorkspaceTypeOK, CreateWorkspace, Managing
    <2> QED
      BY <1>1, <1>2, <2>1, OthersKeep DEF WorkspaceTypeOK, CreateWorkspace
  <1>3. CASE DeleteWorkspace(r, w)
    <2>1. managing' \in [ManagerRequests -> Managing \cup {NotManaging}]
      BY <1>1, <1>3 DEF WorkspaceTypeOK, DeleteWorkspace, Managing
    <2> DEFINE table == [f \in Files |-> NoFile]
               kept == [f \in Files |-> {}]
    <2>2. table \in [Files -> Contents \cup {NoFile}] /\ kept \in [Files -> Contents]
      BY DEF Contents
    <2>3. wsFiles' = [wsFiles EXCEPT ![w] = table] /\ saved' = [saved EXCEPT ![w] = kept]
      BY <1>3 DEF DeleteWorkspace
    <2>4. \A f \in Files : kept[f] \subseteq table[f] /\ table[f] = NoFile
      OBVIOUS
    <2> HIDE DEF table, kept
    <2> QED
      BY <1>1, <1>3, <2>1, <2>2, <2>3, <2>4, ChangeKeeps DEF WorkspaceTypeOK, DeleteWorkspace
  <1>4. CASE FollowWithRow(r)
    <2>1. managing[r].ws \in Workspaces
      BY <1>1, <1>4 DEF WorkspaceTypeOK, FollowWithRow, Managing
    <2> QED
      BY <1>1, <1>4, <2>1, OthersKeep DEF WorkspaceTypeOK, FollowWithRow
  <1>5. CASE RowIsLost(r)
    BY <1>1, <1>5, OthersKeep DEF WorkspaceTypeOK, RowIsLost
  <1> QED
    BY <1>2, <1>3, <1>4, <1>5

-----------------------------------------------------------------------------
\* Writing one file, whatever of its saved edits is in the new content.
LEMMA WriteKeeps ==
  ASSUME FilesInv, NEW w \in Workspaces, NEW f \in Files, NEW content \in Contents,
         NEW keeps \in Contents, keeps \subseteq content,
         Write(w, f, content), saved' = [saved EXCEPT ![w][f] = keeps],
         wsRows' \subseteq Workspaces,
         managing' \in [ManagerRequests -> Managing \cup {NotManaging}],
         fileReq' \in [Sessions -> Workspaces \cup {NoWorkspace}],
         editor' \in [Sessions -> Open \cup {NotOpen}], fix' \in [Fixers -> Fix \cup {NoFix}]
  PROVE  FilesInv'
  <1> DEFINE table == [wsFiles[w] EXCEPT ![f] = content]
             kept == [saved[w] EXCEPT ![f] = keeps]
  <1>1. WorkspaceTypeOK /\ SavedEditsStay
    BY DEF FilesInv
  <1>2. wsFiles[w] \in [Files -> Contents \cup {NoFile}] /\ saved[w] \in [Files -> Contents]
    BY <1>1 DEF WorkspaceTypeOK
  <1>3. table \in [Files -> Contents \cup {NoFile}] /\ kept \in [Files -> Contents]
    BY <1>2
  <1>4. ASSUME NEW g \in Files PROVE kept[g] \subseteq table[g]
    <2>1. kept[g] = (IF g = f THEN keeps ELSE saved[w][g]) /\ table[g] = (IF g = f THEN content ELSE wsFiles[w][g])
      BY <1>2
    <2> QED
      BY <1>1, <2>1 DEF SavedEditsStay
  <1>5. wsFiles' = [wsFiles EXCEPT ![w] = table] /\ saved' = [saved EXCEPT ![w] = kept]
    BY DEF Write
  <1>6. wsDirs' = wsDirs \cup {w}
    BY DEF Write
  <1>7. wsDirs' \subseteq Workspaces /\ w \in wsDirs'
    BY <1>1, <1>6 DEF WorkspaceTypeOK
  <1> HIDE DEF table, kept
  <1> QED
    BY <1>3, <1>4, <1>5, <1>6, <1>7, ChangeKeeps

\* A save adds the edit to what is saved: the content that it replaces is the
\* one the editor has seen, or there was no file.
LEMMA SaveKeeps ==
  ASSUME FilesInv, NEW s \in Sessions, NEW w \in Workspaces, NEW f \in Files, NEW e \in Edits,
         SaveFile(s, w, f, e)
  PROVE  FilesInv'
  <1> DEFINE new == editor[s].seen \cup {e}
             keeps == saved[w][f] \cup {e}
  <1> USE DEF fileRest
  <1>1. WorkspaceTypeOK
    BY DEF FilesInv
  <1>2. editor[s] \in Open
    <2>1. editor[s] \in Open \cup {NotOpen} /\ editor[s].ws = w
      BY <1>1 DEF WorkspaceTypeOK, SaveFile
    <2>2. NotOpen.ws = "none"
      BY DEF NotOpen
    <2> QED
      BY <2>1, <2>2, MarksAssumption
  <1>3. new \in Contents /\ keeps \in Contents
    BY <1>1, <1>2 DEF WorkspaceTypeOK, Open, Contents
  <1>4. keeps \subseteq new
    <2>1. CASE wsFiles[w][f] = editor[s].seen
      BY <2>1 DEF FilesInv, SavedEditsStay
    <2>2. CASE wsFiles[w][f] = NoFile
      BY <2>2, NothingSavedInNoFile
    <2> QED
      BY <2>1, <2>2 DEF SaveFile, Unmodified
  <1>5. Write(w, f, new) /\ saved' = [saved EXCEPT ![w][f] = keeps]
    BY DEF SaveFile
  <1>6. editor' \in [Sessions -> Open \cup {NotOpen}]
    <2>1. [editor[s] EXCEPT !.seen = new] \in Open
      BY <1>2, <1>3 DEF Open
    <2> QED
      BY <1>1, <2>1 DEF WorkspaceTypeOK, SaveFile
  <1>7. fileReq' \in [Sessions -> Workspaces \cup {NoWorkspace}]
    BY <1>1 DEF WorkspaceTypeOK, SaveFile, Serves
  <1> HIDE DEF new, keeps
  <1> QED
    BY <1>1, <1>3, <1>4, <1>5, <1>6, <1>7, WriteKeeps DEF WorkspaceTypeOK, SaveFile

\* A request that empties a file, deletes some, makes a directory, renames a
\* file or fails.
LEMMA FileRequestKeeps ==
  ASSUME FilesInv, NEW s \in Sessions, NEW w \in Workspaces,
         \/ Lookup(s, w) \/ CreateDirectory(s, w) \/ FileFails(s)
         \/ \E f \in Files : ReadFile(s, w, f) \/ CreateFile(s, w, f) \/ DeleteFile(s, w, f)
         \/ \E d \in Directories : DeleteDirectory(s, w, d)
  PROVE  FilesInv'
  <1> USE DEF fileRest
  <1>1. WorkspaceTypeOK
    BY DEF FilesInv
  <1>2. fileReq' \in [Sessions -> Workspaces \cup {NoWorkspace}]
    BY <1>1 DEF WorkspaceTypeOK, Lookup, CreateDirectory, FileFails, ReadFile, CreateFile, DeleteFile,
                DeleteDirectory, Serves
  <1>3. CASE Lookup(s, w) \/ CreateDirectory(s, w) \/ FileFails(s)
    BY <1>1, <1>2, <1>3, OthersKeep DEF WorkspaceTypeOK, Lookup, CreateDirectory, FileFails
  <1>4. ASSUME NEW f \in Files, ReadFile(s, w, f) PROVE FilesInv'
    <2>1. [ws |-> w, file |-> f, seen |-> wsFiles[w][f]] \in Open
      BY <1>1, <1>4 DEF WorkspaceTypeOK, ReadFile, Open
    <2>2. editor' \in [Sessions -> Open \cup {NotOpen}]
      BY <1>1, <1>4, <2>1 DEF WorkspaceTypeOK, ReadFile
    <2> QED
      BY <1>1, <1>2, <1>4, <2>2, OthersKeep DEF WorkspaceTypeOK, ReadFile
  <1>5. ASSUME NEW f \in Files, CreateFile(s, w, f) PROVE FilesInv'
    <2>1. {} \in Contents
      BY DEF Contents
    <2> QED
      BY <1>1, <1>2, <1>5, <2>1, WriteKeeps DEF WorkspaceTypeOK, CreateFile
  <1>6. ASSUME NEW fs, Remove(w, fs) PROVE FilesInv'
    <2> DEFINE table == [f \in Files |-> IF f \in fs THEN NoFile ELSE wsFiles[w][f]]
               kept == [f \in Files |-> IF f \in fs THEN {} ELSE saved[w][f]]
    <2>1. table \in [Files -> Contents \cup {NoFile}] /\ kept \in [Files -> Contents]
      BY <1>1 DEF WorkspaceTypeOK, Contents
    <2>2. wsFiles' = [wsFiles EXCEPT ![w] = table] /\ saved' = [saved EXCEPT ![w] = kept]
      BY <1>6 DEF Remove
    <2>3. \A f \in Files : kept[f] \subseteq table[f]
      BY DEF FilesInv, SavedEditsStay
    <2>4. w \notin wsDirs' => \A f \in Files : table[f] = NoFile
      BY <1>1, <1>6 DEF WorkspaceTypeOK, Remove
    <2> HIDE DEF table, kept
    <2> QED
      BY <1>1, <1>2, <1>6, <2>1, <2>2, <2>3, <2>4, ChangeKeeps DEF WorkspaceTypeOK, Remove
  <1> QED
    BY <1>3, <1>4, <1>5, <1>6 DEF DeleteFile, DeleteDirectory

LEMMA RenameKeeps ==
  ASSUME FilesInv, NEW s \in Sessions, NEW w \in Workspaces, NEW from \in Files, NEW to \in Files,
         RenameFile(s, w, from, to)
  PROVE  FilesInv'
  <1> USE DEF fileRest
  <1> DEFINE table == [wsFiles[w] EXCEPT ![to] = wsFiles[w][from], ![from] = NoFile]
             kept == [saved[w] EXCEPT ![to] = saved[w][from], ![from] = {}]
  <1>1. WorkspaceTypeOK /\ SavedEditsStay
    BY DEF FilesInv
  <1>2. wsFiles[w] \in [Files -> Contents \cup {NoFile}] /\ saved[w] \in [Files -> Contents]
    BY <1>1 DEF WorkspaceTypeOK
  <1>3. table \in [Files -> Contents \cup {NoFile}] /\ kept \in [Files -> Contents]
    BY <1>2 DEF Contents
  <1>4. wsFiles' = [wsFiles EXCEPT ![w] = table] /\ saved' = [saved EXCEPT ![w] = kept]
    BY <1>1, <1>2 DEF RenameFile, WorkspaceTypeOK
  <1>5. ASSUME NEW f \in Files PROVE kept[f] \subseteq table[f]
    <2>1. /\ kept[f] = (IF f = from THEN {} ELSE IF f = to THEN saved[w][from] ELSE saved[w][f])
          /\ table[f] = (IF f = from THEN NoFile ELSE IF f = to THEN wsFiles[w][from] ELSE wsFiles[w][f])
      BY <1>2
    <2> QED
      BY <1>1, <2>1 DEF SavedEditsStay
  <1>6. w \in wsDirs'
    BY <1>1 DEF WorkspaceTypeOK, RenameFile
  <1>7. fileReq' \in [Sessions -> Workspaces \cup {NoWorkspace}]
    BY <1>1 DEF WorkspaceTypeOK, RenameFile, Serves
  <1> HIDE DEF table, kept
  <1> QED
    BY <1>1, <1>3, <1>4, <1>5, <1>6, <1>7, ChangeKeeps DEF WorkspaceTypeOK, RenameFile

-----------------------------------------------------------------------------
\* The text of a fix is made of edits.
LEMMA CollectedIsContent ==
  ASSUME FilesInv, NEW w \in Workspaces
  PROVE  Collected(w) \subseteq Edits
  <1>1. ASSUME NEW i \in DOMAIN TopFiles, Exists(w, TopFiles[i]) PROVE wsFiles[w][TopFiles[i]] \subseteq Edits
    <2>1. TopFiles[i] \in Files
      BY TopFilesAssumption
    <2> QED
      BY <1>1, <2>1 DEF FilesInv, WorkspaceTypeOK, Exists, Contents
  <1> QED
    BY <1>1 DEF Collected

LEMMA FixKeeps ==
  ASSUME FilesInv, NEW u \in Fixers,
         \/ \E w \in Workspaces : Remediate(u, w)
         \/ ApplyFix(u) \/ DismissFix(u)
  PROVE  FilesInv'
  <1>1. WorkspaceTypeOK
    BY DEF FilesInv
  <1>2. ASSUME NEW w \in Workspaces, Remediate(u, w) PROVE FilesInv'
    <2>1. PICK f \in Files, content \in SUBSET Collected(w) :
            fix' = [fix EXCEPT ![u] = [ws |-> w, file |-> f, content |-> content]]
      BY <1>2 DEF Remediate
    <2>2. content \in Contents
      BY CollectedIsContent DEF Contents
    <2>3. [ws |-> w, file |-> f, content |-> content] \in Fix
      BY <2>2 DEF Fix
    <2>4. fix' \in [Fixers -> Fix \cup {NoFix}]
      BY <1>1, <2>1, <2>3 DEF WorkspaceTypeOK
    <2> QED
      BY <1>1, <1>2, <2>4, OthersKeep DEF Remediate, WorkspaceTypeOK
  <1>3. CASE ApplyFix(u)
    <2> DEFINE w == fix[u].ws
               f == fix[u].file
               content == fix[u].content
               keeps == saved[w][f] \cap content
    <2>1. w \in Workspaces /\ f \in Files /\ content \in Contents
      BY <1>1, <1>3 DEF WorkspaceTypeOK, ApplyFix, Fix
    <2>2. keeps \in Contents /\ keeps \subseteq content
      BY <2>1 DEF Contents
    <2>3. Write(w, f, content) /\ saved' = [saved EXCEPT ![w][f] = keeps]
      BY <1>3 DEF ApplyFix
    <2>4. fix' \in [Fixers -> Fix \cup {NoFix}]
      BY <1>1, <1>3 DEF WorkspaceTypeOK, ApplyFix
    <2> HIDE DEF w, f, content, keeps
    <2> QED
      BY <1>1, <1>3, <2>1, <2>2, <2>3, <2>4, WriteKeeps DEF WorkspaceTypeOK, ApplyFix
  <1>4. CASE DismissFix(u)
    BY <1>1, <1>4, OthersKeep DEF DismissFix, WorkspaceTypeOK
  <1> QED
    BY <1>2, <1>3, <1>4

LEMMA NextFilesInv == FilesInv /\ [WorkspaceNext]_wsVars => FilesInv'
  <1> SUFFICES ASSUME FilesInv, [WorkspaceNext]_wsVars PROVE FilesInv'
    OBVIOUS
  <1>1. WorkspaceTypeOK
    BY DEF FilesInv
  <1>2. ASSUME NEW r \in ManagerRequests,
               \/ \E w \in Workspaces : CreateWorkspace(r, w) \/ DeleteWorkspace(r, w)
               \/ FollowWithRow(r) \/ RowIsLost(r)
        PROVE  FilesInv'
    <2>1. CASE \E w \in Workspaces : CreateWorkspace(r, w) \/ DeleteWorkspace(r, w)
      BY <2>1, ManagerKeeps
    <2>2. CASE FollowWithRow(r) \/ RowIsLost(r)
      <3>1. managing[r].ws \in Workspaces
        BY <1>1, <2>2 DEF WorkspaceTypeOK, FollowWithRow, RowIsLost, Managing
      <3> QED
        BY <2>2, <3>1, ManagerKeeps
    <2> QED
      BY <1>2, <2>1, <2>2
  <1>3. ASSUME NEW s \in Sessions, NEW w \in Workspaces, NEW f \in Files,
               \/ \E e \in Edits : SaveFile(s, w, f, e)
               \/ \E to \in Files : RenameFile(s, w, f, to)
        PROVE  FilesInv'
    BY <1>3, SaveKeeps, RenameKeeps
  <1>4. ASSUME NEW s \in Sessions, NEW w \in Workspaces,
               \/ Lookup(s, w) \/ CreateDirectory(s, w)
               \/ \E f \in Files : ReadFile(s, w, f) \/ CreateFile(s, w, f) \/ DeleteFile(s, w, f)
               \/ \E d \in Directories : DeleteDirectory(s, w, d)
        PROVE  FilesInv'
    BY <1>4, FileRequestKeeps
  <1>5. ASSUME NEW s \in Sessions, FileFails(s) PROVE FilesInv'
    <2>1. fileReq[s] \in Workspaces
      BY <1>1, <1>5 DEF WorkspaceTypeOK, FileFails
    <2> QED
      BY <1>5, <2>1, FileRequestKeeps
  <1>6. ASSUME NEW u \in Fixers,
               \/ \E w \in Workspaces : Remediate(u, w)
               \/ ApplyFix(u) \/ DismissFix(u)
        PROVE  FilesInv'
    BY <1>6, FixKeeps
  <1>7. CASE UNCHANGED wsVars
    BY <1>7 DEF wsVars, FilesInv, WorkspaceTypeOK, SavedEditsStay
  <1> QED
    BY <1>2, <1>3, <1>4, <1>5, <1>6, <1>7 DEF WorkspaceNext

\* The rows, the directories and the files are what they are declared to be,
\* and no file is in a directory that has gone.
THEOREM WorkspaceTypesHold == WorkspaceSpec => []WorkspaceTypeOK
  <1>1. FilesInv => WorkspaceTypeOK
    BY DEF FilesInv
  <1> QED
    BY InitFilesInv, NextFilesInv, <1>1, PTL DEF WorkspaceSpec

\* No editor saves over an edit that it has not seen.
THEOREM NoEditIsSavedOver == WorkspaceSpec => []SavedEditsStay
  <1>1. FilesInv => SavedEditsStay
    BY DEF FilesInv
  <1> QED
    BY InitFilesInv, NextFilesInv, <1>1, PTL DEF WorkspaceSpec

-----------------------------------------------------------------------------
(***************************************************************************)
(* The configuration.  EnvironmentHasStored is inductive once the types    *)
(* are known: every step that writes a file writes the environment with    *)
(* it, or makes it anew of the file.                                       *)
(***************************************************************************)
ConfigInv == ConfigTypeOK /\ EnvironmentHasStored

-----------------------------------------------------------------------------
\* What is laid over settings is a setting.
LEMMA OverlayType ==
  ASSUME NEW over \in Setting, NEW under \in Setting
  PROVE  Overlay(over, under) \in Setting
  BY DEF Overlay, Setting

\* What is set in the upper settings is what the overlay has.
LEMMA OverlayKeeps ==
  ASSUME NEW over \in Setting, NEW under \in Setting
  PROVE  /\ over.provider \in {Unset, Overlay(over, under).provider}
         /\ \A p \in LLMs : over.key[p] \in {Unset, Overlay(over, under).key[p]}
  BY DEF Overlay, Setting

LEMMA NothingSetType == NothingSet \in Setting
  BY DEF NothingSet, Setting

LEMMA FromEnvType ==
  ASSUME NEW env \in Setting
  PROVE  FromEnv(env) \in {s \in Setting : s.provider # Unset /\ s.model # Unset}
  BY ConfigAssumption DEF FromEnv, Setting, AllModels

-----------------------------------------------------------------------------
LEMMA InitConfigInv == ConfigInit => ConfigInv
  <1> SUFFICES ASSUME ConfigInit PROVE ConfigInv
    OBVIOUS
  <1>1. aiFile \in Setting /\ aiEnv \in Setting
    BY NothingSetType, ConfigAssumption DEF ConfigInit
  <1>2. settings \in {s \in Setting : s.provider # Unset /\ s.model # Unset}
    BY FromEnvType, <1>1 DEF ConfigInit
  <1>3. cloudFile \in CloudValues /\ cloudEnv \in CloudValues
    BY DEF ConfigInit, NoClouds, CloudValues
  <1>4. EnvironmentHasStored
    BY DEF ConfigInit, EnvironmentHasStored, NothingSet, NoClouds
  <1> QED
    BY <1>1, <1>2, <1>3, <1>4 DEF ConfigInv, ConfigTypeOK, ConfigInit

\* A save of the AI's configuration puts into the environment what it stores.
LEMMA SaveAIKeeps ==
  ASSUME ConfigInv, NEW p \in LLMs, NEW model \in Models \cup {Unset},
         NEW secret \in Secrets \cup {Unset}, SaveAIConfig(p, model, secret)
  PROVE  ConfigInv'
  <1> DEFINE asked == [NothingSet EXCEPT !.provider = p, !.model = model, !.key[p] = secret]
  <1>1. aiFile \in Setting /\ aiEnv \in Setting
    BY DEF ConfigInv, ConfigTypeOK
  <1>2. asked \in Setting
    BY DEF NothingSet, Setting, AllModels
  <1>3. aiFile' \in Setting
    <2>1. aiFile' = SavedFile(p, model, secret)
      BY DEF SaveAIConfig
    <2>2. SavedFile(p, model, secret).model \in AllModels \cup {Unset}
      BY <1>1 DEF SavedFile, Setting, AllModels
    <2>3. SavedFile(p, model, secret).key \in [LLMs -> Secrets \cup {Unset}]
      BY <1>1 DEF SavedFile, Setting
    <2> QED
      BY <2>1, <2>2, <2>3 DEF SavedFile, Setting
  <1>4. aiEnv' = Overlay(asked, aiEnv)
    BY DEF SaveAIConfig, Applied
  <1>5. aiEnv' \in Setting
    BY <1>1, <1>2, <1>4, OverlayType
  <1>6. settings' \in {s \in Setting : s.provider # Unset /\ s.model # Unset}
    BY <1>5, FromEnvType DEF SaveAIConfig
  <1>7. ConfigTypeOK'
    BY <1>3, <1>5, <1>6 DEF ConfigInv, ConfigTypeOK, SaveAIConfig, CloudValues
  <1>8. aiFile'.provider = aiEnv'.provider
    <2>1. p # Unset
      BY ConfigAssumption
    <2>2. asked.provider = p
      BY DEF NothingSet
    <2> QED
      BY <1>4, <2>1, <2>2 DEF SaveAIConfig, SavedFile, Overlay
  <1>9. ASSUME NEW q \in LLMs PROVE aiFile'.key[q] \in {Unset, aiEnv'.key[q]}
    <2>1. aiFile.key[q] \in {Unset, aiEnv.key[q]}
      BY DEF ConfigInv, EnvironmentHasStored
    <2>2. aiFile'.key = IF secret = Unset THEN aiFile.key ELSE [aiFile.key EXCEPT ![p] = secret]
      BY DEF SaveAIConfig, SavedFile
    <2>3. aiEnv'.key[q] = IF asked.key[q] = Unset THEN aiEnv.key[q] ELSE asked.key[q]
      BY <1>4 DEF Overlay
    <2>4. asked.key[q] = IF q = p THEN secret ELSE Unset
      BY DEF NothingSet
    <2>5. aiFile'.key[q] = IF q = p /\ secret # Unset THEN secret ELSE aiFile.key[q]
      BY <1>1, <2>2 DEF Setting
    <2> QED
      BY <2>1, <2>3, <2>4, <2>5
  <1>10. EnvironmentHasStored'
    BY <1>8, <1>9 DEF ConfigInv, EnvironmentHasStored, SaveAIConfig
  <1> QED
    BY <1>7, <1>10 DEF ConfigInv

\* So does a save of a cloud provider's credentials.
LEMMA SaveProviderKeeps ==
  ASSUME ConfigInv, NEW c \in Clouds, NEW creds \in [CloudKeys -> Secrets \cup {Unset}],
         SaveProviderConfig(c, creds)
  PROVE  ConfigInv'
  <1>1. cloudFile \in CloudValues /\ cloudEnv \in CloudValues
    BY DEF ConfigInv, ConfigTypeOK
  <1>2. cloudFile' \in CloudValues
    BY <1>1 DEF SaveProviderConfig, CloudValues
  <1>3. cloudEnv' \in CloudValues
    BY <1>1 DEF SaveProviderConfig, CloudValues
  <1>4. ConfigTypeOK'
    BY <1>2, <1>3 DEF ConfigInv, ConfigTypeOK, SaveProviderConfig
  <1>5. ASSUME NEW d \in Clouds, NEW k \in CloudKeys
        PROVE  cloudFile'[d][k] \in {Unset, cloudEnv'[d][k]}
    <2>1. CASE d = c
      BY <1>1, <2>1 DEF SaveProviderConfig, CloudValues
    <2>2. CASE d # c
      <3>1. cloudFile'[d] = cloudFile[d] /\ cloudEnv'[d] = cloudEnv[d]
        BY <1>1, <2>2 DEF SaveProviderConfig, CloudValues
      <3> QED
        BY <3>1 DEF ConfigInv, EnvironmentHasStored
    <2> QED
      BY <2>1, <2>2
  <1>6. EnvironmentHasStored'
    BY <1>5 DEF ConfigInv, EnvironmentHasStored, SaveProviderConfig
  <1> QED
    BY <1>4, <1>6 DEF ConfigInv

\* A start makes the environment of the files, whatever is left of them.
LEMMA StartKeeps ==
  ASSUME ConfigInv, Start, aiFile' \in Setting, cloudFile' \in CloudValues
  PROVE  ConfigInv'
  <1>1. container \in Setting /\ container' = container
    BY ConfigAssumption DEF ConfigInv, ConfigTypeOK, Start
  <1>2. aiEnv' = Overlay(aiFile', container) /\ aiEnv' \in Setting
    BY <1>1, OverlayType DEF Start
  <1>3. settings' \in {s \in Setting : s.provider # Unset /\ s.model # Unset}
    BY <1>1, FromEnvType DEF Start
  <1>4. ConfigTypeOK'
    BY <1>1, <1>2, <1>3 DEF ConfigInv, ConfigTypeOK, Start
  <1>5. /\ aiFile'.provider \in {Unset, aiEnv'.provider}
        /\ \A p \in LLMs : aiFile'.key[p] \in {Unset, aiEnv'.key[p]}
    BY <1>1, <1>2, OverlayKeeps
  <1>6. EnvironmentHasStored'
    BY <1>5 DEF EnvironmentHasStored, Start
  <1> QED
    BY <1>4, <1>6 DEF ConfigInv

LEMMA NextConfigInv == ConfigInv /\ [ConfigNext]_configVars => ConfigInv'
  <1> SUFFICES ASSUME ConfigInv, [ConfigNext]_configVars PROVE ConfigInv'
    OBVIOUS
  <1>1. ASSUME NEW p \in LLMs, NEW model \in Models \cup {Unset}, NEW secret \in Secrets \cup {Unset},
               SaveAIConfig(p, model, secret)
        PROVE  ConfigInv'
    BY <1>1, SaveAIKeeps
  <1>2. ASSUME NEW c \in Clouds, NEW creds \in [CloudKeys -> Secrets \cup {Unset}],
               SaveProviderConfig(c, creds)
        PROVE  ConfigInv'
    BY <1>2, SaveProviderKeeps
  <1>3. CASE Restart
    BY <1>3, StartKeeps DEF Restart, ConfigInv, ConfigTypeOK
  <1>4. CASE CrashInSave
    <2>1. NoClouds \in CloudValues
      BY DEF NoClouds, CloudValues
    <2> QED
      BY <1>4, <2>1, StartKeeps, NothingSetType DEF CrashInSave, ConfigInv, ConfigTypeOK
  <1>5. CASE UNCHANGED configVars
    BY <1>5 DEF configVars, ConfigInv, ConfigTypeOK, EnvironmentHasStored
  <1> QED
    BY <1>1, <1>2, <1>3, <1>4, <1>5 DEF ConfigNext

\* Every value in the files, the environment and the settings is one that may
\* be there, and the settings always name a provider and a model.
THEOREM ConfigTypesHold == ConfigSpec => []ConfigTypeOK
  <1>1. ConfigInv => ConfigTypeOK
    BY DEF ConfigInv
  <1> QED
    BY InitConfigInv, NextConfigInv, <1>1, PTL DEF ConfigSpec

\* Through saves, restarts and crashes in the middle of a save, the process
\* has in its environment what its files have.
THEOREM StoredIsInEnvironment == ConfigSpec => []EnvironmentHasStored
  <1>1. ConfigInv => EnvironmentHasStored
    BY DEF ConfigInv
  <1> QED
    BY InitConfigInv, NextConfigInv, <1>1, PTL DEF ConfigSpec

-----------------------------------------------------------------------------
(***************************************************************************)
(* The records of the knowledge base.  What a request has read may be old, *)
(* but what it says of attempts and of completion was true then, and that  *)
(* does not go back; a request that is alone on its record has read it as  *)
(* it is.                                                                  *)
(***************************************************************************)
On(r, x) == kbReq[r] # NoKBRequest /\ kbReq[r].on = x

RecordOK(x) ==
  /\ progress[x] = NoRecord => attempted[x] = 0
  /\ progress[x] # NoRecord =>
       /\ progress[x].completed => x \in earned
       /\ progress[x].attempts <= attempted[x]
       /\ x \in together \/ progress[x].attempts = attempted[x]
       /\ progress[x].lab /\ progress[x].score \in PassingScore..100 => x \in earned

RequestOK(r, x) ==
  /\ kbReq[r].loaded # NoRecord =>
       /\ progress[x] # NoRecord
       /\ kbReq[r].loaded.attempts <= attempted[x]
  /\ kbReq[r].op = "complete" => x \in earned /\ kbReq[r].loaded # NoRecord
  /\ x \notin together =>
       /\ kbReq[r].loaded = progress[x]
       /\ \A q \in KBRequests : On(q, x) => q = r

RecordsOK ==
  \A x \in Records : RecordOK(x) /\ \A r \in KBRequests : On(r, x) => RequestOK(r, x)



KBTypeOK ==
  /\ progress \in [Records -> Record \cup {NoRecord}]
  /\ kbReq \in [KBRequests -> KBRequest \cup {NoKBRequest}]
  /\ attempted \in [Records -> 0..MaxAttempts]
  /\ together \subseteq Records /\ earned \subseteq Records

\* A record that is there is not the one that stands for none.
LEMMA RecordIsThere ==
  ASSUME NEW rec \in Record
  PROVE  rec # NoRecord
  BY LearningAssumption DEF Record, NoRecord

RawRecord ==
  [completed : BOOLEAN, score : Scores \cup {NoScore}, attempts : Nat, lab : BOOLEAN]

\* What a request on a record writes: it counts from what it has read, and only
\* complete_chapter changes whether the chapter is completed.
LEMMA WriteOfRequest ==
  ASSUME KBTypeOK, NEW r \in KBRequests,
         \/ \E score \in Scores : UpdateQuiz(r, score)
         \/ StartChapter(r) \/ UpdateLab(r) \/ CompleteChapter(r)
  PROVE  \E new \in RawRecord, count \in {0, 1} :
           /\ KBWrite(r, new, count)
           /\ new.attempts = Base(r).attempts + count
           /\ new.completed <=> (Base(r).completed \/ kbReq[r].op = "complete")
  <1> DEFINE base == Base(r)
  <1>1. kbReq[r] \in KBRequest
    <2>1. kbReq[r].op \in {"quiz", "start", "lab", "complete"}
      BY DEF UpdateQuiz, StartChapter, UpdateLab, CompleteChapter
    <2>2. NoKBRequest.op = "none"
      BY DEF NoKBRequest
    <2>3. QED
      BY <2>1, <2>2 DEF KBTypeOK
  <1>2. base \in RawRecord
    BY <1>1, LearningAssumption DEF RawRecord, Base, KBRequest, Record, Started
  <1> HIDE DEF base
  <1>3. ASSUME NEW score \in Scores, UpdateQuiz(r, score)
        PROVE  \E new \in RawRecord :
                 /\ KBWrite(r, new, 1)
                 /\ new.attempts = base.attempts + 1
                 /\ new.completed <=> (base.completed \/ kbReq[r].op = "complete")
    <2> DEFINE scored == [base EXCEPT !.score = score]
               new == [scored EXCEPT !.attempts = base.attempts + 1]
    <2>1. scored \in RawRecord /\ scored.completed = base.completed
      BY <1>2 DEF RawRecord
    <2> HIDE DEF scored
    <2>2. new \in RawRecord /\ new.attempts = base.attempts + 1 /\ new.completed = scored.completed
      BY <1>2, <2>1 DEF RawRecord
    <2>3. new = [base EXCEPT !.score = score, !.attempts = base.attempts + 1]
      BY DEF scored
    <2>4. KBWrite(r, new, 1) /\ kbReq[r].op = "quiz"
      BY <1>3, <2>3, Zenon DEF UpdateQuiz, base
    <2>5. QED
      BY <1>2, <2>1, <2>2, <2>4
  <1>4. CASE StartChapter(r)
    <2>1. KBWrite(r, base, 0) /\ kbReq[r].op = "start"
      BY <1>4 DEF StartChapter, base
    <2>2. base.attempts = base.attempts + 0 /\ base.completed \in BOOLEAN
      BY <1>2 DEF RawRecord
    <2>3. QED
      BY <1>1, <1>2, <2>1, <2>2 DEF base
  <1>5. CASE UpdateLab(r)
    <2> DEFINE new == [base EXCEPT !.lab = TRUE]
    <2>1. KBWrite(r, new, 0) /\ kbReq[r].op = "lab"
      BY <1>5 DEF UpdateLab, base
    <2>2. new \in RawRecord /\ new.attempts = base.attempts /\ new.completed = base.completed
      BY <1>2 DEF RawRecord
    <2>3. base.attempts = base.attempts + 0
      BY <1>2 DEF RawRecord
    <2> HIDE DEF new
    <2>4. QED
      BY <1>1, <1>2, <2>1, <2>2, <2>3 DEF base
  <1>6. CASE CompleteChapter(r)
    <2> DEFINE new == [base EXCEPT !.completed = TRUE]
    <2>1. KBWrite(r, new, 0) /\ kbReq[r].op = "complete"
      BY <1>6 DEF CompleteChapter, base
    <2>2. new \in RawRecord /\ new.attempts = base.attempts /\ new.completed = TRUE
      BY <1>2 DEF RawRecord
    <2>3. base.attempts = base.attempts + 0
      BY <1>2 DEF RawRecord
    <2> HIDE DEF new
    <2>4. QED
      BY <1>1, <1>2, <2>1, <2>2, <2>3 DEF base
  <1> QED
    BY <1>1, <1>3, <1>4, <1>5, <1>6 DEF base

\* The record after the write.
LEMMA RecordWritten ==
  ASSUME KBTypeOK, RecordsOK, NEW r \in KBRequests, kbReq[r] \in KBRequest,
         NEW x \in Records, kbReq[r].on = x, NEW new \in RawRecord, NEW count \in {0, 1},
         kbReq[r].loaded = NoRecord => progress[x] = NoRecord,
         attempted[x] + count <= MaxAttempts,
         new.attempts = Base(r).attempts + count,
         new.completed <=> (Base(r).completed \/ kbReq[r].op = "complete"),
         NEW rec, rec = Changed(progress[x], kbReq[r].loaded, new)
  PROVE  /\ rec \in Record
         /\ rec.completed => x \in earned
         /\ progress[x].completed => rec.completed
         /\ rec.attempts <= attempted[x] + count
         /\ x \in together \/ rec.attempts = attempted[x] + count
  <1> DEFINE loaded == kbReq[r].loaded
             old == progress[x]
  <1>1. kbReq[r] # NoKBRequest /\ On(r, x)
    <2>1. kbReq[r].op # NoKBRequest.op
      BY DEF KBRequest, NoKBRequest, KBOps
    <2>2. QED
      BY <2>1 DEF On
  <1>2. RecordOK(x) /\ RequestOK(r, x)
    BY <1>1 DEF RecordsOK
  <1>3. old \in Record \cup {NoRecord} /\ loaded \in Record \cup {NoRecord} /\ attempted[x] \in Nat
    BY LearningAssumption DEF KBTypeOK, KBRequest
  <1>4. CASE loaded = NoRecord
    <2>1. old = NoRecord /\ rec = new /\ attempted[x] = 0 /\ kbReq[r].op # "complete"
      BY <1>2, <1>4 DEF Changed, RecordOK, RequestOK
    <2>2. new.attempts = count /\ ~new.completed
      BY <1>4, <2>1 DEF Base, Started
    <2>3. new \in Record
      BY <2>1, <2>2, LearningAssumption DEF RawRecord, Record
    <2>4. ~old.completed
      BY <2>1 DEF NoRecord
    <2>5. QED
      BY <2>1, <2>2, <2>3, <2>4
  <1>5. CASE loaded # NoRecord
    <2>1. loaded \in Record /\ old \in Record /\ old # NoRecord
      BY <1>2, <1>3, <1>5 DEF RequestOK
    <2>2. Base(r) = loaded
      BY <1>5 DEF Base
    <2>3. rec = [ completed |-> IF new.completed = loaded.completed THEN old.completed ELSE new.completed,
                  score     |-> IF new.score = loaded.score THEN old.score ELSE new.score,
                  attempts  |-> IF new.attempts = loaded.attempts THEN old.attempts ELSE new.attempts,
                  lab       |-> IF new.lab = loaded.lab THEN old.lab ELSE new.lab ]
      BY <1>5 DEF Changed
    <2> HIDE DEF loaded, old
    <2>4. /\ rec.attempts = IF new.attempts = loaded.attempts THEN old.attempts ELSE new.attempts
          /\ rec.completed = IF new.completed = loaded.completed THEN old.completed ELSE new.completed
      BY <2>3
    <2>5. /\ loaded.attempts \in Nat /\ old.attempts \in Nat
          /\ loaded.completed \in BOOLEAN /\ old.completed \in BOOLEAN /\ new.completed \in BOOLEAN
      BY <2>1, LearningAssumption DEF Record, RawRecord
    <2>6. new.attempts = loaded.attempts + count /\ loaded.attempts <= attempted[x]
      BY <1>2, <1>5, <2>2 DEF RequestOK, loaded
    <2>7. rec.attempts = IF count = 0 THEN old.attempts ELSE loaded.attempts + 1
      BY <2>4, <2>5, <2>6
    <2>8. old.attempts <= attempted[x] /\ (x \in together \/ old.attempts = attempted[x])
      BY <1>2, <2>1 DEF RecordOK, old
    <2>9. x \in together \/ loaded = old
      BY <1>2 DEF RequestOK, loaded, old
    <2>10. /\ rec.attempts \in Nat /\ rec.attempts <= attempted[x] + count
           /\ x \in together \/ rec.attempts = attempted[x] + count
      BY <1>3, <2>5, <2>6, <2>7, <2>8, <2>9
    <2>11. rec \in Record
      <3>1. rec.attempts \in 0..MaxAttempts
        BY <1>3, <2>10, LearningAssumption
      <3>2. rec \in RawRecord
        BY <2>1, <2>3, LearningAssumption DEF Record, RawRecord
      <3>3. QED
        BY <3>1, <3>2 DEF Record, RawRecord
    <2>12. rec.completed => x \in earned
      BY <1>2, <2>1, <2>2, <2>4, <2>5 DEF RecordOK, RequestOK, old
    <2>13. old.completed => rec.completed
      BY <2>2, <2>4, <2>5
    <2>14. QED
      BY <2>10, <2>11, <2>12, <2>13 DEF old
  <1> QED
    BY <1>4, <1>5

\* A write keeps what the records say, and no chapter becomes incomplete again.
LEMMA WriteKeepsRecords ==
  ASSUME KBTypeOK, RecordsOK, NEW r \in KBRequests,
         \/ \E score \in Scores : UpdateQuiz(r, score)
         \/ StartChapter(r) \/ UpdateLab(r) \/ CompleteChapter(r)
  PROVE  /\ KBTypeOK' /\ RecordsOK' /\ UNCHANGED kbRest
         /\ \A y \in Records : progress[y].completed => progress'[y].completed
  <1>1. kbReq[r] \in KBRequest /\ kbReq[r] # NoKBRequest
    <2>1. kbReq[r].op \in {"quiz", "start", "lab", "complete"}
      BY DEF UpdateQuiz, StartChapter, UpdateLab, CompleteChapter
    <2>2. NoKBRequest.op = "none"
      BY DEF NoKBRequest
    <2>3. QED
      BY <2>1, <2>2 DEF KBTypeOK
  <1>2. PICK new \in RawRecord, count \in {0, 1} :
          /\ KBWrite(r, new, count)
          /\ new.attempts = Base(r).attempts + count
          /\ new.completed <=> (Base(r).completed \/ kbReq[r].op = "complete")
    BY WriteOfRequest
  <1>3. PICK x \in Records : kbReq[r].on = x
    BY <1>1 DEF KBRequest
  <1> DEFINE rec == Changed(progress[x], kbReq[r].loaded, new)
  <1>4. /\ kbReq[r].loaded = NoRecord => progress[x] = NoRecord
        /\ attempted[x] + count <= MaxAttempts
        /\ progress' = [progress EXCEPT ![x] = rec]
        /\ attempted' = [attempted EXCEPT ![x] = attempted[x] + count]
        /\ earned' = IF rec.lab /\ rec.score \in PassingScore..100 THEN earned \cup {x} ELSE earned
        /\ kbReq' = [kbReq EXCEPT ![r] = NoKBRequest]
        /\ UNCHANGED <<together, kbRest>>
    BY <1>2, <1>3 DEF KBWrite
  <1>5. /\ rec \in Record
        /\ rec.completed => x \in earned
        /\ progress[x].completed => rec.completed
        /\ rec.attempts <= attempted[x] + count
        /\ x \in together \/ rec.attempts = attempted[x] + count
    BY <1>1, <1>2, <1>3, <1>4, RecordWritten
  <1> HIDE DEF rec
  <1>6. /\ \A y \in Records : progress'[y] = IF y = x THEN rec ELSE progress[y]
        /\ \A y \in Records : attempted'[y] = IF y = x THEN attempted[x] + count ELSE attempted[y]
        /\ \A q \in KBRequests : kbReq'[q] = IF q = r THEN NoKBRequest ELSE kbReq[q]
    BY <1>4 DEF KBTypeOK
  <1>7. attempted[x] \in Nat /\ count \in Nat /\ attempted[x] + count \in 0..MaxAttempts
    BY <1>4, LearningAssumption DEF KBTypeOK
  <1>8. KBTypeOK'
    BY <1>4, <1>5, <1>7 DEF KBTypeOK
  <1>9. earned \subseteq earned'
    BY <1>4
  <1>10. ASSUME NEW y \in Records PROVE RecordOK(y)'
    <2>1. CASE y = x
      <3>1. rec # NoRecord
        BY <1>5, RecordIsThere
      <3>2. rec.lab /\ rec.score \in PassingScore..100 => x \in earned'
        BY <1>4
      <3>3. QED
        BY <1>4, <1>5, <1>6, <1>9, <2>1, <3>1, <3>2 DEF RecordOK, NoRecord
    <2>2. CASE y # x
      BY <1>4, <1>6, <1>9, <2>2 DEF RecordsOK, RecordOK, NoRecord
    <2>3. QED
      BY <2>1, <2>2
  <1>11. ASSUME NEW y \in Records, NEW q \in KBRequests, On(q, y)'
         PROVE  RequestOK(q, y)'
    <2>1. q # r /\ kbReq'[q] = kbReq[q] /\ On(q, y) /\ NoRecord' = NoRecord
      BY <1>6, <1>11 DEF On, NoRecord
    <2>2. RequestOK(q, y) /\ On(r, x)
      BY <1>1, <1>3, <2>1 DEF RecordsOK, On
    <2>3. \A p \in KBRequests : On(p, y)' => On(p, y)
      BY <1>6 DEF On
    <2>4. CASE y # x
      <3>1. progress'[y] = progress[y] /\ attempted'[y] = attempted[y]
        BY <1>6, <2>4
      <3>2. QED
        BY <1>4, <1>9, <2>1, <2>2, <2>3, <3>1 DEF RequestOK
    <2>5. CASE y = x
      <3>1. x \in together
        BY <2>1, <2>2, <2>5 DEF RequestOK
      <3>2. rec # NoRecord
        BY <1>5, RecordIsThere
      <3>3. ASSUME kbReq[q].loaded # NoRecord
            PROVE  kbReq[q].loaded.attempts <= attempted[x] + count
        <4>1. kbReq[q].loaded.attempts <= attempted[x]
          BY <2>2, <2>5, <3>3 DEF RequestOK
        <4>2. kbReq[q] \in KBRequest
          BY <2>1 DEF KBTypeOK, On
        <4>3. kbReq[q].loaded.attempts \in Nat
          BY <3>3, <4>2, LearningAssumption DEF KBRequest, Record
        <4>4. QED
          BY <1>7, <4>1, <4>3
      <3>4. QED
        BY <1>4, <1>6, <1>9, <2>1, <2>2, <2>5, <3>1, <3>2, <3>3 DEF RequestOK
    <2>6. QED
      BY <2>4, <2>5
  <1>12. \A y \in Records : progress[y].completed => progress'[y].completed
    BY <1>5, <1>6
  <1> QED
    BY <1>4, <1>8, <1>10, <1>11, <1>12 DEF RecordsOK

\* A request that reads a record is alone on it, or is told not to be.
LEMMA ReadKeepsRecords ==
  ASSUME KBTypeOK, RecordsOK, NEW r \in KBRequests, NEW op \in KBOps, NEW x \in Records,
         KBRead(r, op, x)
  PROVE  KBTypeOK' /\ RecordsOK'
  <1> DEFINE new == [op |-> op, on |-> x, loaded |-> progress[x]]
  <1>1. /\ kbReq[r] = NoKBRequest /\ (op = "complete" => MayComplete(progress[x]))
        /\ kbReq' = [kbReq EXCEPT ![r] = new]
        /\ together' = IF \E q \in KBRequests : kbReq[q].on = x THEN together \cup {x} ELSE together
        /\ UNCHANGED <<progress, attempted, earned>>
    BY DEF KBRead
  <1>2. new \in KBRequest /\ new.on = x /\ new.op = op /\ new.loaded = progress[x]
    BY DEF KBTypeOK, KBRequest
  <1> HIDE DEF new
  <1>3. \A q \in KBRequests : kbReq'[q] = IF q = r THEN new ELSE kbReq[q]
    BY <1>1 DEF KBTypeOK
  <1>4. KBTypeOK'
    BY <1>1, <1>2 DEF KBTypeOK
  <1>5. NoRecord' = NoRecord /\ together \subseteq together'
    BY <1>1 DEF NoRecord
  <1>6. \A y \in Records : RecordOK(y)'
    BY <1>1, <1>5 DEF RecordsOK, RecordOK
  <1>7. ASSUME NEW y \in Records, NEW q \in KBRequests, On(q, y)'
        PROVE  RequestOK(q, y)'
    <2>1. CASE q # r
      <3>1. kbReq'[q] = kbReq[q] /\ On(q, y) /\ RequestOK(q, y)
        BY <1>3, <1>7, <2>1 DEF On, RecordsOK
      <3>2. y \notin together' => y # x
        BY <1>1, <3>1 DEF On
      <3>3. y # x => \A p \in KBRequests : On(p, y)' => On(p, y)
        BY <1>2, <1>3 DEF On
      <3>4. QED
        BY <1>1, <1>5, <3>1, <3>2, <3>3 DEF RequestOK
    <2>2. CASE q = r
      <3>1. y = x /\ kbReq'[q] = new
        BY <1>2, <1>3, <1>7, <2>2 DEF On
      <3>2. x \notin together' => \A p \in KBRequests : p # r => ~On(p, x)'
        BY <1>1, <1>3 DEF On
      <3>3. op = "complete" => x \in earned /\ progress[x] # NoRecord
        BY <1>1 DEF MayComplete, RecordsOK, RecordOK
      <3>4. progress[x] # NoRecord => progress[x].attempts <= attempted[x]
        BY DEF RecordsOK, RecordOK
      <3>5. QED
        BY <1>1, <1>2, <1>5, <2>2, <3>1, <3>2, <3>3, <3>4 DEF RequestOK
    <2>3. QED
      BY <2>1, <2>2
  <1> QED
    BY <1>4, <1>6, <1>7 DEF RecordsOK

\* A request that ends takes nothing with it.
LEMMA FailKeepsRecords ==
  ASSUME KBTypeOK, RecordsOK, NEW r \in KBRequests, KBFails(r)
  PROVE  KBTypeOK' /\ RecordsOK'
  <1>1. /\ UNCHANGED <<progress, attempted, together, earned>>
        /\ \A q \in KBRequests : kbReq'[q] = IF q = r THEN NoKBRequest ELSE kbReq[q]
    BY DEF KBFails, KBTypeOK
  <1>2. KBTypeOK'
    BY DEF KBFails, KBTypeOK
  <1>3. \A q \in KBRequests, y \in Records : On(q, y)' => On(q, y) /\ kbReq'[q] = kbReq[q]
    BY <1>1 DEF On
  <1>4. NoRecord' = NoRecord
    BY DEF NoRecord
  <1>5. \A y \in Records : RecordOK(y)'
    BY <1>1, <1>4 DEF RecordsOK, RecordOK
  <1>6. \A y \in Records, q \in KBRequests : On(q, y)' => RequestOK(q, y)'
    BY <1>1, <1>3, <1>4 DEF RecordsOK, RequestOK
  <1> QED
    BY <1>2, <1>5, <1>6 DEF RecordsOK

-----------------------------------------------------------------------------
(***************************************************************************)
(* The leaderboard.  The badges of a learner are asked for after the       *)
(* chapters were counted, and a completed chapter stays completed: whoever *)
(* was counted with every chapter is found with every chapter.             *)
(***************************************************************************)
RankingOK(r) ==
  ranking[r] # NotRanking =>
    \A l \in Learners : ranking[r].counts[l] = Cardinality(Chapters) =>
      /\ CompletedBy(l) = Chapters
      /\ l \in ranking[r].asked => l \in ranking[r].badges

BoardTypeOK ==
  /\ board \in [Learners -> Entry]
  /\ ranking \in [BoardRequests -> Ranking \cup {NotRanking}]

SessionTypeOK == session \in [done : SUBSET (1..Steps), current : 1..Steps, open : BOOLEAN]

BoardOK == BadgesFollowCounts /\ \A r \in BoardRequests : RankingOK(r)

LearningInv == KBTypeOK /\ BoardTypeOK /\ SessionTypeOK /\ RecordsOK /\ BoardOK

\* Who is counted with as many chapters as there are has completed them all.
LEMMA CompletedSize ==
  ASSUME NEW l
  PROVE  /\ Cardinality(CompletedBy(l)) \in 0..Cardinality(Chapters)
         /\ Cardinality(CompletedBy(l)) = Cardinality(Chapters) => CompletedBy(l) = Chapters
  <1>1. CompletedBy(l) \subseteq Chapters
    BY DEF CompletedBy
  <1>2. IsFiniteSet(CompletedBy(l)) /\ Cardinality(CompletedBy(l)) <= Cardinality(Chapters)
        /\ (Cardinality(CompletedBy(l)) = Cardinality(Chapters) => CompletedBy(l) = Chapters)
    BY <1>1, CurriculumAssumption, FS_Subset
  <1>3. Cardinality(CompletedBy(l)) \in Nat /\ Cardinality(Chapters) \in Nat
    BY <1>2, CurriculumAssumption, FS_CardinalityType
  <1> QED
    BY <1>2, <1>3

\* Completed chapters stay completed, and the rankings stay right.
LEMMA WritesKeepBoard ==
  ASSUME BoardOK, UNCHANGED <<board, ranking>>,
         \A y \in Records : progress[y].completed => progress'[y].completed
  PROVE  BoardOK'
  <1>1. \A l \in Learners : CompletedBy(l) \subseteq CompletedBy(l)'
    BY DEF CompletedBy, Records
  <1>2. \A l \in Learners : CompletedBy(l)' \subseteq Chapters
    BY DEF CompletedBy
  <1>3. NotRanking' = NotRanking
    BY DEF NotRanking
  <1> QED
    BY <1>1, <1>2, <1>3 DEF BoardOK, BadgesFollowCounts, RankingOK

\* The three statements of get_leaderboard keep the board right.
LEMMA RankingKeepsBoard ==
  ASSUME BoardTypeOK, BoardOK, NEW r \in BoardRequests,
         CountCompleted(r) \/ CacheBoard(r) \/ \E l \in Learners : GetBadges(r, l)
  PROVE  BoardTypeOK' /\ BoardOK' /\ UNCHANGED boardRest
  <1>1. UNCHANGED boardRest /\ progress' = progress
    BY DEF CountCompleted, CacheBoard, GetBadges, boardRest
  <1>2. /\ \A l \in Learners : CompletedBy(l)' = CompletedBy(l)
        /\ NotRanking' = NotRanking
    BY <1>1 DEF CompletedBy, NotRanking
  <1>3. CASE CountCompleted(r)
    <2> DEFINE counts == [l \in Learners |-> Cardinality(CompletedBy(l))]
               new == [counts |-> counts, badges |-> {}, asked |-> {}]
    <2>1. counts \in [Learners -> 0..Cardinality(Chapters)]
      BY CompletedSize
    <2>2. \A l \in Learners : counts[l] = Cardinality(Chapters) => CompletedBy(l) = Chapters
      BY CompletedSize
    <2> HIDE DEF counts
    <2>3. new \in Ranking /\ new.counts = counts /\ new.asked = {}
      BY <2>1 DEF Ranking
    <2>4. ranking' = [ranking EXCEPT ![r] = new] /\ board' = board
      BY <1>3 DEF CountCompleted, counts
    <2> HIDE DEF new
    <2>5. BoardTypeOK'
      BY <2>3, <2>4 DEF BoardTypeOK
    <2>6. \A q \in BoardRequests : ranking'[q] = IF q = r THEN new ELSE ranking[q]
      BY <2>4 DEF BoardTypeOK
    <2>7. \A q \in BoardRequests : RankingOK(q)'
      BY <1>2, <2>2, <2>3, <2>6 DEF BoardOK, RankingOK
    <2>8. QED
      BY <1>1, <2>4, <2>5, <2>7 DEF BoardOK, BadgesFollowCounts
  <1>4. ASSUME NEW l \in Learners, GetBadges(r, l)
        PROVE  BoardTypeOK' /\ BoardOK'
    <2> DEFINE old == ranking[r]
               asked == old.asked \cup {l}
               badges == IF CompletedBy(l) = Chapters THEN old.badges \cup {l} ELSE old.badges
               one == [old EXCEPT !.asked = asked]
               new == [one EXCEPT !.badges = badges]
    <2>1. old \in Ranking /\ old # NotRanking
      BY <1>4 DEF GetBadges, BoardTypeOK
    <2>2. asked \in SUBSET Learners /\ badges \in SUBSET Learners
      BY <2>1 DEF Ranking
    <2>3. ranking' = [ranking EXCEPT ![r] = new] /\ board' = board
      BY <1>4 DEF GetBadges
    <2> HIDE DEF asked, badges, old
    <2>4. one \in Ranking /\ one.counts = old.counts /\ one.asked = asked
      BY <2>1, <2>2 DEF Ranking
    <2> HIDE DEF one
    <2>5. new \in Ranking /\ new.counts = old.counts /\ new.asked = asked /\ new.badges = badges
      BY <2>2, <2>4 DEF Ranking
    <2> HIDE DEF new
    <2>6. BoardTypeOK'
      BY <2>3, <2>5 DEF BoardTypeOK
    <2>7. \A q \in BoardRequests : ranking'[q] = IF q = r THEN new ELSE ranking[q]
      BY <2>3 DEF BoardTypeOK
    <2>8. \A k \in Learners : old.counts[k] = Cardinality(Chapters) =>
            /\ CompletedBy(k) = Chapters
            /\ k \in asked => k \in badges
      BY <2>1 DEF BoardOK, RankingOK, old, asked, badges
    <2>9. \A q \in BoardRequests : RankingOK(q)'
      BY <1>2, <2>5, <2>7, <2>8 DEF BoardOK, RankingOK
    <2>10. QED
      BY <1>1, <2>3, <2>6, <2>9 DEF BoardOK, BadgesFollowCounts
  <1>5. CASE CacheBoard(r)
    <2> DEFINE old == ranking[r]
    <2>1. /\ old \in Ranking /\ old # NotRanking /\ old.asked = Learners
          /\ board' = Entries(old) /\ ranking' = [ranking EXCEPT ![r] = NotRanking]
      BY <1>5 DEF CacheBoard, BoardTypeOK
    <2>2. \A l \in Learners :
            [count |-> old.counts[l], badge |-> l \in old.badges] \in Entry
      BY <2>1 DEF Ranking, Entry
    <2>3. board' \in [Learners -> Entry]
      BY <2>1, <2>2 DEF Entries
    <2>4. \A l \in Learners : board'[l].count = old.counts[l] /\ board'[l].badge = (l \in old.badges)
      BY <2>1 DEF Entries
    <2>5. BadgesFollowCounts'
      BY <2>1, <2>4 DEF BoardOK, RankingOK, BadgesFollowCounts
    <2>6. \A q \in BoardRequests : ranking'[q] = IF q = r THEN NotRanking ELSE ranking[q]
      BY <2>1 DEF BoardTypeOK
    <2>7. \A q \in BoardRequests : RankingOK(q)'
      BY <1>2, <2>6 DEF BoardOK, RankingOK
    <2>8. BoardTypeOK'
      BY <2>1, <2>3 DEF BoardTypeOK
    <2>9. QED
      BY <1>1, <2>5, <2>7, <2>8 DEF BoardOK
  <1> QED
    BY <1>1, <1>3, <1>4, <1>5

\* A tutorial's cursor is on one of its steps.
LEMMA TutorialsKeepSession ==
  ASSUME SessionTypeOK, StartTutorial \/ \E i \in 1..Steps : CompleteStep(i)
  PROVE  SessionTypeOK' /\ UNCHANGED tutorialRest
  <1>1. CASE StartTutorial
    BY <1>1, LearningAssumption DEF StartTutorial, SessionTypeOK
  <1>2. ASSUME NEW i \in 1..Steps, CompleteStep(i)
        PROVE  SessionTypeOK' /\ UNCHANGED tutorialRest
    <2> DEFINE done == session.done \cup {i}
               current == IF i < Steps THEN i + 1 ELSE session.current
               one == [session EXCEPT !.done = done]
               new == [one EXCEPT !.current = current]
    <2>1. done \in SUBSET (1..Steps) /\ current \in 1..Steps
      BY LearningAssumption DEF SessionTypeOK
    <2>2. session' = new /\ UNCHANGED tutorialRest
      BY <1>2 DEF CompleteStep
    <2> HIDE DEF done, current
    <2>3. one \in [done : SUBSET (1..Steps), current : 1..Steps, open : BOOLEAN]
      BY <2>1 DEF SessionTypeOK
    <2> HIDE DEF one
    <2>4. new \in [done : SUBSET (1..Steps), current : 1..Steps, open : BOOLEAN]
      BY <2>1, <2>3
    <2> QED
      BY <2>2, <2>4 DEF SessionTypeOK
  <1> QED
    BY <1>1, <1>2

-----------------------------------------------------------------------------
\* LearningInv holds of the empty tables.
LEMMA InitLearningInv == LearningInit => LearningInv
  <1> SUFFICES ASSUME LearningInit PROVE LearningInv
    OBVIOUS
  <1>1. KBTypeOK
    BY LearningAssumption DEF LearningInit, KBTypeOK
  <1>2. Cardinality(Chapters) \in Nat /\ Cardinality(Chapters) # 0
    BY CurriculumAssumption, FS_CardinalityType, FS_EmptySet
  <1>3. BoardTypeOK
    BY <1>2 DEF LearningInit, BoardTypeOK, NoBoard, Entry
  <1>4. SessionTypeOK
    BY LearningAssumption DEF LearningInit, SessionTypeOK
  <1>5. RecordsOK
    BY DEF LearningInit, RecordsOK, RecordOK, On
  <1>6. BoardOK
    BY <1>2 DEF LearningInit, BoardOK, BadgesFollowCounts, RankingOK, NoBoard
  <1> QED
    BY <1>1, <1>3, <1>4, <1>5, <1>6 DEF LearningInv

\* Every step keeps LearningInv.
LEMMA LearningStep == LearningInv /\ [LearningNext]_learningVars => LearningInv'
  <1> SUFFICES ASSUME LearningInv, [LearningNext]_learningVars
               PROVE  LearningInv'
    OBVIOUS
  <1>1. KBTypeOK /\ BoardTypeOK /\ SessionTypeOK /\ RecordsOK /\ BoardOK
    BY DEF LearningInv
  <1>2. ASSUME UNCHANGED <<board, ranking, session>>, KBTypeOK', RecordsOK',
               \A y \in Records : progress[y].completed => progress'[y].completed
        PROVE  LearningInv'
    <2>1. BoardOK'
      BY <1>1, <1>2, WritesKeepBoard
    <2>2. BoardTypeOK' /\ SessionTypeOK'
      BY <1>1, <1>2 DEF BoardTypeOK, SessionTypeOK, Entry, Ranking, NotRanking
    <2>3. QED
      BY <1>2, <2>1, <2>2 DEF LearningInv
  <1>3. ASSUME UNCHANGED <<progress, kbReq, attempted, together, earned>>
        PROVE  KBTypeOK' /\ RecordsOK'
    <2>1. KBTypeOK'
      BY <1>1, <1>3 DEF KBTypeOK
    <2>2. NoRecord' = NoRecord /\ NoKBRequest' = NoKBRequest
      BY DEF NoRecord, NoKBRequest
    <2>3. \A x \in Records, r \in KBRequests :
            RecordOK(x)' = RecordOK(x) /\ On(r, x)' = On(r, x) /\ RequestOK(r, x)' = RequestOK(r, x)
      BY <1>3, <2>2 DEF RecordOK, RequestOK, On
    <2>4. \A x \in Records : RecordOK(x)'
      BY <1>1, <1>3, <2>2 DEF RecordsOK, RecordOK
    <2> QED
      BY <1>1, <2>1, <2>3, <2>4 DEF RecordsOK
  <1>4. ASSUME NEW r \in KBRequests, NEW op \in KBOps, NEW x \in Records, KBRead(r, op, x)
        PROVE  LearningInv'
    <2>1. KBTypeOK' /\ RecordsOK'
      BY <1>1, <1>4, ReadKeepsRecords
    <2>2. UNCHANGED <<board, ranking, session, progress>>
      BY <1>4 DEF KBRead, kbRest
    <2>3. QED
      BY <1>2, <2>1, <2>2
  <1>5. ASSUME NEW r \in KBRequests, KBFails(r)
        PROVE  LearningInv'
    <2>1. KBTypeOK' /\ RecordsOK'
      BY <1>1, <1>5, FailKeepsRecords
    <2>2. UNCHANGED <<board, ranking, session, progress>>
      BY <1>5 DEF KBFails, kbRest
    <2>3. QED
      BY <1>2, <2>1, <2>2
  <1>6. ASSUME NEW r \in KBRequests,
               \/ \E score \in Scores : UpdateQuiz(r, score)
               \/ StartChapter(r) \/ UpdateLab(r) \/ CompleteChapter(r)
        PROVE  LearningInv'
    BY <1>1, <1>2, <1>6, WriteKeepsRecords DEF kbRest
  <1>7. ASSUME NEW r \in BoardRequests,
               CountCompleted(r) \/ CacheBoard(r) \/ \E l \in Learners : GetBadges(r, l)
        PROVE  LearningInv'
    <2>1. BoardTypeOK' /\ BoardOK' /\ UNCHANGED boardRest
      BY <1>1, <1>7, RankingKeepsBoard
    <2>2. QED
      BY <1>1, <1>3, <2>1 DEF boardRest, LearningInv, SessionTypeOK
  <1>8. CASE StartTutorial \/ \E i \in 1..Steps : CompleteStep(i)
    <2>1. SessionTypeOK' /\ UNCHANGED tutorialRest
      BY <1>1, <1>8, TutorialsKeepSession
    <2>2. KBTypeOK' /\ RecordsOK' /\ BoardOK'
      BY <1>1, <1>3, <2>1, WritesKeepBoard DEF tutorialRest
    <2>3. BoardTypeOK'
      BY <1>1, <2>1 DEF tutorialRest, BoardTypeOK
    <2>4. QED
      BY <2>1, <2>2, <2>3 DEF LearningInv
  <1>9. CASE UNCHANGED learningVars
    BY <1>1, <1>2, <1>3, <1>9 DEF learningVars
  <1> QED
    BY <1>4, <1>5, <1>6, <1>7, <1>8, <1>9 DEF LearningNext

\* Every reachable state satisfies the inductive invariant.
THEOREM LearningInvariance == LearningSpec => []LearningInv
  BY InitLearningInv, LearningStep, PTL DEF LearningSpec

\* The records, the requests on them, the leaderboard and the tutorials are
\* well typed.
THEOREM LearningTypesHold == LearningSpec => []LearningTypeOK
  <1>1. LearningInv => LearningTypeOK
    BY DEF LearningInv, KBTypeOK, BoardTypeOK, SessionTypeOK, LearningTypeOK
  <1> QED
    BY <1>1, LearningInvariance, PTL

\* A chapter is completed only if its quiz was passed and its lab done at one
\* time, and the attempts are the quizzes submitted, or fewer if two requests
\* were on the record at once (update_quiz, complete_chapter).
THEOREM RecordsSayWhatHappenedAlways == LearningSpec => []RecordsSayWhatHappened
  <1>1. LearningInv => RecordsSayWhatHappened
    BY DEF LearningInv, RecordsOK, RecordOK, RecordsSayWhatHappened
  <1> QED
    BY <1>1, LearningInvariance, PTL

\* Who has completed every chapter according to the board has the badge on it
\* (get_leaderboard).
THEOREM BadgesFollowCountsAlways == LearningSpec => []BadgesFollowCounts
  <1>1. LearningInv => BadgesFollowCounts
    BY DEF LearningInv, BoardOK
  <1> QED
    BY <1>1, LearningInvariance, PTL

-----------------------------------------------------------------------------
(***************************************************************************)
(* What the summary and the risk of a plan promise, for every plan and for *)
(* every choice of the types that raise a flag.                            *)
(***************************************************************************)
\* The more a plan changes the more flags it raises.
LEMMA FlagsGrow ==
  ASSUME NEW fewer, NEW changes, fewer \subseteq changes
  PROVE  Flags(fewer) \subseteq Flags(changes)
BY DEF Flags

\* A plan is rated at least as risky as any part of it: a harmless change
\* that is added to a dangerous one never lowers the level.
THEOREM RiskIsMonotone ==
  ASSUME NEW fewer, NEW changes, fewer \subseteq changes
  PROVE  RiskLevel(fewer) <= RiskLevel(changes)
<1>1. Flags(fewer) \subseteq Flags(changes)
  BY FlagsGrow
<1>2. Flags(fewer) \subseteq FlagTypes /\ Flags(changes) \subseteq FlagTypes
  BY DEF Flags
<1>3. CASE "data_loss" \notin Flags(changes)
  <2>1. "data_loss" \notin Flags(fewer)
    BY <1>1, <1>3
  <2>2. RiskLevel(fewer) = (IF Flags(fewer) # {} THEN 1 ELSE 0)
    BY <2>1 DEF RiskLevel
  <2>3. RiskLevel(changes) = (IF Flags(changes) # {} THEN 1 ELSE 0)
    BY <1>3 DEF RiskLevel
  <2>. QED
    BY <1>1, <2>2, <2>3
<1>4. CASE "data_loss" \in Flags(changes) /\ "data_loss" \notin Flags(fewer)
  BY <1>4 DEF RiskLevel
<1>5. CASE "data_loss" \in Flags(fewer)
  <2>1. "data_loss" \in Flags(changes)
    BY <1>1, <1>5
  <2>2. RiskLevel(fewer) = (IF Flags(fewer) = {"data_loss"} THEN 2 ELSE 3)
    BY <1>5 DEF RiskLevel
  <2>3. RiskLevel(changes) = (IF Flags(changes) = {"data_loss"} THEN 2 ELSE 3)
    BY <2>1 DEF RiskLevel
  <2>4. Flags(changes) = {"data_loss"} => Flags(fewer) = {"data_loss"}
    BY <1>1, <1>5
  <2>. QED
    BY <2>2, <2>3, <2>4
<1>. QED
  BY <1>1, <1>3, <1>4, <1>5

\* The sizes of disjoint finite sets add up.
LEMMA DisjointSizes ==
  ASSUME NEW S, IsFiniteSet(S), NEW T, IsFiniteSet(T), S \cap T = {}
  PROVE  Cardinality(S \cup T) = Cardinality(S) + Cardinality(T)
<1>1. Cardinality(S \cup T) = Cardinality(S) + Cardinality(T) - Cardinality({})
  BY FS_Union
<1>2. Cardinality(S) \in Nat /\ Cardinality(T) \in Nat
  BY FS_CardinalityType
<1>. QED
  BY <1>1, <1>2, FS_EmptySet

\* A change that is not idle is of one of the four kinds the summary counts.
LEMMA KindsCover ==
  ASSUME NEW changes \in SUBSET Change
  PROVE  {c \in changes : ~Idle(c)} =
           (Replacements(changes) \cup Creates(changes)) \cup (Updates(changes) \cup Destroys(changes))
<1>1. ASSUME NEW c \in changes
      PROVE  \/ c.actions \in {{"no-op"}, {"read"}}
             \/ "create" \in c.actions \/ "update" \in c.actions \/ "delete" \in c.actions
  BY DEF Change, ActionSets
<1>. QED
  BY <1>1 DEF Replacements, Creates, Updates, Destroys, Idle, Replaces

\* The summary of a plan counts each of its changes once: its total is the
\* number of the changes that are not idle.
THEOREM SummaryCountsOnce ==
  ASSUME NEW changes \in SUBSET Change, IsFiniteSet(changes)
  PROVE  TotalIsRight(changes)
<1>. DEFINE R == Replacements(changes)
            C == Creates(changes)
            U == Updates(changes)
            D == Destroys(changes)
<1>1. /\ IsFiniteSet(R) /\ IsFiniteSet(C) /\ IsFiniteSet(U) /\ IsFiniteSet(D)
      /\ IsFiniteSet(R \cup C) /\ IsFiniteSet(U \cup D)
  <2>1. R \subseteq changes /\ C \subseteq changes /\ U \subseteq changes /\ D \subseteq changes
    BY DEF Replacements, Creates, Updates, Destroys
  <2>. QED
    BY <2>1, FS_Subset, FS_Union
<1>2. /\ R \cap C = {} /\ U \cap D = {} /\ (R \cup C) \cap (U \cup D) = {}
  BY DEF Replacements, Creates, Updates, Destroys
<1>3. Cardinality(R \cup C) = Cardinality(R) + Cardinality(C)
  BY <1>1, <1>2, DisjointSizes
<1>4. Cardinality(U \cup D) = Cardinality(U) + Cardinality(D)
  BY <1>1, <1>2, DisjointSizes
<1>5. Cardinality((R \cup C) \cup (U \cup D)) = Cardinality(R \cup C) + Cardinality(U \cup D)
  BY <1>1, <1>2, DisjointSizes
<1>6. /\ Cardinality(R) \in Nat /\ Cardinality(C) \in Nat
      /\ Cardinality(U) \in Nat /\ Cardinality(D) \in Nat
  BY <1>1, FS_CardinalityType
<1>. HIDE DEF R, C, U, D
<1>. QED
  <2>1. Cardinality({c \in changes : ~Idle(c)}) = Cardinality((R \cup C) \cup (U \cup D))
    BY KindsCover DEF R, C, U, D
  <2>2. TotalChanges(changes) = Cardinality(R) + Cardinality(C) + Cardinality(U) + Cardinality(D)
    BY DEF TotalChanges, R, C, U, D
  <2>. QED
    BY <1>3, <1>4, <1>5, <1>6, <2>1, <2>2 DEF TotalIsRight

-----------------------------------------------------------------------------
(***************************************************************************)
(* The run of the four parts: a behaviour in which one of them moves is    *)
(* one of each, so that what is proved of a part holds of it.              *)
(***************************************************************************)
THEOREM PartsAsAlone == Spec => AccessSpec /\ WorkspaceSpec /\ ConfigSpec /\ LearningSpec
  <1>1. Init => AccessInit /\ WorkspaceInit /\ ConfigInit /\ LearningInit
    BY DEF Init
  <1>2. [Next]_vars => /\ [AccessNext]_accessVars /\ [WorkspaceNext]_wsVars
                       /\ [ConfigNext]_configVars /\ [LearningNext]_learningVars
    BY DEF Next, vars, AccessPart, FilesPart, ConfigPart, LearningPart
  <1> QED
    BY <1>1, <1>2, PTL DEF Spec, AccessSpec, WorkspaceSpec, ConfigSpec, LearningSpec

\* The tables, files, settings and requests of the four parts are always of
\* their types.
THEOREM PartsTypesHold == Spec => []TypeOK
  <1>1. AccessTypeOK /\ WorkspaceTypeOK /\ ConfigTypeOK /\ LearningTypeOK => TypeOK
    BY DEF TypeOK
  <1> QED
    BY <1>1, PartsAsAlone, AccessTypesHold, WorkspaceTypesHold, ConfigTypesHold, LearningTypesHold, PTL
=============================================================================
