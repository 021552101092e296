--------------------------- MODULE Authorization ---------------------------
(***************************************************************************)
(* Access control of the API (api/auth and the handlers of api/api.go):    *)
(* the levels that the backends grant for a project, and how handlers ask  *)
(* for them while memberships and permissions change.                      *)
(***************************************************************************)
EXTENDS Integers, SequencesExt

CONSTANTS
    Groups, Names,  \* a project is named by its group and a name within it
    JobNames,       \* a job is named by its project and a name within it
    User,           \* who sends the requests
    LDAPGroups,     \* groups of the directory
    Permissions,    \* GitLab's: Guest is 10, Reporter 20, Developer 30, and
                    \* none is between these two
    MaxRules,       \* bound: rules in the configuration
    MaxChanges      \* bound: changes of access during one request

ASSUME AccessAssumption ==
    /\ User \notin LDAPGroups
    /\ Permissions \subseteq Nat \ ({0} \cup 21..29)
    /\ MaxRules \in Nat /\ MaxChanges \in Nat

VARIABLES
    backend, capitals, caseSensitive, rules,  \* configuration
    member,      \* LDAP: the groups of the user
    perms,       \* GitLab: the permissions of the user
    req,         \* the request being served
    changes, granted  \* auxiliary: changes, and levels documented, since it began

conf == <<backend, capitals, caseSensitive, rules>>
vars == <<conf, member, perms, req, changes, granted>>
-----------------------------------------------------------------------------
Projects == Groups \X Names

Jobs == Projects \X JobNames

NoAccess  == 0
ReadOnly  == 1
ReadWrite == 2
AccessLevel == {NoAccess, ReadOnly, ReadWrite}

(* A level that has not been asked for yet. *)
Unasked == 3

(* What a rule of an ACL may be about: a project, a group, or "*". *)
AllProjects == <<>>

Keys == Projects \cup {<<g>> : g \in Groups} \cup {AllProjects}

Subjects == {User} \cup LDAPGroups

(* The ACLs of the configuration; NoAccess stands for no rule. *)
ACLs ==
    {acl \in [Subjects -> [Keys -> AccessLevel]] :
        Cardinality({sk \in Subjects \X Keys : acl[sk[1]][sk[2]] # NoAccess}) <= MaxRules}

(* GitLab's permissions for a project and for its group; 0 is nil. *)
Perms == [project : Permissions \cup {0}, group : Permissions \cup {0}]

Request == [pc       : {"idle", "level", "search", "filter", "act", "done"},
            kind     : {"list", "read", "write"},
            job      : Jobs \cup {<<>>},
            jobs     : SUBSET Jobs,      \* what storage has given
            todo     : SUBSET Jobs,      \* the rest of them
            lvls     : [Projects -> AccessLevel \cup {Unasked}],
            readable : SUBSET Jobs,
            answer   : {"none", "ok", "forbidden", "error"}]

NoRequest == [pc |-> "idle", kind |-> "list", job |-> <<>>,
              jobs |-> {}, todo |-> {}, lvls |-> [p \in Projects |-> Unasked], readable |-> {},
              answer |-> "none"]

TypeOK ==
    /\ backend \in {"none", "gitlab", "ldap"}
    /\ capitals \in BOOLEAN
    /\ caseSensitive \in BOOLEAN
    /\ rules \in ACLs
    /\ member \subseteq LDAPGroups
    /\ perms \in [Projects -> Perms]
    /\ req \in Request
    /\ req.readable \cap req.todo = {}
    /\ req.answer # "none" <=> req.pc = "done"
    /\ changes \in 0..MaxChanges
    /\ granted \in [Projects -> SUBSET AccessLevel]

NoRules == [n \in Subjects |-> [k \in Keys |-> NoAccess]]

NoPerms == [project |-> 0, group |-> 0]

(* validateACL: rules give readonly or readwrite.  Either names in the     *)
(* directory are spelled as in the ACLs, or with capitals there.           *)
Init ==
    /\ \/ /\ backend = "none"
          /\ rules = NoRules
          /\ capitals = FALSE /\ caseSensitive = FALSE
          /\ perms = [p \in Projects |-> NoPerms] /\ member = {}
       \/ /\ backend = "gitlab"
          /\ rules = NoRules
          /\ capitals = FALSE /\ caseSensitive = FALSE
          /\ perms \in [Projects -> Perms] /\ member = {}
       \/ /\ backend = "ldap"
          /\ rules \in ACLs
          /\ capitals \in BOOLEAN /\ caseSensitive \in BOOLEAN
          /\ perms = [p \in Projects |-> NoPerms] /\ member \in SUBSET LDAPGroups
    /\ req = NoRequest
    /\ changes = 0
    /\ granted = [p \in Projects |-> {}]
-----------------------------------------------------------------------------
(* GetProjectAccessLevel of the backends.                                  *)

(* Where rules are looked up, in this order.                               *)
KeysOf(p) == <<p, <<p[1]>>, AllProjects>>

(* Names are in lower case in ACLs, and are put in lower case before they  *)
(* are looked up unless caseSensitiveNames is set.                         *)
InLowerCase == ~capitals \/ ~caseSensitive

(* Which of them have a rule.                                              *)
RulesFor(name, p) == {i \in 1..3 : rules[name][KeysOf(p)[i]] # NoAccess}

(* Mutant: the widest rule is taken. *)
WidestLevel(name, p) ==
    IF InLowerCase /\ RulesFor(name, p) # {}
    THEN rules[name][KeysOf(p)[Max(RulesFor(name, p))]] ELSE NoAccess

getLevelFromACL(name, p) ==
    IF InLowerCase /\ RulesFor(name, p) # {}
    THEN rules[name][KeysOf(p)[Min(RulesFor(name, p))]] ELSE NoAccess

(* The groups come in any order: one with read-write access ends the loop. *)
GroupsLevel(ldapGroups, p) ==
    LET levels == {getLevelFromACL(g, p) : g \in ldapGroups}
    IN  IF ReadWrite \in levels THEN ReadWrite
        ELSE IF ReadOnly \in levels THEN ReadOnly ELSE NoAccess

(* The greater of the permissions there are; an unknown token or project   *)
(* has none.                                                               *)
GitLabLevel(perm) ==
    LET lvl == Max({perm.project, perm.group})
    IN  IF lvl >= 30 THEN ReadWrite ELSE IF lvl = 20 THEN ReadOnly ELSE NoAccess
-----------------------------------------------------------------------------
Become(r) == req' = r /\ UNCHANGED <<conf, member, perms, changes, granted>>

(* Mutant: the handler does not return after it has answered. *)
AnswerAndGoOn(answer) == [req EXCEPT !.answer = answer]

Answer(answer) == [req EXCEPT !.pc = "done", !.answer = answer]

Project(j) == j[1]

(* Mutant: only jobs that may be changed are shown. *)
ListWritable(j, level) ==
    [req EXCEPT !.pc = "filter", !.todo = @ \ {j},
                !.readable = IF level = ReadWrite THEN @ \cup {j} ELSE @]

(* A job of the list is dealt with. *)
Filtered(j, level) ==
    [req EXCEPT !.pc = "filter", !.todo = @ \ {j},
                !.readable = IF level # NoAccess THEN @ \cup {j} ELSE @]

(* Mutant: levels are not remembered. *)
ForgetLevel(level) == req.lvls

Remember(level) == [req.lvls EXCEPT ![Project(req.job)] = level]

Required(kind) == IF kind = "write" THEN {ReadWrite} ELSE {ReadOnly, ReadWrite}

(* The handler is told the level: filterReadableJobs remembers it, the     *)
(* others go on or refuse.                                                 *)
Told(level) ==
    Become(CASE req.kind = "list" -> [Filtered(req.job, level) EXCEPT !.lvls = Remember(level)]
             [] req.kind # "list" /\ level \in Required(req.kind) -> [req EXCEPT !.pc = "act"]
             [] OTHER -> Answer("forbidden"))

(* A server is dialled that answers, the user is found and bound; what the *)
(* ACL of the user grants is final.                                        *)
Connect ==
    /\ req.pc = "level" /\ backend = "ldap"
    /\ LET userLevel == getLevelFromACL(User, Project(req.job)) IN
       IF userLevel # NoAccess THEN Told(userLevel) ELSE Become([req EXCEPT !.pc = "search"])

SearchGroups ==
    /\ req.pc = "search"
    /\ Told(GroupsLevel(member, Project(req.job)))

GetProject ==
    /\ req.pc = "level" /\ backend = "gitlab"
    /\ Told(GitLabLevel(perms[Project(req.job)]))

NoBackend ==
    /\ req.pc = "level" /\ backend = "none"
    /\ Told(ReadWrite)

BackendFails ==
    /\ req.pc \in {"level", "search"} /\ backend # "none"
    /\ Become(Answer("error"))
-----------------------------------------------------------------------------
(* What the documentation of the API says of access, for the properties:   *)
(* the rule about the project, or else about its group, or else about all; *)
(* the user first and then the maximum of the groups; and GitLab's roles.  *)

Granted(name, p) ==
    LET f == rules[name] IN
    IF ~InLowerCase THEN NoAccess
    ELSE IF f[p] # NoAccess THEN f[p]
    ELSE IF f[<<p[1]>>] # NoAccess THEN f[<<p[1]>>] ELSE f[AllProjects]

Documented(p) ==
    CASE backend = "none"   -> ReadWrite
      [] backend = "ldap"   -> IF Granted(User, p) # NoAccess THEN Granted(User, p)
                               ELSE Max({NoAccess} \cup {Granted(g, p) : g \in member})
      [] backend = "gitlab" ->
           LET roles == {perms[p].project, perms[p].group} IN
           IF \E r \in roles : r >= 30 THEN ReadWrite
           ELSE IF 20 \in roles THEN ReadOnly ELSE NoAccess
-----------------------------------------------------------------------------
(* The handlers.                                                           *)

Begin(r) ==
    /\ req.pc = "idle"
    /\ req' = r
    /\ granted' = [p \in Projects |-> {Documented(p)}]
    /\ UNCHANGED <<conf, member, perms, changes>>

(* getJobs and getGroupJobs read storage first. *)
ListJobs ==
    \E jobs \in {Jobs} \cup {{j \in Jobs : Project(j)[1] = g} : g \in Groups} :
        Begin([NoRequest EXCEPT !.pc = "filter", !.jobs = jobs, !.todo = jobs])

(* A job of a project that is new in the list, or known. *)
FilterJob(j) ==
    /\ req.pc = "filter" /\ j \in req.todo
    /\ Become(IF req.lvls[Project(j)] = Unasked THEN [req EXCEPT !.pc = "level", !.job = j]
              ELSE Filtered(j, req.lvls[Project(j)]))

ListDone ==
    /\ req.pc = "filter" /\ req.todo = {}
    /\ Become(Answer("ok"))

(* getJob, getProjectJobs and getTasks; createJob, updateJob, deleteJob    *)
(* and runJob.                                                             *)
UseJob(kind, j) ==
    Begin([NoRequest EXCEPT !.pc = "level", !.kind = kind, !.job = j])

(* Storage is read or written. *)
Act ==
    /\ req.pc = "act"
    /\ \E answer \in {"ok", "error"} : Become(Answer(answer))

(* The answer is sent. *)
End ==
    /\ req.pc = "done"
    /\ req' = NoRequest
    /\ changes' = 0
    /\ granted' = [p \in Projects |-> {}]
    /\ UNCHANGED <<conf, member, perms>>
-----------------------------------------------------------------------------
(* Somebody is made or ceases to be member of a group, or is given other   *)
(* permissions.                                                            *)
AccessChanges ==
    /\ \/ backend = "ldap" /\ member' \in SUBSET LDAPGroups /\ UNCHANGED perms
       \/ backend = "gitlab" /\ UNCHANGED member
          /\ \E p \in Projects, new \in Perms : perms' = [perms EXCEPT ![p] = new]
    /\ req.pc \notin {"idle", "done"} /\ changes < MaxChanges
    /\ changes' = changes + 1
    /\ UNCHANGED <<conf, req>>
    /\ granted' = [p \in Projects |-> granted[p] \cup {Documented(p)'}]

Next ==
    \/ ListJobs \/ ListDone \/ Act \/ End
    \/ \E j \in Jobs : FilterJob(j) \/ \E kind \in {"read", "write"} : UseJob(kind, j)
    \/ Connect \/ SearchGroups \/ GetProject \/ NoBackend \/ BackendFails
    \/ AccessChanges

Spec == Init /\ [][Next]_vars
-----------------------------------------------------------------------------
(* A request for one job is carried out, or refused, only if the user had, *)
(* or lacked, the access the documentation asks for while it was served.   *)
AccessJustified ==
    req.job # <<>> =>
        LET levels == granted[Project(req.job)] IN
        /\ req.pc = "act" => levels \cap Required(req.kind) # {}
        /\ req.kind # "list" /\ req.answer = "forbidden" => levels \ Required(req.kind) # {}

(* A list shows a job only if the user could see it, and leaves it out     *)
(* only if not, at some time while the list was made.                      *)
ListJustified ==
    req.kind = "list" =>
        \A j \in Jobs :
            /\ j \in req.readable => granted[Project(j)] \cap {ReadOnly, ReadWrite} # {}
            /\ j \in req.jobs \ (req.todo \cup req.readable) => NoAccess \in granted[Project(j)]

(* The jobs of a project are shown all or not at all, though access to it  *)
(* may change in the middle of the list.                                   *)
WholeProjects ==
    req.kind = "list" /\ req.answer = "ok" =>
        \A i, j \in Jobs :
            Project(i) = Project(j) => (i \in req.readable <=> j \in req.readable)
=============================================================================
