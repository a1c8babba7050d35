---------------------------- MODULE PlayerPages ----------------------------
(***************************************************************************)
(* The game's profiles as the dashboard sees them: the profile that a      *)
(* registration creates (src/src/web/handlers/join.rs), the one an         *)
(* administrator links to an account (src/src/web/handlers/admin.rs), and  *)
(* the pages that are computed from its file (src/src/spt/profiles.rs,     *)
(* src/src/web/handlers/profiles.rs) and from the tables of the game       *)
(* (src/src/spt/game_data.rs).  Passwords, codes and roles are the matter  *)
(* of Accounts.                                                            *)
(***************************************************************************)
EXTENDS Naturals, FiniteSets, Functions

CONSTANTS
  Players,     \* names of accounts, and of profiles
  Aids,        \* ids of profiles
  StashItems,       \* ids of items
  Kinds,       \* the ways in which items may have templates: item -> template
  CountOf,     \* item -> how many are stacked
  PriceList,   \* prices.json: template -> price
  Handbook,    \* handbook.json: template -> [parent, price]; a price may be missing
  Locale,      \* en.json: category -> its name
  MaxClerks,   \* bound on the handlers under way
  MaxBegun,    \* bound on the profiles with a character
  NoOne         \* no account, no profile, no file, no place, no price

Stash(a) == <<a, "stash">>
Equipment(a) == <<a, "equipment">>
Roots == {Stash(a) : a \in Aids} \cup {Equipment(a) : a \in Aids}
Profile == [name : Players, begun : BOOLEAN]

\* Items are no places, what is absent is nothing else, and a category has a name.
ASSUME PlayersAssumption ==
  /\ IsFiniteSet(StashItems) /\ MaxClerks \in Nat
  /\ NoOne \notin {"none"} \cup Aids \cup Profile \cup Roots \cup StashItems \cup Nat
  /\ "none" \notin Aids /\ Roots \cap StashItems = {}
  /\ \A i \in StashItems : CountOf[i] \in Nat
  /\ \A t \in DOMAIN PriceList : PriceList[t] \in Nat
  /\ \A t \in DOMAIN Handbook : Handbook[t].price \in Nat \cup {NoOne}
  /\ \A c \in DOMAIN Locale : Locale[c] # ""

VARIABLES
  profile,     \* aid -> [name, begun]: the file the game keeps, or NoOne
  parent,      \* item -> what it lies in, or NoOne
  linkOf,      \* account -> "none", the linked profile, or NoOne without the account
  clerks,      \* the handlers under way
  tables,      \* the tables were loaded when the dashboard started
  template     \* item -> its template, which never changes

playerVars == <<profile, parent, linkOf, clerks, tables, template>>

------------------------------------------------------------------------------
(* The tables                                                              *)

\* The flea market's prices first, the handbook's where there are none.
ItemPrice(t) ==
  IF ~tables THEN NoOne
  ELSE IF t \in DOMAIN PriceList THEN PriceList[t]
  ELSE IF t \in DOMAIN Handbook THEN Handbook[t].price ELSE NoOne

ItemCategory(t) ==
  IF tables /\ t \in DOMAIN Handbook /\ Handbook[t].parent \in DOMAIN Locale
  THEN Locale[Handbook[t].parent] ELSE "Other"

Value(t, count) == IF ItemPrice(t) = NoOne THEN 0 ELSE ItemPrice(t) * count

------------------------------------------------------------------------------
(* The stash                                                               *)

Kids(p) == {i \in StashItems : parent[i] = p}

\* From a place down: its items, what these hold, and so on, once for every item at most.
Levels(p) ==
  LET level[n \in 0..Cardinality(StashItems)] ==
        IF n = 0 THEN {p} ELSE UNION {Kids(q) : q \in level[n - 1]}
  IN level
WalkStashItems(p) == UNION {Levels(p)[n] : n \in 1..Cardinality(StashItems)}

LoadStashItems(a) == WalkStashItems(Stash(a))

\* Of the header: item by item.
CalculateStashValue(a) ==
  SumFunction([i \in WalkStashItems(Stash(a)) |-> Value(template[i], CountOf[i])])

\* Of the tab: template by template, those of the category asked for; "" for all.
Aggregated(a) ==
  [t \in {template[i] : i \in LoadStashItems(a)} |->
     SumFunctionOnSet(CountOf, {i \in LoadStashItems(a) : template[i] = t})]
AllCategories(a) == {ItemCategory(t) : t \in DOMAIN Aggregated(a)}
StashOf(a, category) ==
  SumFunction([t \in {t \in DOMAIN Aggregated(a) : category \in {"", ItemCategory(t)}} |->
                 Value(t, Aggregated(a)[t])])

\* A profile without a character has no details yet.
LoadProfileDetail(a) ==
  IF profile[a] = NoOne THEN [says |-> "Profile data unavailable", stashValue |-> 0]
  ELSE IF ~profile[a].begun THEN [says |-> "No raid yet", stashValue |-> 0]
  ELSE [says |-> "detail", stashValue |-> CalculateStashValue(a)]

\* The page of an account, and its tabs: what is missing is said on the page and not
\* found in the tabs, but the stash of nobody, or of no character, is empty.
ProfilePage(u) ==
  IF linkOf[u] \in Aids THEN LoadProfileDetail(linkOf[u])
  ELSE [says |-> IF linkOf[u] = NoOne THEN "NotFound" ELSE "No SPT profile linked", stashValue |-> 0]
LoadDetailForUser(u) ==
  IF ProfilePage(u).says = "detail" THEN ProfilePage(u)
  ELSE [says |-> "NotFound", stashValue |-> 0]
StashPartial(u, category) ==
  IF linkOf[u] = "none" \/ ~profile[linkOf[u]].begun THEN 0 ELSE StashOf(linkOf[u], category)

------------------------------------------------------------------------------
(* The list of accounts                                                    *)

LinkedTo(a) == {u \in Players : linkOf[u] = a}
ListProfiles == {a \in Aids : profile[a] # NoOne}
AvailableProfiles == {a \in ListProfiles : LinkedTo(a) = {}}

\* The row of an account; a file that is there and cannot be read says so.
ProfileStatus(u, readable) ==
  IF linkOf[u] \notin Aids \/ profile[linkOf[u]] = NoOne THEN "NotFound"
  ELSE IF linkOf[u] \in readable THEN "Found" ELSE "ParseError"

------------------------------------------------------------------------------
PlayersInit ==
  /\ profile = [a \in Aids |-> NoOne]
  /\ parent = [i \in StashItems |-> NoOne]
  /\ linkOf \in [Players -> {"none", NoOne}] /\ (\E u \in Players : linkOf[u] = "none")
  /\ clerks = {} /\ tables \in BOOLEAN /\ template \in Kinds

Clerk(t) == Cardinality(clerks) < MaxClerks /\ clerks' = clerks \cup {t}

\* join_submit: the game creates the profile of a new name.  It answers with its id, or
\* with nothing, and then the directory is searched for the name, five times.
FindProfileByUsername(u) == {a \in Aids : profile[a] # NoOne /\ profile[a].name = u}

RegisterProfile(u, a) ==
  /\ linkOf[u] = NoOne /\ profile[a] = NoOne /\ FindProfileByUsername(u) = {}
  /\ profile' = [profile EXCEPT ![a] = [name |-> u, begun |-> FALSE]]
  /\ \E found \in {a, "none"} :
       Clerk([act |-> "join", user |-> u, aid |-> found, free |-> {}])
  /\ UNCHANGED <<parent, linkOf, tables, template>>

\* The account, unless the name was taken meanwhile or the code was: then the
\* profile stays without one.
InsertUser(t) ==
  /\ t.act = "join" /\ clerks' = clerks \ {t}
  /\ \/ linkOf[t.user] = NoOne /\ linkOf' = [linkOf EXCEPT ![t.user] = t.aid]
     \/ UNCHANGED linkOf
  /\ UNCHANGED <<profile, parent, tables, template>>

\* link_profile: the file is there and nobody else has it; `free` remembers the others
\* who made sure of the same before this one writes.
NeverLinked(u, a) == FALSE  \* Mutant: nobody is asked.
AlreadyLinked(u, a) == LinkedTo(a) \ {u} # {}

LinkProfile(u, a) ==
  /\ linkOf[u] # NoOne /\ profile[a] # NoOne /\ ~AlreadyLinked(u, a)
  /\ Clerk([act |-> "link", user |-> u, aid |-> a, free |-> {v \in Players \ {u} : linkOf[v] # a}])
  /\ UNCHANGED <<profile, parent, linkOf, tables, template>>

UpdateUserSptProfileId(t) ==
  /\ t.act = "link" /\ clerks' = clerks \ {t}
  /\ linkOf' = IF linkOf[t.user] = NoOne THEN linkOf ELSE [linkOf EXCEPT ![t.user] = t.aid]
  /\ UNCHANGED <<profile, parent, tables, template>>

Unlink(u) ==
  /\ linkOf[u] # NoOne /\ linkOf' = [linkOf EXCEPT ![u] = "none"]
  /\ UNCHANGED <<profile, parent, clerks, tables, template>>

\* The account goes, the file stays.
AccountGoes(u) ==
  /\ linkOf[u] # NoOne /\ linkOf' = [linkOf EXCEPT ![u] = NoOne]
  /\ UNCHANGED <<profile, parent, clerks, tables, template>>

------------------------------------------------------------------------------
(* The game                                                                *)

\* The way up from an item: what it lies in, what that lies in, to a root or to nowhere.
HolderOf(x) == IF x \in StashItems THEN parent[x] ELSE x
WayUp(i) ==
  LET up[n \in 0..Cardinality(StashItems)] == IF n = 0 THEN i ELSE HolderOf(up[n - 1])
  IN up
RootOf(i) == WayUp(i)[Cardinality(StashItems)]
LiesIn(i, j) == \E n \in 0..Cardinality(StashItems) : WayUp(i)[n] = j

FirstRaid(a) ==
  /\ profile[a] # NoOne /\ ~profile[a].begun
  /\ Cardinality({b \in ListProfiles : profile[b].begun}) < MaxBegun
  /\ profile' = [profile EXCEPT ![a].begun = TRUE]
  /\ UNCHANGED <<parent, linkOf, clerks, tables, template>>

\* An item comes, with all it holds, to a place in the same profile.
Place(i, p) ==
  LET root == IF p \in StashItems THEN RootOf(p) ELSE p IN
  /\ root # NoOne /\ parent[i] # p
  /\ profile[root[1]] # NoOne /\ profile[root[1]].begun
  /\ RootOf(i) # NoOne => RootOf(i)[1] = root[1]
  /\ p \in StashItems => ~LiesIn(p, i)
  /\ parent' = [parent EXCEPT ![i] = p]
  /\ UNCHANGED <<profile, linkOf, clerks, tables, template>>

Leaves(i) ==
  /\ parent[i] # NoOne
  /\ parent' = [j \in StashItems |-> IF LiesIn(j, i) THEN NoOne ELSE parent[j]]
  /\ UNCHANGED <<profile, linkOf, clerks, tables, template>>

Wipe(a) ==
  /\ profile[a] # NoOne /\ profile[a].begun
  /\ profile' = [profile EXCEPT ![a].begun = FALSE]
  /\ parent' = [i \in StashItems |-> IF RootOf(i) \in {Stash(a), Equipment(a)} THEN NoOne ELSE parent[i]]
  /\ UNCHANGED <<linkOf, clerks, tables, template>>

\* The tables are read when the dashboard starts; what cannot be read leaves them empty.
TablesLoad ==
  /\ clerks' = {} /\ tables' \in BOOLEAN
  /\ UNCHANGED <<profile, parent, linkOf, template>>

PlayersNext ==
  \/ \E u \in Players, a \in Aids : RegisterProfile(u, a) \/ LinkProfile(u, a)
  \/ \E t \in clerks : InsertUser(t) \/ UpdateUserSptProfileId(t)
  \/ \E u \in Players : Unlink(u) \/ AccountGoes(u)
  \/ \E a \in Aids : FirstRaid(a) \/ Wipe(a)
  \/ \E i \in StashItems : Leaves(i) \/ \E p \in Roots \cup StashItems : Place(i, p)
  \/ TablesLoad

PlayersSpec == PlayersInit /\ [][PlayersNext]_playerVars

PlayersTypeOK ==
  /\ profile \in [Aids -> {NoOne} \cup Profile]
  /\ parent \in [StashItems -> {NoOne} \cup Roots \cup StashItems]
  /\ \A i \in StashItems : ~(\E j \in StashItems : parent[i] = j /\ LiesIn(j, i))
  /\ linkOf \in [Players -> {"none", NoOne} \cup Aids]
  /\ \A t \in clerks : /\ t.act \in {"join", "link"} /\ t.user \in Players
                       /\ t.aid \in Aids \cup {"none"} /\ t.free \subseteq Players
  /\ Cardinality(clerks) <= MaxClerks /\ tables \in BOOLEAN /\ template \in Kinds

------------------------------------------------------------------------------
\* The value on an account's page, summed item by item, is what lies in the stash of its
\* profile at any depth and has a price; the stash tab, which counts by template, comes
\* to the same, and its categories partition it.
StashAddsUp ==
  \A u \in Players : linkOf[u] \in Aids /\ profile[linkOf[u]].begun =>
    /\ ProfilePage(u) = LoadDetailForUser(u)
    /\ ProfilePage(u).stashValue =
         SumFunction([i \in {i \in StashItems : RootOf(i) = Stash(linkOf[u])} |->
                        Value(template[i], CountOf[i])])
    /\ StashPartial(u, "") = ProfilePage(u).stashValue
    /\ SumFunction([c \in AllCategories(linkOf[u]) |-> StashPartial(u, c)]) = StashPartial(u, "")

\* Every profile is offered to be linked, or shown in the row of an account.
OfferedOrShown ==
  \A a \in ListProfiles :
    a \in AvailableProfiles \/ \E u \in Players : linkOf[u] = a /\ ProfileStatus(u, {a}) = "Found"

\* Nobody comes to share the profile of another ("Profile is already linked to another
\* user", src/src/web/handlers/admin.rs), unless that one got it between the handler's
\* check and its write, or a registration brought it.  And the totals agree:
\* they are looked at when no handler is under way, for no handler matters to them.
ProfilesAgree ==
  [][/\ \A u, v \in Players :
          (u # v /\ linkOf'[u] \in Aids /\ linkOf'[u] = linkOf'[v] /\ linkOf[u] # linkOf'[u])
            => \E t \in clerks : t.user = u /\ (t.act = "join" \/ v \in t.free)
     /\ (clerks' = {} /\ linkOf' = linkOf => StashAddsUp')
     /\ OfferedOrShown']_playerVars
=============================================================================
