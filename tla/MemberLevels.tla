----------------------------- MODULE MemberLevels -----------------------------
(***************************************************************************)
(* The member levels of the users: totals of what each one recharged and   *)
(* spent, and a level that rises when a total reaches a threshold.  A hook *)
(* runs after a recharge or a paid order, outside its transaction: it adds *)
(* to a total, reads the user and raises the level if it is still the one  *)
(* it read.  Whoever else changes a user saves the whole row it has read:  *)
(* administrators who set a level, and the user's own logins, passwords    *)
(* and profile, which know nothing of levels and totals.                   *)
(***************************************************************************)
EXTENDS Naturals, FiniteSets

CONSTANTS
    Users,
    Hooks,              \* bound: hooks running at a time
    MaxLevel,           \* the levels are 1 .. MaxLevel, in their sort order
    Active,             \* the levels that are enabled
    RechargeThreshold,  \* of each level; 0: not reached by recharging
    SpendThreshold,     \* of each level; 0: not reached by spending
    DefaultLevel,       \* 0: there is none
    OrderHooks,         \* those that run for orders
    Savers,             \* bound: whole-row saves of users in progress at a time
    MaxSpent,           \* bound on each user's total_spent
    MaxSaves            \* bound on the whole-row saves of each user

ASSUME LevelsAssumption ==
    /\ MaxLevel \in Nat /\ Active \subseteq 1 .. MaxLevel
    /\ DefaultLevel \in 0 .. MaxLevel
    /\ RechargeThreshold \in [1 .. MaxLevel -> Nat]
    /\ SpendThreshold \in [1 .. MaxLevel -> Nat]
ASSUME BoundsAssumption == MaxSpent \in [Users -> Nat] /\ MaxSaves \in [Users -> Nat]
ASSUME HooksAssumption == OrderHooks \subseteq Hooks

VARIABLES
    user,    \* member_level_id, total_recharged, total_spent
    hook,    \* each run of OnRechargeCompleted or OnOrderPaid
    saver,   \* each save: the row read, and the level to be written with it
    saves,   \* saves begun of each user
    unsettled \* users a save has changed, or a hook has given up, since a hook last read them

memberVars == <<user, hook, saver, saves, unsettled>>

Level == 0 .. MaxLevel
MaxAttempts == 3

UserType == [level : Level, recharged : Nat, spent : Nat]

\* A hook: its step, its user, the total it adds to, how much, the attempts
\* made, the level it has read and the one it found.
HookType == [pc : {"idle", "count", "read", "upgrade"}, user : Users,
             total : {"recharged", "spent"}, amount : Nat,
             attempt : 0 .. MaxAttempts, seen : Level, target : Level]

\* A save: by whom, of which user, the row it has read and the level it writes.
SaverType == [pc : {"idle", "write"}, by : {"level", "account"}, user : Users,
              row : UserType, level : Level]

NewUser == [level |-> 0, recharged |-> 0, spent |-> 0]

Started(u, total, amount) ==
    [pc |-> "count", user |-> u, total |-> total, amount |-> amount,
     attempt |-> 0, seen |-> 0, target |-> 0]

AnyUser == CHOOSE u \in Users : TRUE
NoHook == [Started(AnyUser, "spent", 0) EXCEPT !.pc = "idle"]
NoSave == [pc |-> "idle", by |-> "level", user |-> AnyUser, row |-> NewUser, level |-> 0]

MemberInit ==
    /\ user = [u \in Users |-> NewUser]
    /\ hook = [h \in Hooks |-> NoHook]
    /\ saver = [s \in Savers |-> NoSave]
    /\ saves = [u \in Users |-> 0]
    /\ unsettled = {}

-----------------------------------------------------------------------------
MeetsThreshold(row, l) ==
    \/ RechargeThreshold[l] > 0 /\ row.recharged >= RechargeThreshold[l]
    \/ SpendThreshold[l] > 0 /\ row.spent >= SpendThreshold[l]

\* Enabled levels above the user's own whose threshold a total has reached.
Reached(row) == {l \in Active : l > row.level /\ MeetsThreshold(row, l)}

Highest(S) == {l \in S : \A k \in S : k <= l}

\* OnOrderPaid begins: an order of u was paid.
OrderPaid(h, u) ==
    /\ hook[h].pc = "idle"
    /\ user[u].spent < MaxSpent[u]
    /\ \A g \in OrderHooks : hook[g].pc # "count"
    /\ hook' = [hook EXCEPT ![h] = Started(u, "spent", 1)]
    /\ UNCHANGED <<user, saver, saves, unsettled>>

Count(h) ==
    LET k == hook[h] IN
    /\ k.pc = "count"
    /\ user' = [user EXCEPT ![k.user][k.total] = @ + k.amount]
    /\ hook' = [hook EXCEPT ![h].pc = "read"]
    /\ UNCHANGED <<saver, saves, unsettled>>

\* CheckAndUpgrade reads the user and looks for a level.
ReadMember(h) ==
    LET row == user[hook[h].user] IN
    /\ hook[h].pc = "read"
    /\ \/ Reached(row) = {} /\ hook' = [hook EXCEPT ![h] = NoHook]
       \/ \E l \in Highest(Reached(row)) :
             hook' = [hook EXCEPT ![h].pc = "upgrade", ![h].seen = row.level, ![h].target = l]
    /\ unsettled' = unsettled \ {hook[h].user}
    /\ UNCHANGED <<user, saver, saves>>

\* Mutant: a failed update is not tried again.
Bug_UpgradeOnce(h) ==
    LET k == hook[h] IN
    /\ k.pc = "upgrade"
    /\ IF user[k.user].level = k.seen
         THEN user' = [user EXCEPT ![k.user].level = k.target]
         ELSE UNCHANGED user
    /\ hook' = [hook EXCEPT ![h] = NoHook]
    /\ UNCHANGED <<saver, saves, unsettled>>

\* Mutant: the level is written whatever it has become.
Bug_UpgradeBlindly(h) ==
    LET k == hook[h] IN
    /\ k.pc = "upgrade"
    /\ user' = [user EXCEPT ![k.user].level = k.target]
    /\ hook' = [hook EXCEPT ![h] = NoHook]
    /\ UNCHANGED <<saver, saves, unsettled>>

\* UpdateMemberLevelIfCurrent; up to three attempts.
Upgrade(h) ==
    LET k == hook[h] IN
    /\ k.pc = "upgrade"
    /\ IF user[k.user].level = k.seen
         THEN /\ user' = [user EXCEPT ![k.user].level = k.target]
              /\ hook' = [hook EXCEPT ![h] = NoHook]
              /\ UNCHANGED unsettled
         ELSE \/ /\ k.attempt + 1 < MaxAttempts
                 /\ hook' = [hook EXCEPT ![h].pc = "read", ![h].attempt = @ + 1]
                 /\ UNCHANGED <<user, unsettled>>
              \/ /\ k.attempt + 1 = MaxAttempts
                 /\ hook' = [hook EXCEPT ![h] = NoHook]
                 /\ unsettled' = unsettled \cup {k.user}
                 /\ UNCHANGED user
    /\ UNCHANGED <<saver, saves>>

\* A user's row is read, without a lock, to be saved whole.
ReadRow(s, u, by, level) ==
    /\ saver[s].pc = "idle" /\ saves[u] < MaxSaves[u]
    /\ saver' = [saver EXCEPT ![s] = [pc |-> "write", by |-> by, user |-> u, row |-> user[u],
                                      level |-> level]]
    /\ saves' = [saves EXCEPT ![u] = @ + 1]
    /\ UNCHANGED <<user, hook, unsettled>>

SetUserLevel(s, u) == \E level \in Level : ReadRow(s, u, "level", level)

\* Of a user without a level.
AssignDefaultLevel(s, u) ==
    /\ DefaultLevel # 0 /\ user[u].level = 0
    /\ ReadRow(s, u, "level", DefaultLevel)

\* A login, a change of password, email or profile, or an administrator's edit
\* of the account: the level is saved as it was read.
UpdateAccount(s, u) == ReadRow(s, u, "account", user[u].level)

\* Every column of the row it read, the level and both totals included.
SaveRow(s) ==
    LET k == saver[s]
        row == [k.row EXCEPT !.level = k.level] IN
    /\ k.pc = "write"
    /\ user' = [user EXCEPT ![k.user] = row]
    /\ saver' = [saver EXCEPT ![s] = NoSave]
    /\ unsettled' = IF row = user[k.user] THEN unsettled ELSE unsettled \cup {k.user}
    /\ UNCHANGED <<hook, saves>>

BackfillDefaultLevel ==
    /\ DefaultLevel # 0
    /\ \E u \in Users : user[u].level = 0
    /\ user' = [u \in Users |-> IF user[u].level = 0 THEN [user[u] EXCEPT !.level = DefaultLevel]
                                ELSE user[u]]
    /\ UNCHANGED <<hook, saver, saves, unsettled>>

\* The hook fails or its process ends: what it has written stays.
HookLost(h) ==
    /\ hook[h].pc # "idle"
    /\ hook' = [hook EXCEPT ![h] = NoHook]
    /\ unsettled' = unsettled \cup {hook[h].user}
    /\ UNCHANGED <<user, saver, saves>>

HookStep(h) == Count(h) \/ ReadMember(h) \/ Upgrade(h)

MemberNext ==
    \/ \E h \in Hooks : HookStep(h) \/ HookLost(h)
    \/ \E h \in OrderHooks, u \in Users : OrderPaid(h, u)
    \/ \E s \in Savers, u \in Users :
          SetUserLevel(s, u) \/ AssignDefaultLevel(s, u) \/ UpdateAccount(s, u)
    \/ \E s \in Savers : SaveRow(s)
    \/ BackfillDefaultLevel

-----------------------------------------------------------------------------
MemberTypeOK ==
    /\ user \in [Users -> UserType]
    /\ hook \in [Hooks -> HookType]
    /\ saver \in [Savers -> SaverType]
    /\ saves \in [Users -> Nat]
    /\ unsettled \subseteq Users

\* When no hook runs for a user, its level is the highest one its totals
\* reach, unless a whole-row save that found another row than it had read or
\* set a level, a hook that was lost or one whose three attempts failed has
\* come after the last look at it: of two hooks that read the user before
\* either wrote, the one that lost looks again.
LevelCaughtUp ==
    \A u \in Users :
        \/ u \in unsettled
        \/ \E h \in Hooks : hook[h].pc # "idle" /\ hook[h].user = u
        \/ Reached(user[u]) = {}

\* A level never goes down but to the level a whole-row save carries, an
\* administrator's or the user's own: a hook that read the user before another
\* hook raised the level does not put it back.
UpgradeOnly ==
    [][\A u \in Users : user'[u].level < user[u].level =>
          \E s \in Savers : /\ saver[s].pc = "write" /\ saver'[s].pc = "idle"
                            /\ saver[s].user = u
                            /\ user'[u].level = saver[s].level]_memberVars
===============================================================================
