---------------------------- MODULE LinksProofs ----------------------------
(***************************************************************************)
(* For every set of agents, names and directories and every bound: what    *)
(* users put in a skills directory is kept; a plan is carried out in the   *)
(* directory it was made from; a command that ran to its end delivered     *)
(* every skill or told why not; a second pass over what a first one left   *)
(* has nothing to do; and what doctor says a repair would do is what it    *)
(* does.                                                                   *)
(*                                                                         *)
(* The invariant has five parts: BaseInv for the first two, ToldInv for    *)
(* what is known of a name while it is scanned, planned and carried out,   *)
(* and ForecastInv, QuietInv and SettledInv for the passes nobody disturbs *)
(***************************************************************************)
EXTENDS Links, TLAPS

(* Where one link is being retired, and where a plan is being carried out. *)
Removing == {"retire", "verify", "unlink"}
Applying == Removing \cup {"apply"}

(* A link being retired was inspected to be fu's, and what the move found  *)
(* lies aside until it is put back or removed.                             *)
RetiredInv ==
    /\ pc \in Removing => approved \in Object /\ approved.kind \in {"ours", "respelled"}
    /\ pc \in Removing => plan[name] \in {"remove", "rebuild"}
    /\ pc \in {"verify", "unlink"} => moved \in aside[cur][seen]
    /\ pc = "unlink" => moved = approved

TheirsInv == \A t \in theirs : t[3].kind = "foreign"

SwapsInv == swaps <= edits

(* Where a scan may have seen another directory than the one it took the   *)
(* identity of, the path was redirected.                                   *)
ListedInv ==
    /\ pc = "list" => at[cur] = seen \/ swaps >= 1
    /\ pc = "open" => listed = seen \/ (at[cur] # seen /\ swaps >= 1) \/ swaps >= 2

BaseInv == TypeOK /\ RetiredInv /\ TheirsInv /\ SwapsInv /\ ListedInv /\ ForeignKept /\ ActsOnListed

(* What a command that ran to its end promises of one name of one agent,   *)
(* but for the names fu refuses, which several agents tell of.             *)
Done(a, n) ==
    /\ at[a] \in Gens
    /\ Wanted(a, n) => entry[a][at[a]][n].kind = "ours" /\ content[n] = "dir"
    /\ ~Wanted(a, n) /\ n \notin ReservedBy(a) =>
       entry[a][at[a]][n].kind \notin {"ours", "respelled"}
    /\ n \in Desired(a) => entry[a][at[a]][n].kind # "foreign"

(* An agent is in turn until its plan is carried out or it is given up.    *)
Midway == {"mkdir", "rescan", "list", "open"} \cup Applying
TurnInv ==
    /\ pc \in Midway => cur \in todo
    /\ pc = "end" => todo = {}
    /\ pc = "idle" => changed = {}

(* What users had lies aside only if that is told, or about to be.         *)
AsideInv == pc # "idle" =>
    \A a \in Agents, g \in Gens : \A o \in aside[a][g] \ before[a][g] :
        o.kind = "foreign" =>
            \/ o \in told
            \/ \E n \in Names : <<a, n, "failed">> \in report
            \/ pc = "verify" /\ a = cur /\ g = seen /\ o = moved

(* The names fu refuses are told by the command, or by the agent that      *)
(* reserves them once it was reached.                                      *)
RefusedInv == pc # "idle" =>
    /\ InvalidReports \subseteq report
    /\ \A a \in Agents, n \in Names :
        /\ a \notin todo \/ (a = cur /\ pc \in Applying)
        /\ n \in ReservedBy(a) /\ <<a, n>> \in on
        => \E r \in report : r[1] = a /\ r[2] \in {n, "*"}

(* Where the scan of an undisturbed name is still what the directory holds *)
ScannedInv == \A n \in Names : <<cur, n>> \notin touched =>
    /\ pc = "mkdir" => at[cur] = "missing"
    /\ pc \in Midway \ {"mkdir"} => at[cur] = seen
    /\ pc = "open" => sight[n] \in {"unknown", SightOf(cur, n, entry[cur][seen][n])}

(* and what is left to do for it.                                          *)
PlannedInv == pc \in Applying => \A n \in Names :
    /\ plan[n] \in {"create", "rebuild"} => Wanted(cur, n)
    /\ plan[n] = "remove" => ~Wanted(cur, n)
    /\ <<cur, n>> \notin touched =>
        /\ plan[n] = "none" => DeliveryBlocked(cur, n) \/ Done(cur, n)
        /\ plan[n] = "create" => DeliveryBlocked(cur, n) \/ Held(n) = Nothing
        /\ n = name =>
            /\ pc = "retire" => Held(n) = approved
            /\ pc = "verify" => moved = approved
            /\ pc \in {"verify", "unlink"} => Held(n) = Nothing

DoneInv == pc # "idle" =>
    \A a \in Agents \ todo, n \in Names : <<a, n>> \notin touched =>
        DeliveryBlocked(a, n) \/ Done(a, n)

ToldInv == TurnInv /\ AsideInv /\ RefusedInv /\ ScannedInv /\ PlannedInv /\ DoneInv

--------------------------------------------------------------------------------
(* A pass nobody disturbs, of a run in which nothing failed.               *)
Clean == pc # "idle" /\ touched = {} /\ faults = 0

Untold(a, n, kinds) == \A k \in kinds : <<a, n, k>> \notin report
InTheWay == {"conflict", "disabled foreign"}
Unbegun(a, n) == <<a, n>> \notin changed /\ Untold(a, n, InTheWay \cup {"missing"})

(* The forecast of a name that was done with,                              *)
CameTrue(a, n) ==
    /\ <<a, n>> \in changed <=> forecast[a][n] \in Pending
    /\ <<a, n, "missing">> \in report <=> forecast[a][n] \in {"missing", "rebuild missing"}
    /\ ~Untold(a, n, InTheWay) <=> forecast[a][n] = "blocked"

(* of an agent that was not, which is still what one would say of it,      *)
StillSaid(a) == \A n \in Names : forecast[a][n] = Overview(a)[n] /\ Unbegun(a, n)

(* and of a name there is something left to do for.                        *)
HalfTrue(n) ==
    /\ Untold(cur, n, InTheWay \cup {"missing"})
    /\ content[n] = "dir" <=> forecast[cur][n] \in {"create", "rebuild"}
    /\ <<cur, n>> \in changed <=> forecast[cur][n] \in {"rebuild", "rebuild missing"}
    /\ forecast[cur][n] \in {"create", "missing", "rebuild", "rebuild missing"}

ForecastInv == Clean =>
    /\ \A a \in Agents, n \in Names : a \notin todo => CameTrue(a, n)
    /\ \A a \in todo : StillSaid(a) \/ (a = cur /\ pc \in Applying)
    /\ pc = "open" => sight = SightIn(cur, seen)
    /\ pc \in Applying => \A n \in Names :
        /\ plan[n] = "none" => CameTrue(cur, n)
        /\ plan[n] = "create" => HalfTrue(n) /\ Held(n) = Nothing
        /\ plan[n] = "remove" => forecast[cur][n] = "remove" /\ Unbegun(cur, n)
        /\ plan[n] = "rebuild" =>
            /\ Unbegun(cur, n)
            /\ forecast[cur][n] = IF content[n] = "dir" THEN "rebuild" ELSE "rebuild missing"
        /\ plan[n] \in {"remove", "rebuild"} /\ ~(n = name /\ pc \in {"verify", "unlink"}) =>
            Held(n).kind \in {"ours", "respelled"}

(* What another pass would leave alone.                                    *)
QuietName(a, n) == LET d == Diff(a, SightIn(a, at[a]))[n] IN
    d = "none" \/ (d = "create" /\ content[n] # "dir")
Quiet(a) == at[a] = "symlink" \/ (at[a] \in Gens /\ \A n \in Names : QuietName(a, n))

QuietInv == Clean =>
    /\ \A a \in Agents \ todo : Quiet(a)
    /\ pc \in Applying => \A n \in Names : plan[n] = "none" => QuietName(cur, n)

(* A pass over agents all of which are quiet has nothing to do.            *)
SettledInv == settled =>
    /\ touched = {} /\ changed = {} /\ pc \notin Removing /\ pc # "mkdir"
    /\ \A a \in Agents : Quiet(a)
    /\ pc = "apply" => \A n \in Names :
            plan[n] = "none" \/ (plan[n] = "create" /\ content[n] # "dir")

IInv == BaseInv /\ ToldInv /\ ForecastInv /\ QuietInv /\ SettledInv

(* What is said of a name.                                                 *)
Forecasts == Plans \cup {"missing", "rebuild missing", "blocked"}

(* What a clean pass knows of a name while it carries its plan out.        *)
Going(m) ==
    /\ plan[m] = "none" => CameTrue(cur, m) /\ QuietName(cur, m)
    /\ plan[m] = "create" => HalfTrue(m) /\ Held(m) = Nothing
    /\ plan[m] = "remove" => forecast[cur][m] = "remove" /\ Unbegun(cur, m)
    /\ plan[m] = "rebuild" =>
        /\ Unbegun(cur, m)
        /\ forecast[cur][m] = IF content[m] = "dir" THEN "rebuild" ELSE "rebuild missing"
    /\ plan[m] \in {"remove", "rebuild"} /\ ~(m = name /\ pc \in {"verify", "unlink"}) =>
        Held(m).kind \in {"ours", "respelled"}

(* The steps of a pass, about agent a or name n where they are about one.  *)
PassOf(a, n) ==
    \/ ScanIdentity(a) \/ ScanFails(a)
    \/ ListEntries \/ ListFails \/ MakeDir \/ MakeDirFails \/ Rescan \/ OpenDir
    \/ CreateMissing(n) \/ Create(n) \/ CreateFails(n) \/ Inspect(n) \/ InspectFails(n)
    \/ Retire \/ RetireFails \/ Verify \/ VerifyFails \/ Unlink \/ UnlinkFails
    \/ EndAgent \/ EndPass

(* The steps of the users, about agent a or name n.                        *)
UserOf(a, n) ==
    (\E g \in Gens : Meddle(a, g, n)) \/ Redirect(a) \/ Rework(n) \/ EditConfig(n)

--------------------------------------------------------------------------------
(* What a scan of a directory sees of each name.                           *)
LEMMA SightTypes ==
    ASSUME entry \in [Agents -> [Gens -> [Names -> Objects]]], NEW a \in Agents, NEW g \in Gens
    PROVE  SightIn(a, g) \in [Names -> Sights]
<1>1. \A n \in Names : entry[a][g][n] \in Objects
  OBVIOUS
<1>2. \A o \in Objects : o.kind \in {"none", "ours", "respelled", "foreign"}
  BY DEF Objects, Object, Nothing
<1>3. \A n \in Names : SightOf(a, n, entry[a][g][n]) \in Sights
  BY <1>1, <1>2 DEF SightOf, Sights
<1> QED BY <1>3 DEF SightIn

(* What is planned and told from what was seen.                            *)
LEMMA DiffTypes ==
    ASSUME NEW a \in Agents, NEW s \in [Names -> Sights]
    PROVE  /\ Diff(a, s) \in [Names -> Plans]
           /\ DiffReports(a, s) \subseteq Reports
           /\ ReservedReports(a) \subseteq Reports
<1>1. Diff(a, s) \in [Names -> Plans]
  BY DEF Diff, Plans
<1>2. \A n \in Names, k \in {"failed", "conflict", "disabled foreign", "reserved"} :
        <<a, n, k>> \in Reports
  BY DEF Reports
<1>3. Desired(a) \subseteq Names /\ ReservedBy(a) \subseteq Names
  BY DEF Desired, ReservedBy, Names
<1>4. DiffReports(a, s) \subseteq Reports
  BY <1>2, <1>3 DEF DiffReports
<1>5. ReservedReports(a) \subseteq Reports
  BY <1>2, <1>3 DEF ReservedReports
<1> QED BY <1>1, <1>4, <1>5

(* What a command tells of the names fu refuses.                           *)
LEMMA InvalidTypes == InvalidReports \subseteq Reports
<1>1. \A n \in Names : <<"fu.yaml", n, "invalid">> \in Reports
  BY DEF Reports
<1> QED BY <1>1 DEF InvalidReports, Names

(* What would be said of each name of an agent.                            *)
LEMMA OverviewTypes ==
    entry \in [Agents -> [Gens -> [Names -> Objects]]] =>
        \A a \in Agents : Overview(a) \in [Names -> Forecasts]
<1> SUFFICES ASSUME entry \in [Agents -> [Gens -> [Names -> Objects]]], NEW a \in Agents
             PROVE  Overview(a) \in [Names -> Forecasts]
  OBVIOUS
<1> DEFINE s == IF at[a] \in Gens THEN SightIn(a, at[a]) ELSE Nowhere
<1>1. s \in [Names -> Sights]
  BY SightTypes DEF Nowhere, Sights
<1>2. Diff(a, s) \in [Names -> Plans]
  BY <1>1, DiffTypes
<1>3. CASE at[a] = "symlink"
  BY <1>3 DEF Overview, Nowhere, Plans, Forecasts
<1>4. CASE at[a] # "symlink"
  <2>1. \A n \in Names : Diff(a, s)[n] \in Forecasts
    BY <1>2 DEF Forecasts
  <2> HIDE DEF s
  <2>2. Overview(a) = [n \in Names |->
        IF Diff(a, s)[n] = "create" /\ content[n] # "dir" THEN "missing"
        ELSE IF Diff(a, s)[n] = "rebuild" /\ s[n] = "broken" THEN "rebuild missing"
        ELSE IF Diff(a, s)[n] # "none" THEN Diff(a, s)[n]
        ELSE IF \E k \in {"conflict", "disabled foreign"} : <<a, n, k>> \in DiffReports(a, s)
             THEN "blocked" ELSE "none"]
    BY <1>4 DEF Overview, s
  <2> QED BY <2>1, <2>2 DEF Forecasts, Plans
<1> QED BY <1>3, <1>4

(* The first states are typed.                                             *)
LEMMA InitTypes == Init => TypeOK
<1> SUFFICES ASSUME Init PROVE TypeOK
  OBVIOUS
<1>1. (CHOOSE a \in Agents : TRUE) \in Agents
  BY LinksAssumption
<1>2. (CHOOSE a \in Names : TRUE) \in Names
  BY LinksAssumption DEF Names
<1>3. Nothing \in Objects
  BY DEF Objects
<1>4. /\ registered \subseteq Names /\ on \subseteq Agents \X registered
      /\ content \in [Names -> Contents]
      /\ at \in [Agents -> {"missing", "symlink"} \cup Gens]
  BY DEF Init, Contents
<1>5. entry \in [Agents -> [Gens -> [Names -> Objects]]]
  BY <1>3 DEF Init, Empty
<1>6. aside \in [Agents -> [Gens -> SUBSET Object]] /\
      before \in [Agents -> [Gens -> SUBSET Object]]
  BY DEF Init
<1>7. pc = "idle" /\ todo \subseteq Agents /\ cur \in Agents
  BY <1>1 DEF Init
<1>8. seen \in {"missing", "symlink"} \cup Gens /\ listed \in {"missing"} \cup Gens
  BY DEF Init
<1>9. sight \in [Names -> Sights] /\ plan \in [Names -> Plans]
  BY DEF Init, Nowhere, Sights, Plans
<1>10. name \in Names /\ {approved, moved} \subseteq Objects
  BY <1>2, <1>3 DEF Init
<1>11. report \subseteq Reports /\ changed \subseteq Agents \X Names /\ told \subseteq Object
  BY DEF Init
<1>12. forecast \in [Agents -> [Names -> Plans \cup {"missing", "rebuild missing", "blocked"}]]
  BY DEF Init, Plans
<1>13. touched \subseteq Agents \X Names /\ theirs \subseteq Agents \X Gens \X Object /\
       settled \in BOOLEAN
  BY DEF Init
<1>14. passes \in 0 .. MaxPasses /\ edits \in 0 .. MaxEdits /\ faults \in 0 .. MaxFaults /\
       swaps \in 0 .. MaxEdits
  BY LinksAssumption DEF Init
<1> QED BY <1>4, <1>5, <1>6, <1>7, <1>8, <1>9, <1>10, <1>11, <1>12, <1>13, <1>14 DEF TypeOK
(* The types, in the order the lemmas below prove them.                    *)
LEMMA Typed ==
    TypeOK <=>
      /\ registered \subseteq Names /\ on \subseteq Agents \X registered
      /\ content \in [Names -> Contents]
      /\ at \in [Agents -> {"missing", "symlink"} \cup Gens]
      /\ entry \in [Agents -> [Gens -> [Names -> Objects]]]
      /\ aside \in [Agents -> [Gens -> SUBSET Object]]
      /\ before \in [Agents -> [Gens -> SUBSET Object]]
      /\ pc \in {"idle", "agent", "mkdir", "rescan", "list", "open", "apply", "retire", "verify",
         "unlink", "end"}
      /\ todo \subseteq Agents
      /\ cur \in Agents
      /\ seen \in {"missing", "symlink"} \cup Gens
      /\ listed \in {"missing"} \cup Gens
      /\ pc \in {"rescan", "list", "open", "apply", "retire", "verify", "unlink"} => seen \in Gens
      /\ sight \in [Names -> Sights]
      /\ plan \in [Names -> Plans]
      /\ name \in Names
      /\ approved \in Objects /\ moved \in Objects
      /\ report \subseteq Reports
      /\ changed \subseteq Agents \X Names
      /\ told \subseteq Object
      /\ forecast \in [Agents -> [Names -> Forecasts]]
      /\ touched \subseteq Agents \X Names
      /\ theirs \subseteq Agents \X Gens \X Object
      /\ settled \in BOOLEAN
      /\ passes \in 0 .. MaxPasses
      /\ edits \in 0 .. MaxEdits
      /\ faults \in 0 .. MaxFaults
      /\ swaps \in 0 .. MaxEdits
BY DEF TypeOK, Forecasts

(* What one more object in a directory leaves of its type.                 *)
LEMMA EntryTyped ==
    ASSUME entry \in [Agents -> [Gens -> [Names -> Objects]]],
           NEW a \in Agents, NEW g \in Gens, NEW n \in Names, NEW o \in Objects
    PROVE  [entry EXCEPT ![a][g][n] = o] \in [Agents -> [Gens -> [Names -> Objects]]]
<1>1. entry[a] \in [Gens -> [Names -> Objects]] /\ entry[a][g] \in [Names -> Objects]
  OBVIOUS
<1>2. [entry[a][g] EXCEPT ![n] = o] \in [Names -> Objects]
  BY <1>1
<1>3. [entry[a] EXCEPT ![g] = [entry[a][g] EXCEPT ![n] = o]] \in [Gens -> [Names -> Objects]]
  BY <1>1, <1>2
<1>4. [entry EXCEPT ![a] = [entry[a] EXCEPT ![g] = [entry[a][g] EXCEPT ![n] = o]]]
        \in [Agents -> [Gens -> [Names -> Objects]]]
  BY <1>3
<1> QED BY <1>4

(* What a directory's retired names leave of their type.                   *)
LEMMA AsideTyped ==
    ASSUME aside \in [Agents -> [Gens -> SUBSET Object]],
           NEW a \in Agents, NEW g \in Gens, NEW s \in SUBSET Object
    PROVE  [aside EXCEPT ![a][g] = s] \in [Agents -> [Gens -> SUBSET Object]]
<1>1. [aside[a] EXCEPT ![g] = s] \in [Gens -> SUBSET Object]
  OBVIOUS
<1>2. [aside EXCEPT ![a] = [aside[a] EXCEPT ![g] = s]] \in [Agents -> [Gens -> SUBSET Object]]
  BY <1>1
<1> QED BY <1>2

(* The steps of a pass keep the types.                                     *)
LEMMA PassTypes ==
    ASSUME TypeOK, RetiredInv, NEW a \in Agents, NEW n \in Names, PassOf(a, n)
    PROVE  TypeOK'
<1>t1. registered \subseteq Names /\ on \subseteq Agents \X registered
  BY Typed
<1>t2. content \in [Names -> Contents]
  BY Typed
<1>t3. at \in [Agents -> {"missing", "symlink"} \cup Gens]
  BY Typed
<1>t4. entry \in [Agents -> [Gens -> [Names -> Objects]]]
  BY Typed
<1>t5. aside \in [Agents -> [Gens -> SUBSET Object]]
  BY Typed
<1>t6. before \in [Agents -> [Gens -> SUBSET Object]]
  BY Typed
<1>t7. pc \in {"idle", "agent", "mkdir", "rescan", "list", "open", "apply", "retire", "verify",
       "unlink", "end"}
  BY Typed
<1>t8. todo \subseteq Agents
  BY Typed
<1>t9. cur \in Agents
  BY Typed
<1>t10. seen \in {"missing", "symlink"} \cup Gens
  BY Typed
<1>t11. listed \in {"missing"} \cup Gens
  BY Typed
<1>t12. pc \in {"rescan", "list", "open", "apply", "retire", "verify", "unlink"} => seen \in Gens
  BY Typed
<1>t13. sight \in [Names -> Sights]
  BY Typed
<1>t14. plan \in [Names -> Plans]
  BY Typed
<1>t15. name \in Names
  BY Typed
<1>t16. approved \in Objects /\ moved \in Objects
  BY Typed
<1>t17. report \subseteq Reports
  BY Typed
<1>t18. changed \subseteq Agents \X Names
  BY Typed
<1>t19. told \subseteq Object
  BY Typed
<1>t20. forecast \in [Agents -> [Names -> Forecasts]]
  BY Typed
<1>t21. touched \subseteq Agents \X Names
  BY Typed
<1>t22. theirs \subseteq Agents \X Gens \X Object
  BY Typed
<1>t23. settled \in BOOLEAN
  BY Typed
<1>t24. passes \in 0 .. MaxPasses
  BY Typed
<1>t25. edits \in 0 .. MaxEdits
  BY Typed
<1>t26. faults \in 0 .. MaxFaults
  BY Typed
<1>t27. swaps \in 0 .. MaxEdits
  BY Typed
<1>r. /\ pc \in Removing => approved \in Object
      /\ pc \in {"verify", "unlink"} => moved \in Object
  BY <1>t5, <1>t9, <1>t12 DEF RetiredInv
<1> USE LinksAssumption DEF PassOf, Fault, Tell, Goto, Turn, NameTurn, NextAgent, FailAgent,
  Elsewhere, KeepDisk, Held, Hold, Planned, TellOf, Removed, EndRemoval, TakeBack, config, disk,
  scan, link, result, ghosts, bounds, ScanIdentity, ScanFails, ListEntries, ListFails, MakeDir,
  MakeDirFails, Rescan, OpenDir, Retire, RetireFails, Verify, VerifyFails, Unlink, UnlinkFails,
  EndAgent, EndPass, CreateMissing, Create, CreateFails, Inspect, InspectFails
<1>1. registered' \subseteq Names /\ on' \subseteq Agents \X registered'
  BY <1>t1
<1>2. content' \in [Names -> Contents]
  BY <1>t2
<1>3. at' \in [Agents -> {"missing", "symlink"} \cup Gens]
  BY <1>t3, <1>t9
<1>4. entry' \in [Agents -> [Gens -> [Names -> Objects]]]
  <2>1. Nothing \in Objects /\ OurLink \in Objects
    BY DEF Objects, OurLink, Object
  <2>2. CASE entry' = entry
    BY <2>2, <1>t4
  <2>3. CASE entry' # entry
    <3>1. seen \in Gens
      BY <2>3, <1>t12
    <3>2. (\E o \in Objects : entry' = [entry EXCEPT ![cur][seen][n] = o]) \/ \E o \in Objects :
          entry' = [entry EXCEPT ![cur][seen][name] = o]
      <4>1. CASE Create(n)
        BY <4>1, <2>1, <2>3
      <4>2. CASE Retire \/ Verify \/ VerifyFails
        BY <4>2, <2>1, <1>t16, <2>3
      <4> QED BY <4>1, <4>2, <2>3
    <3>3. ASSUME NEW m \in Names, NEW o \in Objects, entry' = [entry EXCEPT ![cur][seen][m] = o]
          PROVE  entry' \in [Agents -> [Gens -> [Names -> Objects]]]
      BY ONLY <3>1, <3>3, <1>t4, <1>t9, EntryTyped
    <3> QED BY ONLY <3>2, <3>3, <1>t15, n \in Names
  <2> QED BY <2>2, <2>3
<1>5. aside' \in [Agents -> [Gens -> SUBSET Object]]
  <2>1. aside' = aside \/
        (seen \in Gens /\ \E s \in SUBSET Object : aside' = [aside EXCEPT ![cur][seen] = s])
    <3>1. \A m \in Names : seen \in Gens => entry[cur][seen][m] \in Objects
      BY <1>t4, <1>t9
    <3>2. seen \in Gens => aside[cur][seen] \in SUBSET Object
      BY <1>t5, <1>t9
    <3>3. \A m \in Names : seen \in Gens /\ Held(m) # Nothing => aside[cur][seen] \cup
          {Held(m)} \in SUBSET Object
      BY <3>1, <3>2 DEF Objects
    <3>4. seen \in Gens => aside[cur][seen] \ {moved} \in SUBSET Object
      BY <3>2
    <3>5. CASE Retire
      BY <3>5, <3>2, <3>3, <1>t12, <1>t15
    <3>6. CASE Verify \/ VerifyFails \/ Unlink
      BY <3>6, <3>4, <1>t12
    <3>7. CASE ~Retire /\ ~Verify /\ ~VerifyFails /\ ~Unlink
      BY <3>7
    <3> QED BY <3>5, <3>6, <3>7
  <2>2. CASE aside' = aside
    BY <2>2, <1>t5
  <2>3. ASSUME seen \in Gens, NEW s \in SUBSET Object, aside' = [aside EXCEPT ![cur][seen] = s]
        PROVE  aside' \in [Agents -> [Gens -> SUBSET Object]]
    BY ONLY <2>3, <1>t5, <1>t9, AsideTyped
  <2> QED BY ONLY <2>1, <2>2, <2>3
<1>6. before' \in [Agents -> [Gens -> SUBSET Object]]
  BY <1>t6
<1>7. pc' \in {"idle", "agent", "mkdir", "rescan", "list", "open", "apply", "retire", "verify",
      "unlink", "end"}
  BY <1>t7
<1>8. todo' \subseteq Agents
  BY <1>t8, <1>t9
<1>9. cur' \in Agents
  BY <1>t9
<1>10. seen' \in {"missing", "symlink"} \cup Gens
  BY <1>t10, <1>t12, <1>t3, <1>t9
<1>11. listed' \in {"missing"} \cup Gens
  BY <1>t11
<1>12. pc' \in {"rescan", "list", "open", "apply", "retire", "verify", "unlink"} => seen' \in Gens
  BY <1>t12, <1>t3, <1>t9, <1>t7, <1>t10
<1>13. sight' \in [Names -> Sights]
  BY <1>t13, <1>t9, <1>t4, SightTypes DEF Sights
<1>14. plan' \in [Names -> Plans]
  BY <1>t13, <1>t14, <1>t15, <1>t9, DiffTypes DEF Plans
<1>15. name' \in Names
  BY <1>t15
<1>16. approved' \in Objects /\ moved' \in Objects
  BY <1>t16, <1>t4, <1>t9, <1>t12, <1>t15 DEF Objects
<1>17. report' \subseteq Reports
  <2>1. \A b \in Agents, m \in Names \cup {"*"},
        k \in {"failed", "skipped", "conflict", "missing"} : <<b, m, k>> \in Reports
    BY DEF Reports
  <2>2. CASE OpenDir
    <3>1. DiffReports(cur, sight) \cup ReservedReports(cur) \subseteq Reports
      BY <1>t9, <1>t13, DiffTypes
    <3>2. report' \subseteq report \cup (DiffReports(cur, sight) \cup ReservedReports(cur)) \cup
          {<<cur, "*", "failed">>}
      BY <2>2
    <3>3. <<cur, "*", "failed">> \in Reports
      BY <2>1, <1>t9
    <3> QED BY ONLY <3>1, <3>2, <3>3, <1>t17
  <2>3. CASE ~OpenDir
    <3>1. report' = report \/ \E b \in Agents, m \in Names \cup {"*"},
          k \in {"failed", "skipped", "conflict", "missing"} : report' = report \cup {<<b, m, k>>}
      BY <2>3, <1>t9, <1>t15
    <3>2. \E r \in Reports : report' \subseteq report \cup {r}
      BY ONLY <3>1, <2>1
    <3> QED BY ONLY <3>2, <1>t17
  <2> QED BY <2>2, <2>3
<1>18. changed' \subseteq Agents \X Names
  BY <1>t18, <1>t9, <1>t15
<1>19. told' \subseteq Object
  BY <1>t19, <1>t16, <1>r DEF Removing
<1>20. forecast' \in [Agents -> [Names -> Forecasts]]
  BY <1>t20
<1>21. touched' \subseteq Agents \X Names
  BY <1>t21
<1>22. theirs' \subseteq Agents \X Gens \X Object
  BY <1>t22
<1>23. settled' \in BOOLEAN
  BY <1>t23
<1>24. passes' \in 0 .. MaxPasses
  BY <1>t24
<1>25. edits' \in 0 .. MaxEdits
  BY <1>t25
<1>26. faults' \in 0 .. MaxFaults
  BY <1>t26
<1>27. swaps' \in 0 .. MaxEdits
  BY <1>t27
<1> HIDE DEF PassOf, Fault, Tell, Goto, Turn, NameTurn, NextAgent, FailAgent, Elsewhere, KeepDisk,
  Held, Hold, Planned, TellOf, Removed, EndRemoval, TakeBack, config, disk, scan, link, result,
  ghosts, bounds, ScanIdentity, ScanFails, ListEntries, ListFails, MakeDir, MakeDirFails, Rescan,
  OpenDir, Retire, RetireFails, Verify, VerifyFails, Unlink, UnlinkFails, EndAgent, EndPass,
  CreateMissing, Create, CreateFails, Inspect, InspectFails
<1> QED BY <1>1, <1>2, <1>3, <1>4, <1>5, <1>6, <1>7, <1>8, <1>9, <1>10, <1>11, <1>12, <1>13,
           <1>14, <1>15, <1>16, <1>17, <1>18, <1>19, <1>20, <1>21, <1>22, <1>23, <1>24, <1>25,
           <1>26, <1>27 DEF TypeOK, Forecasts

(* The commands keep the types.                                            *)
LEMMA CommandTypes ==
    ASSUME TypeOK, Command
    PROVE  TypeOK'
<1>t1. registered \subseteq Names /\ on \subseteq Agents \X registered
  BY Typed
<1>t2. content \in [Names -> Contents]
  BY Typed
<1>t3. at \in [Agents -> {"missing", "symlink"} \cup Gens]
  BY Typed
<1>t4. entry \in [Agents -> [Gens -> [Names -> Objects]]]
  BY Typed
<1>t5. aside \in [Agents -> [Gens -> SUBSET Object]]
  BY Typed
<1>t6. before \in [Agents -> [Gens -> SUBSET Object]]
  BY Typed
<1>t7. pc \in {"idle", "agent", "mkdir", "rescan", "list", "open", "apply", "retire", "verify",
       "unlink", "end"}
  BY Typed
<1>t8. todo \subseteq Agents
  BY Typed
<1>t9. cur \in Agents
  BY Typed
<1>t10. seen \in {"missing", "symlink"} \cup Gens
  BY Typed
<1>t11. listed \in {"missing"} \cup Gens
  BY Typed
<1>t12. pc \in {"rescan", "list", "open", "apply", "retire", "verify", "unlink"} => seen \in Gens
  BY Typed
<1>t13. sight \in [Names -> Sights]
  BY Typed
<1>t14. plan \in [Names -> Plans]
  BY Typed
<1>t15. name \in Names
  BY Typed
<1>t16. approved \in Objects /\ moved \in Objects
  BY Typed
<1>t17. report \subseteq Reports
  BY Typed
<1>t18. changed \subseteq Agents \X Names
  BY Typed
<1>t19. told \subseteq Object
  BY Typed
<1>t20. forecast \in [Agents -> [Names -> Forecasts]]
  BY Typed
<1>t21. touched \subseteq Agents \X Names
  BY Typed
<1>t22. theirs \subseteq Agents \X Gens \X Object
  BY Typed
<1>t23. settled \in BOOLEAN
  BY Typed
<1>t24. passes \in 0 .. MaxPasses
  BY Typed
<1>t25. edits \in 0 .. MaxEdits
  BY Typed
<1>t26. faults \in 0 .. MaxFaults
  BY Typed
<1>t27. swaps \in 0 .. MaxEdits
  BY Typed
<1> USE LinksAssumption DEF Command, Restore, Toggle, New, Rm, Begin, config, disk, scan, link,
  result, ghosts, bounds
<1>1. registered' \subseteq Names /\ on' \subseteq Agents \X registered'
  BY <1>t1 DEF Names
<1>2. content' \in [Names -> Contents]
  BY <1>t2 DEF Contents, Names
<1>3. at' \in [Agents -> {"missing", "symlink"} \cup Gens]
  BY <1>t3
<1>4. entry' \in [Agents -> [Gens -> [Names -> Objects]]]
  BY <1>t4
<1>5. aside' \in [Agents -> [Gens -> SUBSET Object]]
  BY <1>t5
<1>6. before' \in [Agents -> [Gens -> SUBSET Object]]
  BY <1>t6, <1>t5
<1>7. pc' \in {"idle", "agent", "mkdir", "rescan", "list", "open", "apply", "retire", "verify",
      "unlink", "end"}
  BY <1>t7
<1>8. todo' \subseteq Agents
  BY <1>t8
<1>9. cur' \in Agents
  BY <1>t9
<1>10. seen' \in {"missing", "symlink"} \cup Gens
  BY <1>t10
<1>11. listed' \in {"missing"} \cup Gens
  BY <1>t11
<1>12. pc' \in {"rescan", "list", "open", "apply", "retire", "verify", "unlink"} => seen' \in Gens
  BY <1>t12
<1>13. sight' \in [Names -> Sights]
  BY <1>t13
<1>14. plan' \in [Names -> Plans]
  BY <1>t14
<1>15. name' \in Names
  BY <1>t15
<1>16. approved' \in Objects /\ moved' \in Objects
  BY <1>t16
<1>17. report' \subseteq Reports
  <2>1. (InvalidReports \subseteq Reports)'
    BY InvalidTypes, PTL
  <2> QED BY <2>1
<1>18. changed' \subseteq Agents \X Names
  BY <1>t18
<1>19. told' \subseteq Object
  BY <1>t19
<1>20. forecast' \in [Agents -> [Names -> Forecasts]]
  <2>1. (entry \in [Agents -> [Gens -> [Names -> Objects]]] =>
        \A a \in Agents : Overview(a) \in [Names -> Forecasts])'
    BY OverviewTypes, PTL
  <2> QED BY <2>1, <1>4
<1>21. touched' \subseteq Agents \X Names
  BY <1>t21
<1>22. theirs' \subseteq Agents \X Gens \X Object
  BY <1>t22
<1>23. settled' \in BOOLEAN
  BY <1>t23
<1>24. passes' \in 0 .. MaxPasses
  BY <1>t24
<1>25. edits' \in 0 .. MaxEdits
  BY <1>t25
<1>26. faults' \in 0 .. MaxFaults
  BY <1>t26
<1>27. swaps' \in 0 .. MaxEdits
  BY <1>t27
<1> HIDE DEF Command, Restore, Toggle, New, Rm, Begin, config, disk, scan, link, result, ghosts,
  bounds
<1> QED BY <1>1, <1>2, <1>3, <1>4, <1>5, <1>6, <1>7, <1>8, <1>9, <1>10, <1>11, <1>12, <1>13,
           <1>14, <1>15, <1>16, <1>17, <1>18, <1>19, <1>20, <1>21, <1>22, <1>23, <1>24, <1>25,
           <1>26, <1>27 DEF TypeOK, Forecasts

(* The end of a pass and a crash keep the types.                           *)
LEMMA ForgetTypes ==
    ASSUME TypeOK, Return \/ Crash
    PROVE  TypeOK'
<1>t1. registered \subseteq Names /\ on \subseteq Agents \X registered
  BY Typed
<1>t2. content \in [Names -> Contents]
  BY Typed
<1>t3. at \in [Agents -> {"missing", "symlink"} \cup Gens]
  BY Typed
<1>t4. entry \in [Agents -> [Gens -> [Names -> Objects]]]
  BY Typed
<1>t5. aside \in [Agents -> [Gens -> SUBSET Object]]
  BY Typed
<1>t6. before \in [Agents -> [Gens -> SUBSET Object]]
  BY Typed
<1>t7. pc \in {"idle", "agent", "mkdir", "rescan", "list", "open", "apply", "retire", "verify",
       "unlink", "end"}
  BY Typed
<1>t8. todo \subseteq Agents
  BY Typed
<1>t9. cur \in Agents
  BY Typed
<1>t10. seen \in {"missing", "symlink"} \cup Gens
  BY Typed
<1>t11. listed \in {"missing"} \cup Gens
  BY Typed
<1>t12. pc \in {"rescan", "list", "open", "apply", "retire", "verify", "unlink"} => seen \in Gens
  BY Typed
<1>t13. sight \in [Names -> Sights]
  BY Typed
<1>t14. plan \in [Names -> Plans]
  BY Typed
<1>t15. name \in Names
  BY Typed
<1>t16. approved \in Objects /\ moved \in Objects
  BY Typed
<1>t17. report \subseteq Reports
  BY Typed
<1>t18. changed \subseteq Agents \X Names
  BY Typed
<1>t19. told \subseteq Object
  BY Typed
<1>t20. forecast \in [Agents -> [Names -> Forecasts]]
  BY Typed
<1>t21. touched \subseteq Agents \X Names
  BY Typed
<1>t22. theirs \subseteq Agents \X Gens \X Object
  BY Typed
<1>t23. settled \in BOOLEAN
  BY Typed
<1>t24. passes \in 0 .. MaxPasses
  BY Typed
<1>t25. edits \in 0 .. MaxEdits
  BY Typed
<1>t26. faults \in 0 .. MaxFaults
  BY Typed
<1>t27. swaps \in 0 .. MaxEdits
  BY Typed
<1> USE LinksAssumption DEF Return, Crash, Fault, Forget, Goto, config, disk, scan, link, result,
  ghosts, bounds
<1>1. registered' \subseteq Names /\ on' \subseteq Agents \X registered'
  BY <1>t1
<1>2. content' \in [Names -> Contents]
  BY <1>t2
<1>3. at' \in [Agents -> {"missing", "symlink"} \cup Gens]
  BY <1>t3
<1>4. entry' \in [Agents -> [Gens -> [Names -> Objects]]]
  BY <1>t4
<1>5. aside' \in [Agents -> [Gens -> SUBSET Object]]
  BY <1>t5
<1>6. before' \in [Agents -> [Gens -> SUBSET Object]]
  BY <1>t6, <1>t5
<1>7. pc' \in {"idle", "agent", "mkdir", "rescan", "list", "open", "apply", "retire", "verify",
      "unlink", "end"}
  BY <1>t7
<1>8. todo' \subseteq Agents
  BY <1>t8
<1>9. cur' \in Agents
  BY <1>t9
<1>10. seen' \in {"missing", "symlink"} \cup Gens
  BY <1>t10
<1>11. listed' \in {"missing"} \cup Gens
  BY <1>t11
<1>12. pc' \in {"rescan", "list", "open", "apply", "retire", "verify", "unlink"} => seen' \in Gens
  BY <1>t12
<1>13. sight' \in [Names -> Sights]
  BY <1>t13 DEF Sights, Nowhere
<1>14. plan' \in [Names -> Plans]
  BY <1>t14 DEF Plans, Nowhere
<1>15. name' \in Names
  BY <1>t15 DEF Names
<1>16. approved' \in Objects /\ moved' \in Objects
  BY <1>t16 DEF Objects
<1>17. report' \subseteq Reports
  BY <1>t17
<1>18. changed' \subseteq Agents \X Names
  BY <1>t18
<1>19. told' \subseteq Object
  BY <1>t19
<1>20. forecast' \in [Agents -> [Names -> Forecasts]]
  <2>1. Nowhere \in [Names -> Forecasts]
    BY DEF Nowhere, Forecasts, Plans
  <2> QED BY <2>1
<1>21. touched' \subseteq Agents \X Names
  BY <1>t21
<1>22. theirs' \subseteq Agents \X Gens \X Object
  BY <1>t22
<1>23. settled' \in BOOLEAN
  BY <1>t23
<1>24. passes' \in 0 .. MaxPasses
  BY <1>t24
<1>25. edits' \in 0 .. MaxEdits
  BY <1>t25
<1>26. faults' \in 0 .. MaxFaults
  BY <1>t26
<1>27. swaps' \in 0 .. MaxEdits
  BY <1>t27
<1> HIDE DEF Return, Crash, Fault, Forget, Goto, config, disk, scan, link, result, ghosts, bounds
<1> QED BY <1>1, <1>2, <1>3, <1>4, <1>5, <1>6, <1>7, <1>8, <1>9, <1>10, <1>11, <1>12, <1>13,
           <1>14, <1>15, <1>16, <1>17, <1>18, <1>19, <1>20, <1>21, <1>22, <1>23, <1>24, <1>25,
           <1>26, <1>27 DEF TypeOK, Forecasts

(* Users keep the types.                                                   *)
LEMMA UserTypes ==
    ASSUME TypeOK, SwapsInv, NEW a \in Agents, NEW n \in Names, UserOf(a, n)
    PROVE  TypeOK'
<1>t1. registered \subseteq Names /\ on \subseteq Agents \X registered
  BY Typed
<1>t2. content \in [Names -> Contents]
  BY Typed
<1>t3. at \in [Agents -> {"missing", "symlink"} \cup Gens]
  BY Typed
<1>t4. entry \in [Agents -> [Gens -> [Names -> Objects]]]
  BY Typed
<1>t5. aside \in [Agents -> [Gens -> SUBSET Object]]
  BY Typed
<1>t6. before \in [Agents -> [Gens -> SUBSET Object]]
  BY Typed
<1>t7. pc \in {"idle", "agent", "mkdir", "rescan", "list", "open", "apply", "retire", "verify",
       "unlink", "end"}
  BY Typed
<1>t8. todo \subseteq Agents
  BY Typed
<1>t9. cur \in Agents
  BY Typed
<1>t10. seen \in {"missing", "symlink"} \cup Gens
  BY Typed
<1>t11. listed \in {"missing"} \cup Gens
  BY Typed
<1>t12. pc \in {"rescan", "list", "open", "apply", "retire", "verify", "unlink"} => seen \in Gens
  BY Typed
<1>t13. sight \in [Names -> Sights]
  BY Typed
<1>t14. plan \in [Names -> Plans]
  BY Typed
<1>t15. name \in Names
  BY Typed
<1>t16. approved \in Objects /\ moved \in Objects
  BY Typed
<1>t17. report \subseteq Reports
  BY Typed
<1>t18. changed \subseteq Agents \X Names
  BY Typed
<1>t19. told \subseteq Object
  BY Typed
<1>t20. forecast \in [Agents -> [Names -> Forecasts]]
  BY Typed
<1>t21. touched \subseteq Agents \X Names
  BY Typed
<1>t22. theirs \subseteq Agents \X Gens \X Object
  BY Typed
<1>t23. settled \in BOOLEAN
  BY Typed
<1>t24. passes \in 0 .. MaxPasses
  BY Typed
<1>t25. edits \in 0 .. MaxEdits
  BY Typed
<1>t26. faults \in 0 .. MaxFaults
  BY Typed
<1>t27. swaps \in 0 .. MaxEdits
  BY Typed
<1> USE LinksAssumption DEF UserOf, Meddle, Redirect, Rework, EditConfig, Edit, Touch, KeepPass,
  config, disk, scan, link, result, ghosts, bounds
<1>1. registered' \subseteq Names /\ on' \subseteq Agents \X registered'
  BY <1>t1
<1>2. content' \in [Names -> Contents]
  BY <1>t2 DEF Contents
<1>3. at' \in [Agents -> {"missing", "symlink"} \cup Gens]
  BY <1>t3
<1>4. entry' \in [Agents -> [Gens -> [Names -> Objects]]]
  <2>1. entry' = entry \/ \E g \in Gens, o \in Objects : entry' = [entry EXCEPT ![a][g][n] = o]
    BY <1>t25 DEF Objects, Object
  <2>2. CASE entry' = entry
    BY <2>2, <1>t4
  <2>3. ASSUME NEW g \in Gens, NEW o \in Objects, entry' = [entry EXCEPT ![a][g][n] = o]
        PROVE  entry' \in [Agents -> [Gens -> [Names -> Objects]]]
    BY ONLY <2>3, <1>t4, EntryTyped, a \in Agents, n \in Names
  <2> QED BY ONLY <2>1, <2>2, <2>3
<1>5. aside' \in [Agents -> [Gens -> SUBSET Object]]
  BY <1>t5
<1>6. before' \in [Agents -> [Gens -> SUBSET Object]]
  BY <1>t6
<1>7. pc' \in {"idle", "agent", "mkdir", "rescan", "list", "open", "apply", "retire", "verify",
      "unlink", "end"}
  BY <1>t7
<1>8. todo' \subseteq Agents
  BY <1>t8
<1>9. cur' \in Agents
  BY <1>t9
<1>10. seen' \in {"missing", "symlink"} \cup Gens
  BY <1>t10
<1>11. listed' \in {"missing"} \cup Gens
  BY <1>t11
<1>12. pc' \in {"rescan", "list", "open", "apply", "retire", "verify", "unlink"} => seen' \in Gens
  BY <1>t12, <1>t10
<1>13. sight' \in [Names -> Sights]
  BY <1>t13
<1>14. plan' \in [Names -> Plans]
  BY <1>t14
<1>15. name' \in Names
  BY <1>t15
<1>16. approved' \in Objects /\ moved' \in Objects
  BY <1>t16 DEF Objects
<1>17. report' \subseteq Reports
  BY <1>t17
<1>18. changed' \subseteq Agents \X Names
  BY <1>t18
<1>19. told' \subseteq Object
  BY <1>t19
<1>20. forecast' \in [Agents -> [Names -> Forecasts]]
  BY <1>t20
<1>21. touched' \subseteq Agents \X Names
  BY <1>t21
<1>22. theirs' \subseteq Agents \X Gens \X Object
  <2>1. edits < MaxEdits => [kind |-> "foreign", id |-> edits + 1] \in Object
    BY <1>t25 DEF Object
  <2>2. \A t \in theirs' : t \in theirs \/ \E g \in Gens :
        (edits < MaxEdits /\ t = <<a, g, [kind |-> "foreign", id |-> edits + 1]>>)
    BY DEF Nothing
  <2> QED BY ONLY <2>1, <2>2, <1>t22, a \in Agents
<1>23. settled' \in BOOLEAN
  BY <1>t23
<1>24. passes' \in 0 .. MaxPasses
  BY <1>t24
<1>25. edits' \in 0 .. MaxEdits
  BY <1>t25
<1>26. faults' \in 0 .. MaxFaults
  BY <1>t26
<1>27. swaps' \in 0 .. MaxEdits
  BY <1>t27, <1>t25 DEF SwapsInv
<1> HIDE DEF UserOf, Meddle, Redirect, Rework, EditConfig, Edit, Touch, KeepPass, config, disk,
  scan, link, result, ghosts, bounds
<1> QED BY <1>1, <1>2, <1>3, <1>4, <1>5, <1>6, <1>7, <1>8, <1>9, <1>10, <1>11, <1>12, <1>13,
           <1>14, <1>15, <1>16, <1>17, <1>18, <1>19, <1>20, <1>21, <1>22, <1>23, <1>24, <1>25,
           <1>26, <1>27 DEF TypeOK, Forecasts

--------------------------------------------------------------------------------

(* A step is of one of five groups.                                        *)
LEMMA Groups ==
    ASSUME Next
    PROVE  \/ Command
           \/ \E a \in Agents, n \in Names : PassOf(a, n)
           \/ Return \/ Crash
           \/ \E a \in Agents, n \in Names : UserOf(a, n)
<1>1. Agents # {} /\ Names # {}
  BY LinksAssumption DEF Names
<1>2. ASSUME Pass PROVE (\E a \in Agents, n \in Names : PassOf(a, n)) \/ Return
  <2>1. PICK a \in Agents : TRUE
    BY <1>1
  <2>2. PICK n \in Names : TRUE
    BY <1>1
  <2> QED BY <1>2, <2>1, <2>2 DEF Pass, PassOf
<1>3. ASSUME User PROVE \E a \in Agents, n \in Names : UserOf(a, n)
  <2>1. PICK a \in Agents : TRUE
    BY <1>1
  <2>2. PICK n \in Names : TRUE
    BY <1>1
  <2> QED BY <1>3, <2>1, <2>2 DEF User, UserOf
<1> QED BY <1>2, <1>3 DEF Next

(* What the entries are once one of them changed.                          *)
LEMMA EntryAt ==
    ASSUME NEW f \in [Agents -> [Gens -> [Names -> Objects]]],
           NEW a \in Agents, NEW h \in Gens, NEW n \in Names, NEW o
    PROVE  \A b \in Agents, g \in Gens, k \in Names :
            [f EXCEPT ![a][h][n] = o][b][g][k] = IF b = a /\ g = h /\ k = n THEN o ELSE f[b][g][k]
<1>1. f[a] \in [Gens -> [Names -> Objects]] /\ f[a][h] \in [Names -> Objects]
  OBVIOUS
<1>2. \A b \in Agents : [f EXCEPT ![a][h][n] = o][b] = IF b = a
      THEN [f[a] EXCEPT ![h] = [f[a][h] EXCEPT ![n] = o]] ELSE f[b]
  OBVIOUS
<1>3. \A g \in Gens : [f[a] EXCEPT ![h] = [f[a][h] EXCEPT ![n] = o]][g] = IF g = h
      THEN [f[a][h] EXCEPT ![n] = o] ELSE f[a][g]
  BY <1>1
<1>4. \A k \in Names : [f[a][h] EXCEPT ![n] = o][k] = IF k = n THEN o ELSE f[a][h][k]
  BY <1>1
<1> QED BY ONLY <1>2, <1>3, <1>4

(* A pass removes only what it inspected to be fu's.                       *)
LEMMA RetiredStep ==
    ASSUME TypeOK, RetiredInv, NEW a \in Agents, NEW n \in Names, PassOf(a, n)
    PROVE  RetiredInv'
<1>t. /\ cur \in Agents /\ plan \in [Names -> Plans] /\ name \in Names
      /\ entry \in [Agents -> [Gens -> [Names -> Objects]]]
      /\ aside \in [Agents -> [Gens -> SUBSET Object]]
      /\ pc \in {"rescan", "list", "open", "apply", "retire", "verify", "unlink"} => seen \in Gens
  BY Typed
<1>h. seen \in Gens => Held(n) \in Objects /\ Held(name) \in Objects
  BY <1>t DEF Held
<1>o. \A o \in Objects : o.kind \in {"ours", "respelled"} => o \in Object
  BY DEF Objects, Nothing
<1> USE DEF RetiredInv, Removing, PassOf, Fault, Tell, Goto, Turn, NameTurn, NextAgent, FailAgent,
  Elsewhere, KeepDisk, Held, Hold, Planned, TellOf, Removed, EndRemoval, TakeBack, config, disk,
  scan, link, result, ghosts, bounds, ScanIdentity, ScanFails, ListEntries, ListFails, MakeDir,
  MakeDirFails, Rescan, OpenDir, Retire, RetireFails, Verify, VerifyFails, Unlink, UnlinkFails,
  EndAgent, EndPass, CreateMissing, Create, CreateFails, Inspect, InspectFails
<1>1. (pc \in Removing => approved \in Object /\ approved.kind \in {"ours", "respelled"})'
  BY <1>t, <1>h, <1>o
<1>2. (pc \in Removing => plan[name] \in {"remove", "rebuild"})'
  BY <1>t
<1>3. (pc \in {"verify", "unlink"} => moved \in aside[cur][seen])'
  BY <1>t
<1>4. (pc = "unlink" => moved = approved)'
  BY <1>t
<1> QED BY <1>1, <1>2, <1>3, <1>4

(* A pass lists and opens what it scanned, or was redirected.              *)
LEMMA ListedStep ==
    ASSUME TypeOK, ListedInv, ActsOnListed, NEW a \in Agents, NEW n \in Names, PassOf(a, n)
    PROVE  ListedInv' /\ ActsOnListed'
<1>t. /\ cur \in Agents /\ at \in [Agents -> {"missing", "symlink"} \cup Gens] /\ swaps \in Nat
      /\ {"missing", "symlink"} \cap Gens = {}
      /\ pc \in {"rescan", "list", "open", "apply", "retire", "verify", "unlink"} => seen \in Gens
  BY LinksAssumption, Typed
<1> USE DEF ListedInv, ActsOnListed, PassOf, Fault, Tell, Goto, Turn, NameTurn, NextAgent,
  FailAgent, Elsewhere, KeepDisk, Held, Hold, Planned, TellOf, Removed, EndRemoval, TakeBack,
  config, disk, scan, link, result, ghosts, bounds, ScanIdentity, ScanFails, ListEntries,
  ListFails, MakeDir, MakeDirFails, Rescan, OpenDir, Retire, RetireFails, Verify, VerifyFails,
  Unlink, UnlinkFails, EndAgent, EndPass, CreateMissing, Create, CreateFails, Inspect, InspectFails
<1>1. (pc = "list" => at[cur] = seen \/ swaps >= 1)'
  BY <1>t
<1>2. (pc = "open" => listed = seen \/ (at[cur] # seen /\ swaps >= 1) \/ swaps >= 2)'
  BY <1>t
<1>3. ActsOnListed'
  BY <1>t
<1> QED BY <1>1, <1>2, <1>3

(* A pass keeps what users put there: it moves or removes only what lies   *)
(* aside or is fu's.                                                       *)
LEMMA KeptStep ==
    ASSUME TypeOK, RetiredInv, TheirsInv, ForeignKept, NEW a \in Agents, NEW n \in Names,
           PassOf(a, n)
    PROVE  ForeignKept' /\ TheirsInv'
<1>t. /\ cur \in Agents /\ plan \in [Names -> Plans] /\ name \in Names
      /\ entry \in [Agents -> [Gens -> [Names -> Objects]]]
      /\ aside \in [Agents -> [Gens -> SUBSET Object]]
      /\ pc \in {"rescan", "list", "open", "apply", "retire", "verify", "unlink"} => seen \in Gens
      /\ theirs \subseteq Agents \X Gens \X Object
  BY Typed
<1>m. moved \in Objects
  BY Typed
<1> USE DEF RetiredInv, Removing, PassOf, Fault, Tell, Goto, Turn, NameTurn, NextAgent, FailAgent,
  Elsewhere, KeepDisk, Held, Hold, Planned, TellOf, Removed, EndRemoval, TakeBack, config, disk,
  scan, link, result, ghosts, bounds, ScanIdentity, ScanFails, ListEntries, ListFails, MakeDir,
  MakeDirFails, Rescan, OpenDir, Retire, RetireFails, Verify, VerifyFails, Unlink, UnlinkFails,
  EndAgent, EndPass, CreateMissing, Create, CreateFails, Inspect, InspectFails
<1>e. \A m \in Names, o \in Objects : seen \in Gens /\
      entry' = [entry EXCEPT ![cur][seen][m] = o] =>
        \A b \in Agents, g \in Gens, k \in Names :
            entry'[b][g][k] = IF b = cur /\ g = seen /\ k = m THEN o ELSE entry[b][g][k]
  BY ONLY <1>t, EntryAt
<1>a. \A s : seen \in Gens /\ aside' = [aside EXCEPT ![cur][seen] = s] =>
        \A b \in Agents, g \in Gens : aside'[b][g] = IF b = cur /\ g = seen THEN s ELSE aside[b][g]
  BY <1>t
<1>o. OurLink \in Objects /\ Nothing \in Objects
  BY LinksAssumption DEF OurLink, Objects, Object
<1>1. UNCHANGED theirs
  OBVIOUS
<1>2. TheirsInv'
  BY <1>1 DEF TheirsInv
<1>3. ASSUME NEW t \in theirs
      PROVE  ((\E m \in Names : entry[t[1]][t[2]][m] = t[3]) \/ t[3] \in aside[t[1]][t[2]])'
  <2>1. t[1] \in Agents /\ t[2] \in Gens /\ t[3] \in Object /\ t[3].kind = "foreign"
    BY <1>t DEF TheirsInv
  <2>2. t[3] # Nothing
    BY <2>1 DEF Nothing
  <2>3. (\E m \in Names : entry[t[1]][t[2]][m] = t[3]) \/ t[3] \in aside[t[1]][t[2]]
    BY DEF ForeignKept
  <2>4. CASE Create(n)
    <3>1. aside' = aside /\
          (entry' = entry \/
          (entry[cur][seen][n] = Nothing /\ seen \in Gens /\
          entry' = [entry EXCEPT ![cur][seen][n] = OurLink]))
      BY <2>4, <1>t
    <3> QED BY ONLY <3>1, <2>1, <2>2, <2>3, <1>e, <1>o, n \in Names
  <2>5. CASE Retire
    <3>1. \/ entry' = entry /\ aside' = aside
          \/ /\ seen \in Gens /\ entry' = [entry EXCEPT ![cur][seen][name] = Nothing]
             /\ aside' = [aside EXCEPT ![cur][seen] = aside[cur][seen] \cup
                {entry[cur][seen][name]}]
      BY <2>5, <1>t
    <3>2. CASE entry' = entry /\ aside' = aside
      BY ONLY <2>3, <3>2
    <3>3. CASE ~(entry' = entry /\ aside' = aside)
      <4>1. \A b \in Agents, g \in Gens, k \in Names :
                entry'[b][g][k] = IF b = cur /\ g = seen /\ k = name THEN Nothing
                  ELSE entry[b][g][k]
        BY ONLY <3>1, <3>3, <1>e, <1>o, <1>t
      <4>2. \A b \in Agents, g \in Gens : aside'[b][g] =
                IF b = cur /\ g = seen THEN aside[cur][seen] \cup {entry[cur][seen][name]}
                  ELSE aside[b][g]
        BY ONLY <3>1, <3>3, <1>a
      <4>3. CASE t[3] \in aside[t[1]][t[2]]
        BY ONLY <4>2, <4>3, <2>1
      <4>4. ASSUME NEW m \in Names, entry[t[1]][t[2]][m] = t[3]
            PROVE  ((\E k \in Names : entry[t[1]][t[2]][k] = t[3]) \/ t[3] \in aside[t[1]][t[2]])'
        <5>1. CASE t[1] = cur /\ t[2] = seen /\ m = name
          BY ONLY <4>2, <4>4, <5>1, <2>1
        <5>2. CASE ~(t[1] = cur /\ t[2] = seen /\ m = name)
          <6>1. entry'[t[1]][t[2]][m] = t[3]
            BY ONLY <4>1, <4>4, <5>2, <2>1
          <6> QED BY ONLY <6>1, m \in Names
        <5> QED BY <5>1, <5>2
      <4> QED BY ONLY <4>3, <4>4, <2>3
    <3> QED BY <3>2, <3>3
  <2>6. CASE Verify \/ VerifyFails
    <3>1. \/ entry' = entry /\ aside' = aside
          \/ /\ seen \in Gens /\ entry[cur][seen][name] = Nothing /\
                entry' = [entry EXCEPT ![cur][seen][name] = moved]
             /\ aside' = [aside EXCEPT ![cur][seen] = aside[cur][seen] \ {moved}]
      BY <2>6, <1>t
    <3>2. CASE entry' = entry /\ aside' = aside
      BY ONLY <2>3, <3>2
    <3>3. CASE ~(entry' = entry /\ aside' = aside)
      <4>1. \A b \in Agents, g \in Gens, k \in Names :
                entry'[b][g][k] = IF b = cur /\ g = seen /\ k = name THEN moved ELSE entry[b][g][k]
        BY ONLY <3>1, <3>3, <1>e, <1>m, <1>t
      <4>2. \A b \in Agents, g \in Gens : aside'[b][g] =
                IF b = cur /\ g = seen THEN aside[cur][seen] \ {moved} ELSE aside[b][g]
        BY ONLY <3>1, <3>3, <1>a
      <4>3. entry[cur][seen][name] = Nothing
        BY <3>1, <3>3
      <4>4. CASE t[3] \in aside[t[1]][t[2]]
        <5>1. CASE t[1] = cur /\ t[2] = seen /\ t[3] = moved
          <6>1. entry'[t[1]][t[2]][name] = t[3] /\ name \in Names
            BY ONLY <4>1, <5>1, <2>1, <1>t
          <6> QED BY ONLY <6>1
        <5>2. CASE ~(t[1] = cur /\ t[2] = seen /\ t[3] = moved)
          BY ONLY <4>2, <4>4, <5>2, <2>1
        <5> QED BY <5>1, <5>2
      <4>5. ASSUME NEW m \in Names, entry[t[1]][t[2]][m] = t[3]
            PROVE  ((\E k \in Names : entry[t[1]][t[2]][k] = t[3]) \/ t[3] \in aside[t[1]][t[2]])'
        <5>1. entry'[t[1]][t[2]][m] = t[3]
          BY ONLY <4>1, <4>3, <4>5, <2>1, <2>2, <1>t
        <5> QED BY ONLY <5>1, m \in Names
      <4> QED BY ONLY <4>4, <4>5, <2>3
    <3> QED BY <3>2, <3>3
  <2>8. CASE Unlink
    BY <2>1, <2>2, <2>3, <2>8, <1>t
  <2>9. CASE ~Create(n) /\ ~Retire /\ ~Verify /\ ~VerifyFails /\ ~Unlink
    <3>1. UNCHANGED <<entry, aside>>
      BY <2>9
    <3> QED BY <2>3, <3>1
  <2> QED BY <2>4, <2>5, <2>6, <2>8, <2>9
<1> QED BY <1>1, <1>2, <1>3 DEF ForeignKept

(* Commands, the end of a pass and a crash touch no directory.             *)
LEMMA OtherSteps ==
    ASSUME TypeOK, RetiredInv, TheirsInv, SwapsInv, ListedInv, ForeignKept, ActsOnListed,
           Command \/ Return \/ Crash
    PROVE  RetiredInv' /\ TheirsInv' /\ SwapsInv' /\ ListedInv' /\ ForeignKept' /\ ActsOnListed'
<1> USE LinksAssumption DEF RetiredInv, ListedInv, SwapsInv, ActsOnListed, Removing, Command,
  Restore, Toggle, New, Rm, Begin, config, disk, scan, link, result, ghosts, bounds, Return, Crash,
  Fault, Forget, Goto
<1>1. RetiredInv'
  OBVIOUS
<1>2. SwapsInv'
  BY Typed
<1>3. ListedInv'
  BY Typed
<1>4. ActsOnListed'
  OBVIOUS
<1>5. UNCHANGED <<entry, aside, theirs>>
  OBVIOUS
<1> QED BY <1>1, <1>2, <1>3, <1>4, <1>5 DEF ForeignKept, TheirsInv

(* Users take away only what they then no longer have there.               *)
LEMMA UserSteps ==
    ASSUME TypeOK, RetiredInv, TheirsInv, SwapsInv, ListedInv, ForeignKept, ActsOnListed,
           NEW a \in Agents, NEW n \in Names, UserOf(a, n)
    PROVE  RetiredInv' /\ TheirsInv' /\ SwapsInv' /\ ListedInv' /\ ForeignKept' /\ ActsOnListed'
<1>t. /\ cur \in Agents /\ at \in [Agents -> {"missing", "symlink"} \cup Gens] /\ swaps \in Nat /\
         edits \in Nat
      /\ entry \in [Agents -> [Gens -> [Names -> Objects]]]
      /\ aside \in [Agents -> [Gens -> SUBSET Object]]
      /\ theirs \subseteq Agents \X Gens \X Object
  BY Typed
<1> USE LinksAssumption DEF UserOf, Meddle, Redirect, Rework, EditConfig, Edit, Touch, KeepPass,
  config, disk, scan, link, result, ghosts, bounds
<1>1. RetiredInv'
  BY DEF RetiredInv, Removing
<1>2. SwapsInv'
  BY <1>t DEF SwapsInv
<1>3. ListedInv'
  BY <1>t DEF ListedInv
<1>4. ActsOnListed'
  BY <1>t DEF ActsOnListed
<1>5. TheirsInv'
  BY <1>t DEF TheirsInv
<1>6. ForeignKept'
  <2>1. CASE UNCHANGED <<entry, aside, theirs>>
    BY <2>1 DEF ForeignKept
  <2>2. ASSUME NEW g \in Gens, Meddle(a, g, n), NEW t \in theirs'
        PROVE  ((\E m \in Names : entry[t[1]][t[2]][m] = t[3]) \/ t[3] \in aside[t[1]][t[2]])'
    <3>1. PICK o \in Objects :
            /\ entry' = [entry EXCEPT ![a][g][n] = o]
            /\ theirs' = (theirs \ {<<a, g, entry[a][g][n]>>})
                            \cup IF o.kind = "foreign" THEN {<<a, g, o>>} ELSE {}
      <4>1. edits < MaxEdits => \A k \in {"ours", "respelled", "foreign"} :
            [kind |-> k, id |-> edits + 1] \in Objects
        BY Typed DEF Objects, Object
      <4>2. edits < MaxEdits /\ Nothing \in Objects
        BY <2>2 DEF Objects
      <4> QED BY <2>2, <4>1, <4>2
    <3>2. entry'[a][g][n] = o
      BY <3>1, <1>t
    <3>3. \A b \in Agents, h \in Gens, m \in Names : <<b, h, m>> # <<a, g, n>> =>
          entry'[b][h][m] = entry[b][h][m]
      BY <3>1, <1>t
    <3>4. UNCHANGED aside
      BY <2>2
    <3>5. CASE t \in theirs /\ t # <<a, g, entry[a][g][n]>>
      <4>1. t[1] \in Agents /\ t[2] \in Gens /\ t = <<t[1], t[2], t[3]>>
        BY <3>5, <1>t
      <4>2. (\E m \in Names : entry[t[1]][t[2]][m] = t[3]) \/ t[3] \in aside[t[1]][t[2]]
        BY <3>5 DEF ForeignKept
      <4> QED BY ONLY <4>1, <4>2, <3>3, <3>4, <3>5
    <3>6. CASE t = <<a, g, o>>
      BY <3>2, <3>6
    <3> QED BY <3>1, <3>5, <3>6
  <2> QED BY <2>1, <2>2 DEF ForeignKept
<1> QED BY <1>1, <1>2, <1>3, <1>4, <1>5, <1>6

(* A pass changes neither fu.yaml nor the store, and takes nothing back    *)
(* that it told.                                                           *)
LEMMA PassKeeps ==
    ASSUME TypeOK, NEW a \in Agents, NEW n \in Names, PassOf(a, n)
    PROVE  /\ UNCHANGED <<registered, on, content, touched, before>>
           /\ report \subseteq report' /\ todo' \subseteq todo
           /\ pc # "mkdir" => at' = at
           /\ \A b \in Agents : b # cur => at'[b] = at[b]
<1> USE DEF PassOf, Fault, Tell, Goto, Turn, NameTurn, NextAgent, FailAgent, Elsewhere, KeepDisk,
  Held, Hold, Planned, TellOf, Removed, EndRemoval, TakeBack, config, disk, scan, link, result,
  ghosts, bounds, ScanIdentity, ScanFails, ListEntries, ListFails, MakeDir, MakeDirFails, Rescan,
  OpenDir, Retire, RetireFails, Verify, VerifyFails, Unlink, UnlinkFails, EndAgent, EndPass,
  CreateMissing, Create, CreateFails, Inspect, InspectFails
<1>1. UNCHANGED <<registered, on, content, touched, before>>
  OBVIOUS
<1>2. report \subseteq report' /\ todo' \subseteq todo
  OBVIOUS
<1>3. pc # "mkdir" => at' = at
  OBVIOUS
<1>4. \A b \in Agents : b # cur => at'[b] = at[b]
  BY Typed
<1> QED BY <1>1, <1>2, <1>3, <1>4

(* A pass changes an entry only where it stands.                           *)
LEMMA EntryStep ==
    ASSUME TypeOK, NEW a \in Agents, NEW n \in Names, PassOf(a, n),
           NEW b \in Agents, NEW g \in Gens, NEW m \in Names
    PROVE  \/ entry'[b][g][m] = entry[b][g][m]
           \/ /\ b = cur /\ g = seen
              /\ (m = name /\ pc \in {"retire", "verify"}) \/ (m = n /\ Create(n))
<1>t. /\ cur \in Agents /\ name \in Names /\ entry \in [Agents -> [Gens -> [Names -> Objects]]]
      /\ pc \in {"apply", "retire", "verify"} => seen \in Gens
  BY Typed
<1> USE DEF PassOf, Fault, Tell, Goto, Turn, NameTurn, NextAgent, FailAgent, Elsewhere, KeepDisk,
  Held, Hold, Planned, TellOf, Removed, EndRemoval, TakeBack, config, disk, scan, link, result,
  ghosts, bounds, ScanIdentity, ScanFails, ListEntries, ListFails, MakeDir, MakeDirFails, Rescan,
  OpenDir, Retire, RetireFails, Verify, VerifyFails, Unlink, UnlinkFails, EndAgent, EndPass,
  CreateMissing, Create, CreateFails, Inspect, InspectFails
<1>1. CASE Create(n)
  <2>1. entry' = entry \/ entry' = [entry EXCEPT ![cur][seen][n] = OurLink]
    BY <1>1
  <2>2. seen \in Gens
    BY <1>1, <1>t
  <2> QED BY ONLY <2>1, <2>2, <1>1, <1>t, EntryAt
<1>2. CASE Retire \/ Verify \/ VerifyFails
  <2>1. entry' = entry \/ \E o : entry' = [entry EXCEPT ![cur][seen][name] = o]
    BY <1>2
  <2>2. seen \in Gens /\ pc \in {"retire", "verify"}
    BY <1>2, <1>t
  <2> QED BY ONLY <2>1, <2>2, <1>t, EntryAt
<1>3. CASE ~Create(n) /\ ~Retire /\ ~Verify /\ ~VerifyFails
  BY <1>3
<1> QED BY <1>1, <1>2, <1>3

(* What was told stays told.                                               *)
LEMMA BlockedStays ==
    ASSUME report \subseteq report', NEW b, NEW m, DeliveryBlocked(b, m)
    PROVE  DeliveryBlocked(b, m)'
BY DEF DeliveryBlocked

(* What was done stays done while its entry is left alone.                 *)
LEMMA DoneStays ==
    ASSUME UNCHANGED <<registered, on, content>>, NEW b \in Agents, NEW m \in Names,
           at'[b] = at[b], \A g \in Gens : entry'[b][g][m] = entry[b][g][m], Done(b, m)
    PROVE  Done(b, m)'
<1>1. Wanted(b, m)' = Wanted(b, m) /\ Desired(b)' = Desired(b)
  BY DEF Wanted, Desired
<1> QED BY <1>1 DEF Done

(* An agent leaves its turn at the end of it.                              *)
LEMMA TurnStep ==
    ASSUME TypeOK, TurnInv, NEW a \in Agents, NEW n \in Names, PassOf(a, n)
    PROVE  TurnInv'
<1>1. (pc \in Midway => cur \in todo)'
  BY DEF TurnInv, Midway, Applying, Removing, PassOf, Fault, Tell, Goto, Turn, NameTurn,
     NextAgent, FailAgent, Elsewhere, KeepDisk, Held, Hold, Planned, TellOf, Removed, EndRemoval,
     TakeBack, config, disk, scan, link, result, ghosts, bounds, ScanIdentity, ScanFails,
     ListEntries, ListFails, MakeDir, MakeDirFails, Rescan, OpenDir, Retire, RetireFails, Verify,
     VerifyFails, Unlink, UnlinkFails, EndAgent, EndPass, CreateMissing, Create, CreateFails,
     Inspect, InspectFails
<1>2. (pc = "end" => todo = {})'
  BY DEF TurnInv, Midway, Applying, Removing, PassOf, Fault, Tell, Goto, Turn, NameTurn,
     NextAgent, FailAgent, Elsewhere, KeepDisk, Held, Hold, Planned, TellOf, Removed, EndRemoval,
     TakeBack, config, disk, scan, link, result, ghosts, bounds, ScanIdentity, ScanFails,
     ListEntries, ListFails, MakeDir, MakeDirFails, Rescan, OpenDir, Retire, RetireFails, Verify,
     VerifyFails, Unlink, UnlinkFails, EndAgent, EndPass, CreateMissing, Create, CreateFails,
     Inspect, InspectFails
<1>3. pc' # "idle"
  BY DEF PassOf, Fault, Tell, Goto, Turn, NameTurn, NextAgent, FailAgent, Elsewhere, KeepDisk,
     Held, Hold, Planned, TellOf, Removed, EndRemoval, TakeBack, config, disk, scan, link,
     result, ghosts, bounds, ScanIdentity, ScanFails, ListEntries, ListFails, MakeDir,
     MakeDirFails, Rescan, OpenDir, Retire, RetireFails, Verify, VerifyFails, Unlink,
     UnlinkFails, EndAgent, EndPass, CreateMissing, Create, CreateFails, Inspect, InspectFails
<1> QED BY <1>1, <1>2, <1>3 DEF TurnInv

(* An agent that is reached tells the names it reserves.                   *)
LEMMA RefusedStep ==
    ASSUME TypeOK, TurnInv, RefusedInv, NEW a \in Agents, NEW n \in Names, PassOf(a, n)
    PROVE  RefusedInv'
<1>1. pc # "idle" /\ UNCHANGED <<registered, on>> /\ report \subseteq report' /\
      todo' \subseteq todo
  BY PassKeeps DEF PassOf, Fault, Tell, Goto, Turn, NameTurn, NextAgent, FailAgent, Elsewhere,
     KeepDisk, Held, Hold, Planned, TellOf, Removed, EndRemoval, TakeBack, config, disk, scan,
     link, result, ghosts, bounds, ScanIdentity, ScanFails, ListEntries, ListFails, MakeDir,
     MakeDirFails, Rescan, OpenDir, Retire, RetireFails, Verify, VerifyFails, Unlink,
     UnlinkFails, EndAgent, EndPass, CreateMissing, Create, CreateFails, Inspect, InspectFails
<1>2. InvalidReports' = InvalidReports
  BY <1>1 DEF InvalidReports, AlreadyReportedAsReserved
<1>3. InvalidReports' \subseteq report'
  BY <1>1, <1>2 DEF RefusedInv
<1>4. ASSUME NEW b \in Agents, NEW m \in Names,
             (b \notin todo \/ (b = cur /\ pc \in Applying))',
             m \in ReservedBy(b), <<b, m>> \in on
      PROVE  \E r \in report' : r[1] = b /\ r[2] \in {m, "*"}
  <2>1. CASE b \notin todo \/ (b = cur /\ pc \in Applying)
    BY <1>1, <1>4, <2>1 DEF RefusedInv
  <2>2. CASE ~(b \notin todo \/ (b = cur /\ pc \in Applying))
    <3>1. (\E k : <<b, "*", k>> \in report') \/ OpenDir
      BY <1>4, <2>2 DEF Applying, Removing, PassOf, Fault, Tell, Goto, Turn, NameTurn, NextAgent,
         FailAgent, Elsewhere, KeepDisk, Held, Hold, Planned, TellOf, Removed, EndRemoval,
         TakeBack, config, disk, scan, link, result, ghosts, bounds, ScanIdentity, ScanFails,
         ListEntries, ListFails, MakeDir, MakeDirFails, Rescan, OpenDir, Retire, RetireFails,
         Verify, VerifyFails, Unlink, UnlinkFails, EndAgent, EndPass, CreateMissing, Create,
         CreateFails, Inspect, InspectFails
    <3>2. CASE OpenDir
      <4>1. b = cur
        BY <1>4, <2>2, <3>2 DEF OpenDir, FailAgent, NextAgent
      <4>2. m \in registered
        BY <1>4, Typed
      <4>3. <<b, m, "reserved">> \in ReservedReports(cur)
        BY <1>4, <4>1, <4>2 DEF ReservedReports
      <4>4. <<b, m, "reserved">> \in report' \/ <<b, "*", "failed">> \in report'
        BY <4>3, <4>1, <3>2 DEF OpenDir, FailAgent, Tell
      <4> QED BY <4>4
    <3> QED BY <3>1, <3>2
  <2> QED BY <2>1, <2>2
<1> QED BY <1>1, <1>3, <1>4 DEF RefusedInv

(* What a pass leaves aside it tells.                                      *)
LEMMA AsideStep ==
    ASSUME TypeOK, RetiredInv, AsideInv, NEW a \in Agents, NEW n \in Names, PassOf(a, n)
    PROVE  AsideInv'
<1>t. /\ cur \in Agents /\ name \in Names /\ aside \in [Agents -> [Gens -> SUBSET Object]]
      /\ pc \in {"rescan", "list", "open", "apply", "retire", "verify", "unlink"} => seen \in Gens
  BY Typed
<1> SUFFICES ASSUME NEW b \in Agents, NEW g \in Gens, NEW o \in (aside[b][g] \ before[b][g])',
                    o.kind = "foreign"
             PROVE  (\/ o \in told
                     \/ \E m \in Names : <<b, m, "failed">> \in report
                     \/ pc = "verify" /\ b = cur /\ g = seen /\ o = moved)'
  BY DEF AsideInv
<1> USE DEF PassOf, Fault, Tell, Goto, Turn, NameTurn, NextAgent, FailAgent, Elsewhere, KeepDisk,
  Held, Hold, Planned, TellOf, Removed, EndRemoval, TakeBack, config, disk, scan, link, result,
  ghosts, bounds, ScanIdentity, ScanFails, ListEntries, ListFails, MakeDir, MakeDirFails, Rescan,
  OpenDir, Retire, RetireFails, Verify, VerifyFails, Unlink, UnlinkFails, EndAgent, EndPass,
  CreateMissing, Create, CreateFails, Inspect, InspectFails
<1>0. pc # "idle" /\ UNCHANGED before /\ report \subseteq report' /\ told \subseteq told'
  OBVIOUS
<1>1. CASE o \in aside[b][g]
  <2>1. \/ o \in told
        \/ \E m \in Names : <<b, m, "failed">> \in report
        \/ pc = "verify" /\ b = cur /\ g = seen /\ o = moved
    BY ONLY <1>1, <1>0, o.kind = "foreign", o \in (aside[b][g] \ before[b][g])', AsideInv
       DEF AsideInv
  <2>2. CASE pc = "verify" /\ b = cur /\ g = seen /\ o = moved
    <3>1. (Verify \/ VerifyFails) /\ seen \in Gens
      BY <2>2, <1>t
    <3>2. aside' = [aside EXCEPT ![cur][seen] = @ \ {moved}] => o \notin aside'[b][g]
      BY ONLY <2>2, <3>1, <1>t
    <3>3. CASE Verify
      BY <2>2, <3>2, <3>3 DEF RetiredInv, Removing
    <3>4. CASE VerifyFails
      BY <2>2, <3>2, <3>4, <1>t
    <3> QED BY <3>1, <3>3, <3>4
  <2> QED BY <2>1, <2>2, <1>0
<1>2. CASE o \notin aside[b][g]
  <2>1. Retire
    <3>2. CASE Unlink \/ Verify \/ VerifyFails
      <4>1. aside' = aside \/ aside' = [aside EXCEPT ![cur][seen] = aside[cur][seen] \ {moved}]
        BY <3>2
      <4>2. seen \in Gens
        BY <3>2, <1>t
      <4> QED BY ONLY <4>1, <4>2, <1>2, <1>t, o \in (aside[b][g] \ before[b][g])'
    <3> QED BY <3>2, <1>2
  <2>2. aside' = [aside EXCEPT ![cur][seen] = aside[cur][seen] \cup {Held(name)}] /\
        pc' = "verify" /\ moved' = Held(name) /\ UNCHANGED <<cur, seen>>
    BY <2>1, <1>2
  <2>3. b = cur /\ g = seen /\ o = Held(name)
    BY ONLY <2>2, <1>2, <1>t, o \in (aside[b][g] \ before[b][g])'
  <2> QED BY <2>2, <2>3
<1> QED BY <1>1, <1>2

(* What was scanned of an undisturbed name still holds.                    *)
LEMMA ScannedStep ==
    ASSUME TypeOK, TurnInv, ScannedInv, NEW a \in Agents, NEW n \in Names, PassOf(a, n)
    PROVE  ScannedInv'
<1>t. /\ cur \in Agents /\ {"missing", "symlink"} \cap Gens = {}
      /\ at \in [Agents -> {"missing", "symlink"} \cup Gens]
      /\ sight \in [Names -> Sights]
  BY Typed, LinksAssumption
<1>k. UNCHANGED <<touched, content>>
  BY PassKeeps
<1> SUFFICES ASSUME NEW m \in Names, <<cur', m>> \notin touched
             PROVE  /\ pc' = "mkdir" => at'[cur'] = "missing"
                    /\ pc' \in Midway \ {"mkdir"} => at'[cur'] = seen'
                    /\ pc' = "open" =>
                       sight'[m] \in {"unknown", SightOf(cur, m, entry[cur][seen][m])'}
  BY <1>k DEF ScannedInv
<1> USE DEF PassOf, Fault, Tell, Goto, Turn, NameTurn, NextAgent, FailAgent, Elsewhere, KeepDisk,
  Held, Hold, Planned, TellOf, Removed, EndRemoval, TakeBack, config, disk, scan, link, result,
  ghosts, bounds, ScanIdentity, ScanFails, ListEntries, ListFails, MakeDir, MakeDirFails, Rescan,
  OpenDir, Retire, RetireFails, Verify, VerifyFails, Unlink, UnlinkFails, EndAgent, EndPass,
  CreateMissing, Create, CreateFails, Inspect, InspectFails, Midway, Applying, Removing
<1>1. pc' = "mkdir" => at'[cur'] = "missing"
  BY <1>t DEF ScannedInv
<1>2. pc' \in Midway \ {"mkdir"} => at'[cur'] = seen'
  BY <1>t DEF ScannedInv
<1>3. ASSUME pc' = "open" PROVE sight'[m] \in {"unknown", SightOf(cur, m, entry[cur][seen][m])'}
  <2>1. ListEntries
    BY <1>3
  <2>2. PICK g \in Gens : /\ at[cur] \in {g, "symlink"}
                          /\ \/ sight' = SightIn(cur, g)
                             \/ \E k \in Names : sight' = [SightIn(cur, g) EXCEPT ![k] = "unknown"]
    BY <2>1
  <2>3. at[cur] = seen /\ UNCHANGED <<entry, cur, seen>>
    BY <2>1 DEF ScannedInv
  <2>4. g = seen
    BY <2>2, <2>3, <1>t, <2>1, Typed
  <2>5. sight'[m] \in {"unknown", SightIn(cur, g)[m]}
    BY ONLY <2>2, m \in Names DEF SightIn
  <2>6. SightIn(cur, g)[m] = SightOf(cur, m, entry[cur][seen][m])
    BY ONLY <2>4, m \in Names DEF SightIn
  <2>7. SightOf(cur, m, entry[cur][seen][m])' = SightOf(cur, m, entry[cur][seen][m])
    BY <2>3, <1>k DEF SightOf
  <2> QED BY <2>5, <2>6, <2>7
<1> QED BY <1>1, <1>2, <1>3

(* An agent is done with once each of its names is, or is told.            *)
LEMMA DoneStep ==
    ASSUME TypeOK, TurnInv, ScannedInv, PlannedInv, DoneInv, NEW a \in Agents, NEW n \in Names,
           PassOf(a, n)
    PROVE  DoneInv'
<1>k. /\ UNCHANGED <<registered, on, content, touched>> /\ report \subseteq report'
      /\ pc # "mkdir" => at' = at
      /\ \A b \in Agents : b # cur => at'[b] = at[b]
  BY PassKeeps
<1> SUFFICES ASSUME NEW b \in Agents, b \notin todo', NEW m \in Names, <<b, m>> \notin touched
             PROVE  (DeliveryBlocked(b, m) \/ Done(b, m))'
  BY <1>k DEF DoneInv
<1>1. CASE b \notin todo
  <2>1. at'[b] = at[b] /\ \A g \in Gens : entry'[b][g][m] = entry[b][g][m]
    <3>1. CASE pc \in Midway
      <4>1. b # cur
        BY <1>1, <3>1 DEF TurnInv
      <4> QED BY <4>1, <1>k, EntryStep
    <3>2. CASE pc \notin Midway
      <4>1. pc # "mkdir" /\ UNCHANGED entry
        BY <3>2 DEF PassOf, Fault, Tell, Goto, Turn, NameTurn, NextAgent, FailAgent, Elsewhere,
           KeepDisk, Held, Hold, Planned, TellOf, Removed, EndRemoval, TakeBack, config, disk,
           scan, link, result, ghosts, bounds, ScanIdentity, ScanFails, ListEntries, ListFails,
           MakeDir, MakeDirFails, Rescan, OpenDir, Retire, RetireFails, Verify, VerifyFails,
           Unlink, UnlinkFails, EndAgent, EndPass, CreateMissing, Create, CreateFails, Inspect,
           InspectFails, Midway, Applying, Removing
      <4> QED BY <4>1, <1>k
    <3> QED BY <3>1, <3>2
  <2>2. pc # "idle"
    BY DEF PassOf, Fault, Tell, Goto, Turn, NameTurn, NextAgent, FailAgent, Elsewhere, KeepDisk,
       Held, Hold, Planned, TellOf, Removed, EndRemoval, TakeBack, config, disk, scan, link,
       result, ghosts, bounds, ScanIdentity, ScanFails, ListEntries, ListFails, MakeDir,
       MakeDirFails, Rescan, OpenDir, Retire, RetireFails, Verify, VerifyFails, Unlink,
       UnlinkFails, EndAgent, EndPass, CreateMissing, Create, CreateFails, Inspect, InspectFails
  <2>3. DeliveryBlocked(b, m) \/ Done(b, m)
    BY <1>1, <2>2 DEF DoneInv
  <2> QED BY <2>1, <2>3, <1>k, BlockedStays, DoneStays
<1>2. CASE b \in todo
  <2>1. (\E k \in {"failed", "skipped"} : <<b, "*", k>> \in report') \/ EndAgent
    BY <1>2 DEF PassOf, Fault, Tell, Goto, Turn, NameTurn, NextAgent, FailAgent, Elsewhere,
       KeepDisk, Held, Hold, Planned, TellOf, Removed, EndRemoval, TakeBack, config, disk, scan,
       link, result, ghosts, bounds, ScanIdentity, ScanFails, ListEntries, ListFails, MakeDir,
       MakeDirFails, Rescan, OpenDir, Retire, RetireFails, Verify, VerifyFails, Unlink,
       UnlinkFails, EndAgent, EndPass, CreateMissing, Create, CreateFails, Inspect, InspectFails
  <2>2. CASE EndAgent
    <3>1. b = cur /\ plan[m] = "none" /\ pc \in Applying /\ UNCHANGED entry
      BY <1>2, <2>2 DEF EndAgent, NextAgent, Nowhere, Applying, KeepDisk, disk
    <3>2. DeliveryBlocked(b, m) \/ Done(b, m)
      BY <3>1 DEF PlannedInv
    <3>3. at' = at
      BY <3>1, <1>k DEF Applying, Removing
    <3> QED BY <3>1, <3>2, <3>3, <1>k, BlockedStays, DoneStays
  <2> QED BY <2>1, <2>2 DEF DeliveryBlocked
<1> QED BY <1>1, <1>2

(* A plan is what the undisturbed names need, and what is in the way of    *)
(* one is told with it.                                                    *)
LEMMA PlannedOpen ==
    ASSUME TypeOK, ScannedInv, NEW a \in Agents, NEW n \in Names, OpenDir, pc' \in Applying
    PROVE  PlannedInv'
<1>t. /\ cur \in Agents /\ entry \in [Agents -> [Gens -> [Names -> Objects]]]
      /\ sight \in [Names -> Sights] /\ seen \in Gens
  BY Typed DEF OpenDir
<1>1. /\ plan' = Diff(cur, sight) /\ pc = "open" /\ pc' = "apply" /\ at[cur] = seen
      /\ report' = report \cup (DiffReports(cur, sight) \cup ReservedReports(cur))
      /\ UNCHANGED <<cur, seen, registered, on, content, at, entry, touched>>
  BY DEF OpenDir, FailAgent, NextAgent, Goto, Tell, Elsewhere, KeepDisk, config, disk, scan,
     Applying, Removing
<1>2. \A m \in Names : /\ Wanted(cur, m)' = Wanted(cur, m) /\ Desired(cur)' = Desired(cur)
                       /\ Done(cur, m)' = Done(cur, m) /\ Held(m)' = Held(m)
  BY <1>1 DEF Wanted, Desired, Done, Held
<1>3. ASSUME NEW m \in Names
      PROVE  /\ plan'[m] \in {"create", "rebuild"} => Wanted(cur, m)
             /\ plan'[m] = "remove" => ~Wanted(cur, m)
  BY <1>1 DEF Diff
<1>4. ASSUME NEW m \in Names, <<cur, m>> \notin touched
      PROVE  /\ plan'[m] = "none" => DeliveryBlocked(cur, m)' \/ Done(cur, m)
             /\ plan'[m] = "create" => Held(m) = Nothing
  <2> DEFINE o == entry[cur][seen][m]
  <2>1. o \in Objects /\ Held(m) = o
    BY <1>t DEF Held
  <2>2. sight[m] \in {"unknown", SightOf(cur, m, o)}
    BY <1>1, <1>4 DEF ScannedInv
  <2> HIDE DEF o
  <2>3. ASSUME plan'[m] = "create" PROVE Held(m) = Nothing
    <3>1. Wanted(cur, m) /\ sight[m] = "none"
      BY <1>1, <2>3 DEF Diff
    <3>2. m \notin ReservedBy(cur)
      BY <3>1 DEF Wanted, Desired
    <3>3. SightOf(cur, m, o) = "none"
      BY <2>2, <3>1
    <3>4. o.kind = "none"
      BY <3>2, <3>3, <2>1 DEF SightOf, Objects, Object, Nothing
    <3> QED BY <3>4, <2>1 DEF Objects, Object, Nothing
  <2>4. ASSUME plan'[m] = "none" PROVE DeliveryBlocked(cur, m)' \/ Done(cur, m)
    <3>1. CASE sight[m] = "unknown"
      <4>1. <<cur, m, "failed">> \in report'
        BY <1>1, <3>1 DEF DiffReports
      <4> QED BY <4>1, <1>1 DEF DeliveryBlocked
    <3>2. CASE sight[m] = SightOf(cur, m, o)
      <4>1. CASE Wanted(cur, m)
        <5>1. sight[m] \in {"ours", "foreign", "unknown"}
          BY <1>1, <2>4, <4>1, <1>t DEF Diff, Sights
        <5>2. CASE sight[m] = "foreign"
          <6>1. <<cur, m, "conflict">> \in report'
            BY <1>1, <5>2, <4>1 DEF DiffReports
          <6> QED BY <6>1, <1>1 DEF DeliveryBlocked
        <5>3. CASE sight[m] = "ours"
          <6>1. o.kind = "ours" /\ content[m] = "dir"
            BY <5>3, <3>2, Typed DEF SightOf, Contents
          <6> QED BY <6>1, <4>1, <1>1, <1>t DEF Done, o
        <5> QED BY <5>1, <5>2, <5>3, <3>1
      <4>2. CASE ~Wanted(cur, m)
        <5>1. sight[m] \notin {"ours", "respelled", "broken"}
          BY <1>1, <2>4, <4>2 DEF Diff
        <5>2. m \notin ReservedBy(cur) => o.kind \notin {"ours", "respelled"} \/
              sight[m] = "unknown"
          BY <5>1, <3>2 DEF SightOf
        <5>3. m \in Desired(cur) /\ o.kind = "foreign" => sight[m] = "foreign" /\
              <<cur, m>> \notin on
          BY <4>2, <3>2 DEF SightOf, Wanted, Desired
        <5>4. CASE m \in Desired(cur) /\ o.kind = "foreign"
          <6>1. <<cur, m, "disabled foreign">> \in report'
            BY <1>1, <5>3, <5>4 DEF DiffReports
          <6> QED BY <6>1, <1>1 DEF DeliveryBlocked
        <5>5. CASE ~(m \in Desired(cur) /\ o.kind = "foreign")
          BY <5>2, <5>5, <4>2, <1>1, <1>t, <3>1 DEF Done, o
        <5> QED BY <5>4, <5>5
      <4> QED BY <4>1, <4>2
    <3> QED BY <2>2, <3>1, <3>2
  <2> QED BY <2>3, <2>4
<1>5. ASSUME NEW m \in Names
      PROVE  (/\ plan[m] \in {"create", "rebuild"} => Wanted(cur, m)
              /\ plan[m] = "remove" => ~Wanted(cur, m)
              /\ <<cur, m>> \notin touched =>
                    /\ plan[m] = "none" => DeliveryBlocked(cur, m) \/ Done(cur, m)
                    /\ plan[m] = "create" => DeliveryBlocked(cur, m) \/ Held(m) = Nothing
                    /\ m = name =>
                        /\ pc = "retire" => Held(m) = approved
                        /\ pc = "verify" => moved = approved
                        /\ pc \in {"verify", "unlink"} => Held(m) = Nothing)'
  BY <1>1, <1>2, <1>3, <1>4
<1> QED BY <1>5 DEF PlannedInv

(* Every call leaves a name done, told, or still to do.                    *)
LEMMA PlannedApply ==
    ASSUME TypeOK, RetiredInv, ScannedInv, PlannedInv, NEW a \in Agents, NEW n \in Names,
           PassOf(a, n),
           pc \in Applying, pc' \in Applying
    PROVE  PlannedInv'
<1>t. /\ cur \in Agents /\ entry \in [Agents -> [Gens -> [Names -> Objects]]]
      /\ plan \in [Names -> Plans] /\ seen \in Gens /\ name \in Names
      /\ {approved, moved} \subseteq Objects
  BY Typed DEF Applying, Removing
<1>k. /\ UNCHANGED <<registered, on, content, touched, at, cur, seen>> /\ report \subseteq report'
  BY PassKeeps DEF Applying, Removing, PassOf, Fault, Tell, Goto, Turn, NameTurn, NextAgent,
     FailAgent, Elsewhere, KeepDisk, Held, Hold, Planned, TellOf, Removed, EndRemoval, TakeBack,
     config, disk, scan, link, result, ghosts, bounds, ScanIdentity, ScanFails, ListEntries,
     ListFails, MakeDir, MakeDirFails, Rescan, OpenDir, Retire, RetireFails, Verify, VerifyFails,
     Unlink, UnlinkFails, EndAgent, EndPass, CreateMissing, Create, CreateFails, Inspect,
     InspectFails
<1>w. \A m \in Names : Wanted(cur, m)' = Wanted(cur, m) /\ Desired(cur)' = Desired(cur)
  BY <1>k DEF Wanted, Desired
<1> SUFFICES ASSUME NEW m \in Names
      PROVE  (/\ plan[m] \in {"create", "rebuild"} => Wanted(cur, m)
              /\ plan[m] = "remove" => ~Wanted(cur, m)
              /\ <<cur, m>> \notin touched =>
                    /\ plan[m] = "none" => DeliveryBlocked(cur, m) \/ Done(cur, m)
                    /\ plan[m] = "create" => DeliveryBlocked(cur, m) \/ Held(m) = Nothing
                    /\ m = name =>
                        /\ pc = "retire" => Held(m) = approved
                        /\ pc = "verify" => moved = approved
                        /\ pc \in {"verify", "unlink"} => Held(m) = Nothing)'
  BY DEF PlannedInv
<1>e. ASSUME Held(m) = Nothing, UNCHANGED entry, plan[m] = "remove", <<cur, m>> \notin touched
      PROVE  Done(cur, m)'
  <2>1. ~Wanted(cur, m) /\ at[cur] = seen
    BY <1>e DEF PlannedInv, ScannedInv, Midway, Applying, Removing
  <2>2. entry'[cur][seen][m].kind = "none"
    BY <1>e DEF Held, Nothing
  <2> QED BY <2>1, <2>2, <1>k, <1>t, <1>w DEF Done
<1>1. /\ plan'[m] \in {"create", "rebuild"} => Wanted(cur, m)
      /\ plan'[m] = "remove" => ~Wanted(cur, m)
  <2>1. plan'[m] = plan[m] \/ plan'[m] = "none" \/ (plan'[m] = "create" /\ plan[m] = "rebuild")
    BY <1>t DEF Applying, Removing, PassOf, Fault, Tell, Goto, Turn, NameTurn, NextAgent,
       FailAgent, Elsewhere, KeepDisk, Held, Hold, Planned, TellOf, Removed, EndRemoval,
       TakeBack, config, disk, scan, link, result, ghosts, bounds, ScanIdentity, ScanFails,
       ListEntries, ListFails, MakeDir, MakeDirFails, Rescan, OpenDir, Retire, RetireFails,
       Verify, VerifyFails, Unlink, UnlinkFails, EndAgent, EndPass, CreateMissing, Create,
       CreateFails, Inspect, InspectFails
  <2> QED BY <2>1 DEF PlannedInv
<1>2. ASSUME plan'[m] = plan[m], <<cur, m>> \notin touched
      PROVE  /\ plan'[m] = "none" => DeliveryBlocked(cur, m)' \/ Done(cur, m)'
             /\ plan'[m] = "create" => DeliveryBlocked(cur, m)' \/ Held(m)' = Nothing
  <2>1. CASE plan[m] \in {"none", "create"}
    <3>1. \A g \in Gens : entry'[cur][g][m] = entry[cur][g][m]
      <4>1. ~Create(n) \/ m # n
        BY <1>2, <2>1, <1>t DEF Fault, Tell, Goto, Turn, NameTurn, NextAgent, FailAgent,
           Elsewhere, KeepDisk, Held, Hold, Planned, TellOf, Removed, EndRemoval, TakeBack,
           config, disk, scan, link, result, ghosts, bounds, ScanIdentity, ScanFails,
           ListEntries, ListFails, MakeDir, MakeDirFails, Rescan, OpenDir, Retire, RetireFails,
           Verify, VerifyFails, Unlink, UnlinkFails, EndAgent, EndPass, CreateMissing, Create,
           CreateFails, Inspect, InspectFails
      <4>2. pc \in {"retire", "verify"} => m # name
        BY <2>1 DEF RetiredInv, Removing
      <4> QED BY <4>1, <4>2, <1>t, EntryStep
    <3>2. plan[m] = "none" => DeliveryBlocked(cur, m) \/ Done(cur, m)
      BY <1>2 DEF PlannedInv
    <3>3. plan[m] = "create" => DeliveryBlocked(cur, m) \/ Held(m) = Nothing
      BY <1>2 DEF PlannedInv
    <3>4. DeliveryBlocked(cur, m) => DeliveryBlocked(cur, m)'
      BY <1>k DEF DeliveryBlocked
    <3>5. Done(cur, m) => Done(cur, m)'
      BY <1>k, <1>t, <1>w, <3>1 DEF Done
    <3>6. Held(m)' = Held(m)
      BY <1>k, <1>t, <3>1 DEF Held
    <3> QED BY <1>2, <3>2, <3>3, <3>4, <3>5, <3>6
  <2>2. CASE plan[m] \notin {"none", "create"}
    BY <1>2, <2>2
  <2> QED BY <2>1, <2>2
<1>3. ASSUME plan'[m] # plan[m], <<cur, m>> \notin touched
      PROVE  /\ plan'[m] = "none" => DeliveryBlocked(cur, m)' \/ Done(cur, m)'
             /\ plan'[m] = "create" => DeliveryBlocked(cur, m)' \/ Held(m)' = Nothing
  <2>1. \/ \E k \in {"failed", "conflict", "missing"} : <<cur, m, k>> \in report'
        \/ /\ plan[m] \in {"remove", "rebuild"} /\ Held(m) = Nothing /\ UNCHANGED entry
           /\ plan'[m] = "create" => plan[m] = "rebuild"
           /\ plan'[m] = "none" => plan[m] = "remove"
        \/ Unlink /\ m = name
        \/ Create(n) /\ m = n /\ Held(m) = Nothing
    <3>1. CASE CreateMissing(n) \/ CreateFails(n) \/ InspectFails(n)
      BY <3>1, <1>3, <1>t DEF CreateMissing, CreateFails, InspectFails, Planned, Removed, TellOf,
         Tell
    <3>2. CASE RetireFails \/ Verify \/ VerifyFails \/ UnlinkFails
      <4>1. plan' = plan \/
            plan' = [plan EXCEPT ![name] = IF plan[name] = "rebuild" THEN "create" ELSE "none"]
        BY <3>2 DEF RetireFails, Verify, VerifyFails, UnlinkFails, EndRemoval, Removed, Planned
      <4>2. m = name
        BY <4>1, <1>3, <1>t
      <4>3. plan' = plan \/ \E k \in {"failed", "conflict"} : report' = report \cup
            {<<cur, name, k>>}
        BY <3>2 DEF RetireFails, Verify, VerifyFails, UnlinkFails, TellOf, Tell
      <4> QED BY <4>2, <4>3, <1>3
    <3>3. CASE Create(n)
      <4>1. m = n
        BY <3>3, <1>3, <1>t DEF Create, Planned
      <4>2. Held(n) = Nothing \/ report' = report \cup {<<cur, n, "conflict">>}
        BY <3>3 DEF Create, TellOf, Tell
      <4> QED BY <3>3, <4>1, <4>2
    <3>4. CASE Inspect(n)
      <4>1. m = n /\ UNCHANGED entry /\ plan[m] \in {"remove", "rebuild"}
        BY <3>4, <1>3, <1>t DEF Inspect, Planned, Removed, KeepDisk, disk
      <4>2. Held(n) = Nothing \/ report' = report \cup {<<cur, n, "conflict">>}
        BY <3>4, <1>3 DEF Inspect, TellOf, Tell
      <4>3. plan'[m] = IF plan[m] = "rebuild" THEN "create" ELSE "none"
        BY <3>4, <4>1, <1>3, <1>t DEF Inspect, Planned, Removed
      <4> QED BY <4>1, <4>2, <4>3, <1>t
    <3>5. CASE Retire
      <4>1. m = name /\ Held(m) = Nothing /\ UNCHANGED entry /\ plan'[m] = IF plan[m] = "rebuild"
            THEN "create" ELSE "none"
        BY <3>5, <1>3, <1>t DEF Retire, EndRemoval, Planned, Removed
      <4>2. plan[m] \in {"remove", "rebuild"}
        BY <3>5, <4>1 DEF Retire, RetiredInv, Removing
      <4> QED BY <4>1, <4>2
    <3>6. CASE Unlink
      BY <3>6, <1>3, <1>t DEF Unlink, EndRemoval, Planned, Removed
    <3>7. CASE EndAgent \/ EndPass \/ ScanIdentity(a) \/ ScanFails(a) \/ ListEntries \/
          ListFails \/ MakeDir \/ MakeDirFails \/ Rescan \/ OpenDir
      BY <3>7, <1>3 DEF Applying, Removing, EndAgent, EndPass, ScanIdentity, ScanFails,
         ListEntries, ListFails, MakeDir, MakeDirFails, Rescan, OpenDir, Turn
    <3> QED BY <3>1, <3>2, <3>3, <3>4, <3>5, <3>6, <3>7 DEF PassOf
  <2>2. CASE \E k \in {"failed", "conflict", "missing"} : <<cur, m, k>> \in report'
    BY <2>2, <1>k DEF DeliveryBlocked
  <2>3. CASE /\ plan[m] \in {"remove", "rebuild"} /\ Held(m) = Nothing /\ UNCHANGED entry
             /\ plan'[m] = "create" => plan[m] = "rebuild"
             /\ plan'[m] = "none" => plan[m] = "remove"
    <3>1. plan'[m] = "none" => Done(cur, m)'
      BY <2>3, <1>e, <1>3
    <3>2. Held(m)' = Held(m)
      BY <2>3, <1>k DEF Held
    <3> QED BY <2>3, <3>1, <3>2
  <2>4. CASE Unlink /\ m = name
    <3>1. Held(m) = Nothing /\ UNCHANGED entry /\ plan[m] \in {"remove", "rebuild"}
      BY <2>4, <1>3 DEF Unlink, PlannedInv, RetiredInv, Removing, Applying
    <3>2. plan'[m] = IF plan[m] = "rebuild" THEN "create" ELSE "none"
      BY <2>4, <1>t DEF Unlink, EndRemoval, Removed, Planned
    <3>3. Held(m)' = Held(m)
      BY <3>1, <1>k DEF Held
    <3> QED BY <3>1, <3>2, <3>3, <1>e, <1>3
  <2>5. CASE Create(n) /\ m = n /\ Held(m) = Nothing
    <3>1. entry' = [entry EXCEPT ![cur][seen][m] = OurLink] /\ plan[m] = "create" /\
          content[m] = "dir" /\ plan'[m] = "none"
      BY <2>5, <1>t DEF Create, Hold, Planned
    <3>2. entry'[cur][seen][m] = OurLink
      BY ONLY <3>1, <1>t, EntryAt, m \in Names
    <3>3. Wanted(cur, m) /\ at[cur] = seen
      BY <3>1, <1>3 DEF PlannedInv, ScannedInv, Midway, Applying, Removing
    <3>4. Done(cur, m)'
      BY <3>1, <3>2, <3>3, <1>k, <1>t, <1>w DEF Done, OurLink
    <3> QED BY <3>1, <3>4
  <2> QED BY <2>1, <2>2, <2>3, <2>4, <2>5
<1>4. ASSUME <<cur, m>> \notin touched, m = name'
      PROVE  /\ pc' = "retire" => Held(m)' = approved'
             /\ pc' = "verify" => moved' = approved'
             /\ pc' \in {"verify", "unlink"} => Held(m)' = Nothing
  <2>1. pc' = "retire" => Inspect(n)
    BY DEF Applying, Removing, PassOf, Fault, Tell, Goto, Turn, NameTurn, NextAgent, FailAgent,
       Elsewhere, KeepDisk, Held, Hold, Planned, TellOf, Removed, EndRemoval, TakeBack, config,
       disk, scan, link, result, ghosts, bounds, ScanIdentity, ScanFails, ListEntries, ListFails,
       MakeDir, MakeDirFails, Rescan, OpenDir, Retire, RetireFails, Verify, VerifyFails, Unlink,
       UnlinkFails, EndAgent, EndPass, CreateMissing, Create, CreateFails, Inspect, InspectFails
  <2>2. pc' = "verify" => Retire
    BY DEF Applying, Removing, PassOf, Fault, Tell, Goto, Turn, NameTurn, NextAgent, FailAgent,
       Elsewhere, KeepDisk, Held, Hold, Planned, TellOf, Removed, EndRemoval, TakeBack, config,
       disk, scan, link, result, ghosts, bounds, ScanIdentity, ScanFails, ListEntries, ListFails,
       MakeDir, MakeDirFails, Rescan, OpenDir, Retire, RetireFails, Verify, VerifyFails, Unlink,
       UnlinkFails, EndAgent, EndPass, CreateMissing, Create, CreateFails, Inspect, InspectFails
  <2>3. pc' = "unlink" => Verify
    BY DEF Applying, Removing, PassOf, Fault, Tell, Goto, Turn, NameTurn, NextAgent, FailAgent,
       Elsewhere, KeepDisk, Held, Hold, Planned, TellOf, Removed, EndRemoval, TakeBack, config,
       disk, scan, link, result, ghosts, bounds, ScanIdentity, ScanFails, ListEntries, ListFails,
       MakeDir, MakeDirFails, Rescan, OpenDir, Retire, RetireFails, Verify, VerifyFails, Unlink,
       UnlinkFails, EndAgent, EndPass, CreateMissing, Create, CreateFails, Inspect, InspectFails
  <2>4. CASE Inspect(n) /\ pc' = "retire"
    BY <2>4, <1>4 DEF Inspect, Held, Elsewhere, KeepDisk, disk, scan, NameTurn, Goto
  <2>5. CASE Retire /\ pc' = "verify"
    <3>1. /\ entry' = [entry EXCEPT ![cur][seen][name] = Nothing] /\ moved' = Held(name)
          /\ pc = "retire" /\ UNCHANGED <<name, approved>>
      BY <2>5 DEF Retire, Hold, EndRemoval, Goto
    <3>2. entry'[cur][seen][name] = Nothing
      BY ONLY <3>1, <1>t, EntryAt
    <3>3. Held(name) = approved
      BY <3>1, <1>4, <1>t DEF PlannedInv
    <3> QED BY <2>5, <3>1, <3>2, <3>3, <1>k, <1>4 DEF Held
  <2>6. CASE Verify /\ pc' = "unlink"
    <3>1. UNCHANGED <<entry, name>> /\ pc = "verify"
      BY <2>6 DEF Verify, EndRemoval, Goto, link
    <3>2. Held(name) = Nothing
      BY <3>1, <1>4, <1>t DEF PlannedInv
    <3> QED BY <2>6, <3>1, <3>2, <1>k, <1>4 DEF Held
  <2> QED BY <2>1, <2>2, <2>3, <2>4, <2>5, <2>6
<1> QED BY <1>1, <1>2, <1>3, <1>4, <1>k, <1>w

(* A command begins with nothing done, and ends with all forgotten.        *)
LEMMA ToldOther ==
    ASSUME TypeOK, ToldInv, Command \/ Return \/ Crash
    PROVE  ToldInv'
<1> USE DEF Removing, Applying, Midway, Command, Restore, Toggle, New, Rm, Begin, config, disk,
  scan, link, result, ghosts, bounds, Return, Crash, Fault, Forget, Goto
<1>0. pc' \in {"idle", "agent"} /\
      (pc' # "idle" => todo' = Agents /\ before' = aside' /\ report' = InvalidReports')
  OBVIOUS
<1>1. TurnInv'
  <2>1. pc' = "idle" => changed' = {}
    OBVIOUS
  <2> QED BY <1>0, <2>1 DEF TurnInv
<1>2. AsideInv'
  BY <1>0 DEF AsideInv
<1>3. RefusedInv'
  BY <1>0 DEF RefusedInv
<1>4. ScannedInv' /\ PlannedInv'
  BY <1>0 DEF ScannedInv, PlannedInv
<1>5. DoneInv'
  BY <1>0 DEF DoneInv
<1> QED BY <1>1, <1>2, <1>3, <1>4, <1>5 DEF ToldInv

(* A user's step touches what it disturbs.                                 *)
LEMMA UserTouches ==
    ASSUME TypeOK, NEW a \in Agents, NEW n \in Names, UserOf(a, n), pc # "idle"
    PROVE  /\ UNCHANGED <<registered, on, aside, pc, todo, cur, seen, sight, listed, plan, link,
              result, before>>
           /\ touched \subseteq touched'
           /\ \A b \in Agents, m \in Names : <<b, m>> \notin touched' =>
                /\ at'[b] = at[b] /\ content'[m] = content[m]
                /\ \A g \in Gens : entry'[b][g][m] = entry[b][g][m]
<1>t. /\ entry \in [Agents -> [Gens -> [Names -> Objects]]]
      /\ at \in [Agents -> {"missing", "symlink"} \cup Gens] /\ content \in [Names -> Contents]
  BY Typed
<1>1. /\ UNCHANGED <<registered, on, aside, pc, todo, cur, seen, sight, listed, plan, link, result,
         before>>
      /\ touched \subseteq touched'
  BY DEF UserOf, Meddle, Redirect, Rework, EditConfig, Edit, Touch, KeepPass, config, disk, scan,
     link, result, ghosts, bounds
<1>2. ASSUME NEW b \in Agents, NEW m \in Names, <<b, m>> \notin touched'
      PROVE  /\ at'[b] = at[b] /\ content'[m] = content[m]
             /\ \A g \in Gens : entry'[b][g][m] = entry[b][g][m]
  <2>1. CASE \E g \in Gens : Meddle(a, g, n)
    <3>1. PICK g \in Gens : Meddle(a, g, n)
      BY <2>1
    <3>2. PICK o : entry' = [entry EXCEPT ![a][g][n] = o]
      BY <3>1 DEF Meddle
    <3>3. <<b, m>> # <<a, n>> /\ UNCHANGED <<at, content>>
      BY <3>1, <1>2 DEF Meddle, Touch
    <3>4. \A h \in Gens : entry'[b][h][m] = entry[b][h][m]
      BY ONLY <3>2, <3>3, <1>t, EntryAt, a \in Agents, n \in Names, b \in Agents, m \in Names,
         g \in Gens
    <3> QED BY <3>3, <3>4
  <2>2. CASE Redirect(a)
    BY <2>2, <1>2, <1>t DEF Redirect, Touch
  <2>3. CASE Rework(n)
    BY <2>3, <1>2, <1>t DEF Rework, Touch, disk
  <2>4. CASE EditConfig(n)
    BY <2>4 DEF EditConfig
  <2> QED BY <2>1, <2>2, <2>3, <2>4 DEF UserOf
<1> QED BY <1>1, <1>2

(* What a user disturbs is touched.                                        *)
LEMMA ToldUser ==
    ASSUME TypeOK, RetiredInv, ToldInv, NEW a \in Agents, NEW n \in Names, UserOf(a, n)
    PROVE  ToldInv'
<1>i. CASE pc = "idle"
  <2>1. pc' = "idle" /\ changed' = changed
    BY <1>i DEF UserOf, Meddle, Redirect, Rework, EditConfig, Edit, Touch, KeepPass, config,
       disk, scan, link, result, ghosts, bounds
  <2> QED BY <1>i, <2>1 DEF ToldInv, TurnInv, AsideInv, RefusedInv, ScannedInv, PlannedInv,
             DoneInv, Midway, Applying, Removing
<1>b. CASE pc # "idle"
  <2>k. /\ UNCHANGED <<registered, on, aside, pc, todo, cur, seen, sight, listed, plan, link,
           result, before>>
        /\ touched \subseteq touched'
        /\ \A b \in Agents, m \in Names : <<b, m>> \notin touched' =>
             /\ at'[b] = at[b] /\ content'[m] = content[m]
             /\ \A g \in Gens : entry'[b][g][m] = entry[b][g][m]
    BY <1>b, UserTouches
  <2>r. UNCHANGED <<name, approved, moved, report, told>>
    BY <2>k DEF link, result
  <2>w. \A b \in Agents, m \in Names :
          /\ Wanted(b, m)' = Wanted(b, m) /\ Desired(b)' = Desired(b) /\
             DeliveryBlocked(b, m)' = DeliveryBlocked(b, m)
    BY <2>k, <2>r DEF Wanted, Desired, DeliveryBlocked
  <2>d. \A b \in Agents, m \in Names : <<b, m>> \notin touched' /\ Done(b, m) => Done(b, m)'
    BY <2>k, <2>w DEF Done
  <2>t. cur \in Agents
    BY Typed
  <2>s. /\ pc \in {"open"} \cup Applying => seen \in Gens
    BY Typed DEF Applying, Removing
  <2>1. TurnInv'
    BY <1>b, <2>k DEF TurnInv, ToldInv
  <2>2. AsideInv'
    BY <2>k, <2>r DEF AsideInv, ToldInv
  <2>3. RefusedInv'
    <3>1. InvalidReports' = InvalidReports
      BY <2>k DEF InvalidReports, AlreadyReportedAsReserved
    <3> QED BY <3>1, <2>k, <2>r DEF RefusedInv, ToldInv
  <2>4. ScannedInv'
    <3>1. ASSUME NEW m \in Names, <<cur, m>> \notin touched'
          PROVE  /\ pc = "mkdir" => at'[cur] = "missing"
                 /\ pc \in Midway \ {"mkdir"} => at'[cur] = seen
                 /\ pc = "open" => sight[m] \in {"unknown", SightOf(cur, m, entry[cur][seen][m])'}
      <4>1. /\ pc = "mkdir" => at[cur] = "missing"
            /\ pc \in Midway \ {"mkdir"} => at[cur] = seen
            /\ pc = "open" => sight[m] \in {"unknown", SightOf(cur, m, entry[cur][seen][m])}
        BY <3>1, <2>k, <2>t DEF ScannedInv, ToldInv
      <4>2. pc = "open" =>
            SightOf(cur, m, entry[cur][seen][m])' = SightOf(cur, m, entry[cur][seen][m])
        BY <3>1, <2>k, <2>t, <2>s DEF SightOf
      <4> QED BY <3>1, <4>1, <4>2, <2>k, <2>t
    <3> QED BY <3>1, <2>k DEF ScannedInv
  <2>5. PlannedInv'
    <3>1. ASSUME NEW m \in Names, <<cur, m>> \notin touched', pc \in Applying
          PROVE  Held(m)' = Held(m) /\ (Done(cur, m) => Done(cur, m)')
      BY <3>1, <2>k, <2>t, <2>s, <2>d DEF Held
    <3> QED BY <3>1, <2>k, <2>r, <2>w, <2>t DEF PlannedInv, ToldInv
  <2>6. DoneInv'
    BY <2>k, <2>w, <2>d DEF DoneInv, ToldInv
  <2> QED BY <2>1, <2>2, <2>3, <2>4, <2>5, <2>6 DEF ToldInv
<1> QED BY <1>i, <1>b

(* The steps of a pass keep what it will have told.                        *)
LEMMA ToldPass ==
    ASSUME TypeOK, RetiredInv, ToldInv, NEW a \in Agents, NEW n \in Names, PassOf(a, n)
    PROVE  ToldInv'
<1>1. PlannedInv'
  <2>1. CASE OpenDir /\ pc' \in Applying
    BY <2>1, PlannedOpen DEF ToldInv
  <2>2. CASE pc \in Applying /\ pc' \in Applying
    BY <2>2, PlannedApply DEF ToldInv
  <2>3. CASE pc' \notin Applying
    BY <2>3 DEF PlannedInv
  <2>4. pc' \in Applying => pc \in Applying \/ OpenDir
    BY DEF Applying, Removing, PassOf, Fault, Tell, Goto, Turn, NameTurn, NextAgent, FailAgent,
       Elsewhere, KeepDisk, Held, Hold, Planned, TellOf, Removed, EndRemoval, TakeBack, config,
       disk, scan, link, result, ghosts, bounds, ScanIdentity, ScanFails, ListEntries, ListFails,
       MakeDir, MakeDirFails, Rescan, OpenDir, Retire, RetireFails, Verify, VerifyFails, Unlink,
       UnlinkFails, EndAgent, EndPass, CreateMissing, Create, CreateFails, Inspect, InspectFails
  <2> QED BY <2>1, <2>2, <2>3, <2>4
<1> QED BY <1>1, TurnStep, AsideStep, RefusedStep, ScannedStep, DoneStep DEF ToldInv

(* At the end of a command that is all there is to tell.                   *)
LEMMA ToldEnough ==
    ASSUME TypeOK, ToldInv
    PROVE  ToldOrDone
<1> SUFFICES ASSUME pc = "end" PROVE ToldOrDone
  BY DEF ToldOrDone
<1>1. AsideTold
  BY DEF ToldInv, AsideInv, AsideTold
<1>2. todo = {}
  BY DEF ToldInv, TurnInv
<1>3. ASSUME NEW a \in Agents, NEW n \in Names, <<a, n>> \in on, n \in Unusable
      PROVE  \E r \in report : r[2] = n \/ (r[2] = "*" /\ n \in ReservedBy(r[1]))
  <2>1. n \in registered
    BY <1>3, Typed
  <2>2. CASE \E b \in Agents : <<b, n>> \in on /\ n \in ReservedBy(b)
    <3>1. PICK b \in Agents : <<b, n>> \in on /\ n \in ReservedBy(b)
      BY <2>2
    <3>2. \E r \in report : r[1] = b /\ r[2] \in {n, "*"}
      BY <3>1, <1>2 DEF ToldInv, RefusedInv
    <3> QED BY <3>1, <3>2
  <2>3. CASE ~\E b \in Agents : <<b, n>> \in on /\ n \in ReservedBy(b)
    <3>1. ~AlreadyReportedAsReserved(n)
      BY <1>3, <2>3 DEF AlreadyReportedAsReserved
    <3>2. <<"fu.yaml", n, "invalid">> \in report
      BY <1>3, <2>1, <3>1 DEF ToldInv, RefusedInv, InvalidReports
    <3> QED BY <3>2
  <2> QED BY <2>2, <2>3
<1>4. ASSUME NEW a \in Agents, NEW n \in Names, <<a, n>> \notin touched
      PROVE  DeliveryBlocked(a, n) \/ Done(a, n)
  BY <1>4, <1>2 DEF ToldInv, DoneInv
<1> QED BY <1>1, <1>3, <1>4 DEF ToldOrDone, Done

(* What one would say of a name rests on its entry and on fu.yaml.         *)
LEMMA QuietStays ==
    ASSUME UNCHANGED <<registered, on>>, NEW b \in Agents, NEW m \in Names,
           content'[m] = content[m],
           at'[b] = at[b], entry'[b][at[b]][m] = entry[b][at[b]][m]
    PROVE  QuietName(b, m)' = QuietName(b, m)
<1>1. Wanted(b, m)' = Wanted(b, m)
  BY DEF Wanted, Desired
<1>2. SightIn(b, at[b])'[m] = SightIn(b, at[b])[m]
  BY DEF SightIn, SightOf
<1>3. Diff(b, SightIn(b, at[b]))'[m] = Diff(b, SightIn(b, at[b]))[m]
  BY <1>1, <1>2 DEF Diff
<1> QED BY <1>3 DEF QuietName

LEMMA OverviewStays ==
    ASSUME UNCHANGED <<registered, on, content>>, NEW b \in Agents, at'[b] = at[b],
           \A g \in Gens, m \in Names : entry'[b][g][m] = entry[b][g][m]
    PROVE  Overview(b)' = Overview(b)
<1>1. at[b] \in Gens => SightIn(b, at[b])' = SightIn(b, at[b])
  BY DEF SightIn, SightOf
<1>2. CASE at[b] \in Gens
  <2>1. Diff(b, SightIn(b, at[b]))' = Diff(b, SightIn(b, at[b]))
    BY <1>1, <1>2 DEF Diff, Wanted, Desired
  <2>2. DiffReports(b, SightIn(b, at[b]))' = DiffReports(b, SightIn(b, at[b]))
    BY <1>1, <1>2 DEF DiffReports, Wanted, Desired
  <2> QED BY <1>1, <1>2, <2>1, <2>2 DEF Overview
<1>3. CASE at[b] \notin Gens
  <2>1. Diff(b, Nowhere)' = Diff(b, Nowhere) /\ DiffReports(b, Nowhere)' = DiffReports(b, Nowhere)
    BY DEF Diff, DiffReports, Wanted, Desired
  <2> QED BY <1>3, <2>1 DEF Overview
<1> QED BY <1>2, <1>3

(* A clean step fails nowhere and gives no agent up.                       *)
LEMMA CleanStep ==
    ASSUME TypeOK, ToldInv, NEW a \in Agents, NEW n \in Names, PassOf(a, n), Clean'
    PROVE  /\ Clean /\ ~Fault
           /\ ~ListFails /\ ~MakeDirFails
           /\ Rescan \/ OpenDir => at[cur] = seen
           /\ pc \in Midway \ {"mkdir"} => at[cur] = seen
<1>t. /\ cur \in Agents /\ {"missing", "symlink"} \cap Gens = {} /\ Names # {} /\ faults \in Nat
      /\ pc \in {"rescan", "list", "open", "apply", "retire", "verify", "unlink"} => seen \in Gens
  BY Typed, LinksAssumption DEF Names
<1>1. UNCHANGED touched /\ pc # "idle" /\ (faults' = faults \/ faults' = faults + 1) /\
      (Fault => faults' = faults + 1)
  BY PassKeeps DEF PassOf, Fault, Tell, Goto, Turn, NameTurn, NextAgent, FailAgent, Elsewhere,
     KeepDisk, Held, Hold, Planned, TellOf, Removed, EndRemoval, TakeBack, config, disk, scan,
     link, result, ghosts, bounds, ScanIdentity, ScanFails, ListEntries, ListFails, MakeDir,
     MakeDirFails, Rescan, OpenDir, Retire, RetireFails, Verify, VerifyFails, Unlink,
     UnlinkFails, EndAgent, EndPass, CreateMissing, Create, CreateFails, Inspect, InspectFails
<1>2. Clean /\ ~Fault
  BY <1>1, <1>t DEF Clean
<1>3. /\ pc = "mkdir" => at[cur] = "missing"
      /\ pc \in Midway \ {"mkdir"} => at[cur] = seen
  BY <1>2, <1>t DEF ToldInv, ScannedInv, Clean
<1>4. ~ListFails /\ ~MakeDirFails
  BY <1>2, <1>3, <1>t DEF ListFails, MakeDirFails, Midway
<1>5. Rescan \/ OpenDir => at[cur] = seen
  BY <1>3 DEF Rescan, OpenDir, Midway
<1> QED BY <1>2, <1>3, <1>4, <1>5

(* An agent that waits for its turn is as it was forecast.                 *)
LEMMA SaidStep ==
    ASSUME TypeOK, ToldInv, ForecastInv, NEW a \in Agents, NEW n \in Names, PassOf(a, n), Clean',
           NEW b \in todo', ~(b = cur /\ pc \in Applying)'
    PROVE  StillSaid(b)'
<1>t. b \in Agents /\ cur \in Agents /\ at \in [Agents -> {"missing", "symlink"} \cup Gens]
      /\ entry \in [Agents -> [Gens -> [Names -> Objects]]]
  BY PassKeeps, Typed
<1>c. Clean /\ ~Fault /\ ~ListFails /\ ~MakeDirFails /\ (Rescan \/ OpenDir => at[cur] = seen)
  BY CleanStep
<1>k. /\ UNCHANGED <<registered, on, content, touched, forecast>> /\ b \in todo
      /\ pc # "mkdir" => at' = at
      /\ \A x \in Agents : x # cur => at'[x] = at[x]
  BY PassKeeps DEF PassOf, Fault, Tell, Goto, Turn, NameTurn, NextAgent, FailAgent, Elsewhere,
     KeepDisk, Held, Hold, Planned, TellOf, Removed, EndRemoval, TakeBack, config, disk, scan,
     link, result, ghosts, bounds, ScanIdentity, ScanFails, ListEntries, ListFails, MakeDir,
     MakeDirFails, Rescan, OpenDir, Retire, RetireFails, Verify, VerifyFails, Unlink,
     UnlinkFails, EndAgent, EndPass, CreateMissing, Create, CreateFails, Inspect, InspectFails
<1>1. ~(b = cur /\ pc \in Applying)
  BY DEF Applying, Removing, PassOf, Fault, Tell, Goto, Turn, NameTurn, NextAgent, FailAgent,
     Elsewhere, KeepDisk, Held, Hold, Planned, TellOf, Removed, EndRemoval, TakeBack, config,
     disk, scan, link, result, ghosts, bounds, ScanIdentity, ScanFails, ListEntries, ListFails,
     MakeDir, MakeDirFails, Rescan, OpenDir, Retire, RetireFails, Verify, VerifyFails, Unlink,
     UnlinkFails, EndAgent, EndPass, CreateMissing, Create, CreateFails, Inspect, InspectFails
<1>2. StillSaid(b)
  BY <1>1, <1>c, <1>k DEF ForecastInv
<1>3. \A m \in Names : Unbegun(b, m)'
  <2>1. CASE b = cur
    <3>1. changed' = changed /\ \A r \in report' \ report : r[3] \in {"failed", "skipped"}
      BY <2>1, <1>1, <1>c DEF Applying, Removing, PassOf, Fault, Tell, Goto, Turn, NameTurn,
         NextAgent, FailAgent, Elsewhere, KeepDisk, Held, Hold, Planned, TellOf, Removed,
         EndRemoval, TakeBack, config, disk, scan, link, result, ghosts, bounds, ScanIdentity,
         ScanFails, ListEntries, ListFails, MakeDir, MakeDirFails, Rescan, OpenDir, Retire,
         RetireFails, Verify, VerifyFails, Unlink, UnlinkFails, EndAgent, EndPass, CreateMissing,
         Create, CreateFails, Inspect, InspectFails
    <3>2. ASSUME NEW m \in Names, NEW k \in {"conflict", "disabled foreign", "missing"},
                 <<b, m, k>> \in report'
          PROVE  <<b, m, k>> \in report
      <4>1. <<b, m, k>>[3] \notin {"failed", "skipped"}
        OBVIOUS
      <4> QED BY ONLY <3>1, <3>2, <4>1
    <3> QED BY ONLY <3>1, <3>2, <1>2, <1>t DEF StillSaid, Unbegun, Untold, InTheWay
  <2>2. CASE b # cur
    <3>1. \A p \in changed' \ changed : p[1] = cur
      BY DEF PassOf, Fault, Tell, Goto, Turn, NameTurn, NextAgent, FailAgent, Elsewhere,
         KeepDisk, Held, Hold, Planned, TellOf, Removed, EndRemoval, TakeBack, config, disk,
         scan, link, result, ghosts, bounds, ScanIdentity, ScanFails, ListEntries, ListFails,
         MakeDir, MakeDirFails, Rescan, OpenDir, Retire, RetireFails, Verify, VerifyFails,
         Unlink, UnlinkFails, EndAgent, EndPass, CreateMissing, Create, CreateFails, Inspect,
         InspectFails
    <3>2. ASSUME NEW m \in Names, NEW k \in {"conflict", "disabled foreign", "missing"},
                 <<b, m, k>> \in report'
          PROVE  <<b, m, k>> \in report
      <4>1. <<b, m, k>> \notin DiffReports(cur, sight) /\ <<b, m, k>> \notin ReservedReports(cur)
        BY <2>2 DEF DiffReports, ReservedReports
      <4>2. CASE OpenDir
        <5>1. report' \subseteq report \cup
              (DiffReports(cur, sight) \cup ReservedReports(cur)) \cup {<<cur, "*", "failed">>}
          BY <4>2 DEF OpenDir, FailAgent, Tell
        <5> QED BY ONLY <4>1, <5>1, <2>2, <3>2
      <4>3. CASE ~OpenDir
        <5>1. \/ report' = report
              \/ \E y, z : report' = report \cup {<<cur, y, z>>}
              \/ \E z \in {"skipped", "failed"} : report' = report \cup {<<a, "*", z>>}
          BY <4>3 DEF PassOf, Fault, Tell, Goto, Turn, NameTurn, NextAgent, FailAgent, Elsewhere,
             KeepDisk, Held, Hold, Planned, TellOf, Removed, EndRemoval, TakeBack, config, disk,
             scan, link, result, ghosts, bounds, ScanIdentity, ScanFails, ListEntries, ListFails,
             MakeDir, MakeDirFails, Rescan, Retire, RetireFails, Verify, VerifyFails, Unlink,
             UnlinkFails, EndAgent, EndPass, CreateMissing, Create, CreateFails, Inspect,
             InspectFails
        <5>2. ASSUME NEW y, NEW z, report' = report \cup {<<cur, y, z>>}
                     PROVE <<b, m, k>> \in report
          <6>1. <<b, m, k>> # <<cur, y, z>>
            BY <2>2
          <6> QED BY ONLY <6>1, <5>2, <3>2
        <5>3. ASSUME NEW z \in {"skipped", "failed"}, report' = report \cup {<<a, "*", z>>}
                     PROVE <<b, m, k>> \in report
          <6>1. <<b, m, k>> # <<a, "*", z>>
            OBVIOUS
          <6> QED BY ONLY <6>1, <5>3, <3>2
        <5> QED BY ONLY <5>1, <5>2, <5>3, <3>2
      <4> QED BY <4>2, <4>3
    <3>3. \A m \in Names : <<b, m>> \in changed' => <<b, m>> \in changed
      BY <3>1, <2>2
    <3> QED BY ONLY <3>2, <3>3, <1>2, <1>t DEF StillSaid, Unbegun, Untold, InTheWay
  <2> QED BY <2>1, <2>2
<1>4. Overview(b)' = Overview(b)
  <2>1. CASE b # cur \/ pc # "mkdir"
    <3>1. \A g \in Gens, m \in Names : entry'[b][g][m] = entry[b][g][m]
      <4>1. CASE b # cur
        BY <4>1, <1>t, EntryStep
      <4>2. CASE b = cur
        <5>1. pc \notin {"retire", "verify"} /\ ~Create(n)
          BY <4>2, <1>1 DEF Applying, Removing, Create, NameTurn
        <5> QED BY <5>1, <1>t, EntryStep
      <4> QED BY <4>1, <4>2
    <3> QED BY <3>1, <2>1, <1>k, <1>t, OverviewStays
  <2>2. CASE b = cur /\ pc = "mkdir"
    <3>1. at[b] = "missing"
      BY <2>2, <1>c, <1>t, LinksAssumption DEF ToldInv, ScannedInv, Clean, Names
    <3>2. MakeDir
      BY <2>2, <1>c DEF PassOf, Fault, Tell, Goto, Turn, NameTurn, NextAgent, FailAgent,
         Elsewhere, KeepDisk, Held, Hold, Planned, TellOf, Removed, EndRemoval, TakeBack, config,
         disk, scan, link, result, ghosts, bounds, ScanIdentity, ScanFails, ListEntries,
         ListFails, MakeDir, MakeDirFails, Rescan, OpenDir, Retire, RetireFails, Verify,
         VerifyFails, Unlink, UnlinkFails, EndAgent, EndPass, CreateMissing, Create, CreateFails,
         Inspect, InspectFails
    <3>3. PICK g \in Gens : entry[b][g] = Empty /\ at'[b] = g
      BY <2>2, <3>1, <3>2, <1>t DEF MakeDir
    <3>4. UNCHANGED entry /\ "missing" \notin Gens
      BY <3>2, LinksAssumption DEF MakeDir
    <3>5. SightIn(b, at[b])' = Nowhere
      BY <3>3, <3>4 DEF SightIn, SightOf, Empty, Nothing, Nowhere
    <3>6. /\ Diff(b, SightIn(b, at[b]))' = Diff(b, Nowhere)
          /\ DiffReports(b, SightIn(b, at[b]))' = DiffReports(b, Nowhere)
      BY <3>5, <1>k DEF Diff, DiffReports, Wanted, Desired
    <3>7. at'[b] \in Gens /\ at'[b] # "symlink" /\ at[b] # "symlink" /\ at[b] \notin Gens
      BY <3>1, <3>3, <3>4, LinksAssumption
    <3> QED BY <3>5, <3>6, <3>7, <1>k DEF Overview
  <2> QED BY <2>1, <2>2
<1> QED BY <1>2, <1>3, <1>4, <1>k DEF StillSaid

(* An agent that had its turn came out as it was forecast.                 *)
LEMMA TrueStep ==
    ASSUME TypeOK, ToldInv, ForecastInv, NEW a \in Agents, NEW n \in Names, PassOf(a, n), Clean',
           NEW b \in Agents, b \notin todo', NEW m \in Names
    PROVE  CameTrue(b, m)'
<1>c. Clean /\ ~Fault /\ ~ListFails /\ ~MakeDirFails /\ (Rescan \/ OpenDir => at[cur] = seen)
  BY CleanStep
<1>k. UNCHANGED forecast
  BY DEF PassOf, Fault, Tell, Goto, Turn, NameTurn, NextAgent, FailAgent, Elsewhere, KeepDisk,
     Held, Hold, Planned, TellOf, Removed, EndRemoval, TakeBack, config, disk, scan, link,
     result, ghosts, bounds, ScanIdentity, ScanFails, ListEntries, ListFails, MakeDir,
     MakeDirFails, Rescan, OpenDir, Retire, RetireFails, Verify, VerifyFails, Unlink,
     UnlinkFails, EndAgent, EndPass, CreateMissing, Create, CreateFails, Inspect, InspectFails
<1>1. CASE b \notin todo
  <2>1. CameTrue(b, m)
    BY <1>1, <1>c DEF ForecastInv
  <2>2. pc \in Midway => b # cur
    BY <1>1 DEF ToldInv, TurnInv
  <2>3. <<b, m>> \in changed' <=> <<b, m>> \in changed
    BY <2>2 DEF Midway, Applying, Removing, PassOf, Fault, Tell, Goto, Turn, NameTurn, NextAgent,
       FailAgent, Elsewhere, KeepDisk, Held, Hold, Planned, TellOf, Removed, EndRemoval,
       TakeBack, config, disk, scan, link, result, ghosts, bounds, ScanIdentity, ScanFails,
       ListEntries, ListFails, MakeDir, MakeDirFails, Rescan, OpenDir, Retire, RetireFails,
       Verify, VerifyFails, Unlink, UnlinkFails, EndAgent, EndPass, CreateMissing, Create,
       CreateFails, Inspect, InspectFails
  <2>4. ASSUME NEW k \in {"conflict", "disabled foreign", "missing"}
        PROVE  <<b, m, k>> \in report' <=> <<b, m, k>> \in report
    <3>1. <<b, m, k>> \in report => <<b, m, k>> \in report'
      BY PassKeeps
    <3>2. ASSUME <<b, m, k>> \in report' PROVE <<b, m, k>> \in report
      <4>2. CASE OpenDir
        <5>1. report' \subseteq report \cup
              (DiffReports(cur, sight) \cup ReservedReports(cur)) \cup {<<cur, "*", "failed">>}
          BY <4>2 DEF OpenDir, FailAgent, Tell
        <5>2. b # cur
          BY <4>2, <2>2 DEF OpenDir, Midway
        <5>3. <<b, m, k>> \notin DiffReports(cur, sight) /\ <<b, m, k>> \notin ReservedReports(cur)
          BY <5>2 DEF DiffReports, ReservedReports
        <5> QED BY ONLY <5>1, <5>2, <5>3, <3>2
      <4>3. CASE ~OpenDir
        <5>1. \/ report' = report
              \/ pc \in Midway /\ \E y, z : report' = report \cup {<<cur, y, z>>}
              \/ \E z \in {"skipped", "failed"} : report' = report \cup {<<a, "*", z>>}
          BY <4>3 DEF Midway, Applying, Removing, PassOf, Fault, Tell, Goto, Turn, NameTurn,
             NextAgent, FailAgent, Elsewhere, KeepDisk, Held, Hold, Planned, TellOf, Removed,
             EndRemoval, TakeBack, config, disk, scan, link, result, ghosts, bounds,
             ScanIdentity, ScanFails, ListEntries, ListFails, MakeDir, MakeDirFails, Rescan,
             Retire, RetireFails, Verify, VerifyFails, Unlink, UnlinkFails, EndAgent, EndPass,
             CreateMissing, Create, CreateFails, Inspect, InspectFails
        <5>2. ASSUME NEW y, NEW z, report' = report \cup {<<cur, y, z>>}, pc \in Midway
                     PROVE <<b, m, k>> \in report
          <6>1. <<b, m, k>> # <<cur, y, z>>
            BY <2>2, <5>2
          <6> QED BY ONLY <6>1, <5>2, <3>2
        <5>3. ASSUME NEW z \in {"skipped", "failed"}, report' = report \cup {<<a, "*", z>>}
                     PROVE <<b, m, k>> \in report
          <6>1. <<b, m, k>> # <<a, "*", z>>
            OBVIOUS
          <6> QED BY ONLY <6>1, <5>3, <3>2
        <5> QED BY ONLY <5>1, <5>2, <5>3, <3>2
      <4> QED BY <4>2, <4>3
    <3> QED BY <3>1, <3>2
  <2> QED BY <2>1, <2>3, <2>4, <1>k DEF CameTrue, Untold, InTheWay
<1>2. CASE b \in todo
  <2>1. EndAgent \/ (ScanIdentity(a) /\ a = b /\ at[b] = "symlink")
    BY <1>2, <1>c DEF PassOf, Fault, Tell, Goto, Turn, NameTurn, NextAgent, FailAgent, Elsewhere,
       KeepDisk, Held, Hold, Planned, TellOf, Removed, EndRemoval, TakeBack, config, disk, scan,
       link, result, ghosts, bounds, ScanIdentity, ScanFails, ListEntries, ListFails, MakeDir,
       MakeDirFails, Rescan, OpenDir, Retire, RetireFails, Verify, VerifyFails, Unlink,
       UnlinkFails, EndAgent, EndPass, CreateMissing, Create, CreateFails, Inspect, InspectFails
  <2>2. CASE EndAgent
    <3>1. b = cur /\ plan[m] = "none" /\ pc \in Applying /\ UNCHANGED <<report, changed>>
      BY <1>2, <2>2 DEF EndAgent, NextAgent, Nowhere, Applying, KeepDisk
    <3>2. CameTrue(b, m)
      BY <3>1, <1>c DEF ForecastInv
    <3> QED BY <3>1, <3>2, <1>k DEF CameTrue, Untold
  <2>3. CASE ScanIdentity(a) /\ a = b /\ at[b] = "symlink"
    <3>1. report' = report \cup {<<b, "*", "skipped">>} /\ UNCHANGED changed /\ pc = "agent"
      BY <2>3 DEF ScanIdentity, Tell, KeepDisk, Turn
    <3>2. StillSaid(b)
      BY <1>2, <1>c, <3>1 DEF ForecastInv, Applying, Removing
    <3>3. Overview(b)[m] = "none"
      BY <2>3 DEF Overview, Nowhere
    <3>4. forecast[b][m] = "none" /\ Unbegun(b, m)
      BY <3>2, <3>3 DEF StillSaid
    <3>5. \A k \in {"conflict", "disabled foreign", "missing"} : <<b, m, k>> \notin report'
      BY <3>1, <3>4 DEF Unbegun, Untold, InTheWay
    <3>6. <<b, m>> \notin changed'
      BY <3>1, <3>4 DEF Unbegun
    <3> QED BY ONLY <3>4, <3>5, <3>6, <1>k DEF CameTrue, Untold, InTheWay, Pending
  <2> QED BY <2>1, <2>2, <2>3
<1> QED BY <1>1, <1>2

(* A clean scan sees what the directory holds.                             *)
LEMMA SightStep ==
    ASSUME TypeOK, ToldInv, NEW a \in Agents, NEW n \in Names, PassOf(a, n), Clean', pc' = "open"
    PROVE  sight' = SightIn(cur, seen)'
<1>1. ListEntries
  BY DEF PassOf, Fault, Tell, Goto, Turn, NameTurn, NextAgent, FailAgent, Elsewhere, KeepDisk,
     Held, Hold, Planned, TellOf, Removed, EndRemoval, TakeBack, config, disk, scan, link,
     result, ghosts, bounds, ScanIdentity, ScanFails, ListEntries, ListFails, MakeDir,
     MakeDirFails, Rescan, OpenDir, Retire, RetireFails, Verify, VerifyFails, Unlink,
     UnlinkFails, EndAgent, EndPass, CreateMissing, Create, CreateFails, Inspect, InspectFails
<1>2. ~Fault /\ pc = "list" /\ at[cur] = seen /\ UNCHANGED <<cur, seen, entry, content>>
  BY <1>1, CleanStep DEF ListEntries, Elsewhere, KeepDisk, disk, Midway, Applying, Removing
<1>3. seen \in Gens
  BY <1>2, Typed
<1>4. sight' = SightIn(cur, seen)
  BY <1>1, <1>2, <1>3, LinksAssumption DEF ListEntries
<1>5. SightIn(cur, seen)' = SightIn(cur, seen)
  BY <1>2 DEF SightIn, SightOf
<1> QED BY <1>4, <1>5

(* A clean plan is the forecast.                                           *)
LEMMA GoingOpen ==
    ASSUME TypeOK, ToldInv, ForecastInv, NEW n \in Names, PassOf(cur, n), Clean', OpenDir,
           NEW m \in Names
    PROVE  Going(m)'
<1>t. /\ cur \in Agents /\ entry \in [Agents -> [Gens -> [Names -> Objects]]]
      /\ seen \in Gens /\ {"missing", "symlink"} \cap Gens = {} /\ content \in [Names -> Contents]
  BY Typed, LinksAssumption DEF OpenDir
<1>c. Clean /\ at[cur] = seen /\ pc = "open"
  BY CleanStep, <1>t DEF OpenDir
<1>1. /\ plan' = Diff(cur, sight) /\ pc' = "apply"
      /\ report' = report \cup (DiffReports(cur, sight) \cup ReservedReports(cur))
      /\ UNCHANGED <<cur, seen, registered, on, content, at, entry, touched, forecast, changed>>
  BY <1>c DEF OpenDir, Goto, Tell, Elsewhere, KeepDisk, config, disk, scan
<1>2. sight = SightIn(cur, seen) /\ StillSaid(cur) /\ cur \in todo
  BY <1>c DEF ForecastInv, Applying, Removing, ToldInv, TurnInv, Midway
<1> DEFINE o == entry[cur][seen][m]
           d == Diff(cur, sight)[m]
           f == forecast[cur][m]
<1>o. o \in Objects /\ sight[m] = SightOf(cur, m, o) /\ Held(m) = o /\ Held(m)' = o
  BY <1>t, <1>1, <1>2 DEF SightIn, Held
<1>3. /\ f = IF d = "create" /\ content[m] # "dir" THEN "missing"
             ELSE IF d = "rebuild" /\ sight[m] = "broken" THEN "rebuild missing"
             ELSE IF d # "none" THEN d
             ELSE IF \E k \in {"conflict", "disabled foreign"} :
               <<cur, m, k>> \in DiffReports(cur, sight)
             THEN "blocked" ELSE "none"
      /\ Unbegun(cur, m)
  <2>1. forecast[cur][m] = Overview(cur)[m] /\ Unbegun(cur, m)
    BY <1>2 DEF StillSaid
  <2>2. at[cur] \in Gens /\ at[cur] # "symlink" /\ SightIn(cur, at[cur]) = sight
    BY <1>c, <1>t, <1>2
  <2> QED BY <2>1, <2>2 DEF Overview
<1>4. /\ d \in Plans /\ (d # "none" => sight[m] # "foreign")
      /\ d = "create" => sight[m] = "none" /\ m \notin ReservedBy(cur)
      /\ d = "rebuild" => sight[m] \in {"respelled", "broken"}
      /\ d = "remove" => sight[m] \in {"ours", "respelled", "broken"}
  BY DEF Diff, Plans, Wanted, Desired
<1>5. \A k \in {"conflict", "disabled foreign"} : <<cur, m, k>> \in DiffReports(cur, sight) =>
      sight[m] = "foreign"
  BY DEF DiffReports
<1>6. <<cur, m, "missing">> \notin DiffReports(cur, sight)
      /\ \A k \in {"conflict", "disabled foreign", "missing"} :
         <<cur, m, k>> \notin ReservedReports(cur)
  BY DEF DiffReports, ReservedReports
<1>7. \A k \in {"conflict", "disabled foreign", "missing"} :
        <<cur, m, k>> \in report' <=> <<cur, m, k>> \in DiffReports(cur, sight)
  BY <1>1, <1>3, <1>6 DEF Unbegun, Untold, InTheWay
<1>8. <<cur, m>> \notin changed'
  BY <1>1, <1>3 DEF Unbegun
<1>9. QuietName(cur, m)' = QuietName(cur, m) /\ (d = "none" => QuietName(cur, m))
  <2>1. QuietName(cur, m)' = QuietName(cur, m)
    BY <1>1, <1>t, <1>c, QuietStays
  <2> QED BY <2>1, <1>2, <1>c DEF QuietName
<1>10. d # "none" => Unbegun(cur, m)'
  BY <1>1, <1>4, <1>5, <1>6, <1>7, <1>8 DEF Unbegun, Untold, InTheWay
<1>11. plan'[m] = d
  BY <1>1
<1>12. sight[m] = "none" /\ m \notin ReservedBy(cur) => o = Nothing
  BY <1>o DEF SightOf, Objects, Object, Nothing
<1>13. /\ sight[m] \in {"ours", "respelled", "broken"} => o.kind \in {"ours", "respelled"}
       /\ sight[m] = "respelled" => content[m] = "dir"
       /\ sight[m] = "broken" => content[m] # "dir"
  <2>1. o.kind \in {"none", "ours", "respelled", "foreign"} /\
        content[m] \in {"dir", "absent", "loop"}
    BY <1>o, <1>t DEF Objects, Object, Nothing, Contents
  <2> QED BY <2>1, <1>o DEF SightOf
<1> HIDE DEF o, d, f
<1>14. forecast'[cur'][m] = f /\ content'[m] = content[m] /\ cur' = cur /\ pc' = "apply"
  BY <1>1 DEF f
<1>15. plan'[m] = "none" => CameTrue(cur, m)' /\ QuietName(cur, m)'
  <2> SUFFICES ASSUME d = "none" PROVE CameTrue(cur, m)' /\ QuietName(cur, m)'
    BY <1>11
  <2>1. f \in {"blocked", "none"} /\
        (f = "blocked" <=> \E k \in {"conflict", "disabled foreign"} :
        <<cur, m, k>> \in DiffReports(cur, sight))
    BY <1>3
  <2>2. <<cur, m, "missing">> \notin report' /\ (~Untold(cur, m, InTheWay)' <=> f = "blocked")
    BY <2>1, <1>6, <1>7, <1>14 DEF Untold, InTheWay
  <2> QED BY <2>1, <2>2, <1>8, <1>9, <1>14 DEF CameTrue, Pending
<1>16. plan'[m] = "create" => HalfTrue(m)' /\ Held(m)' = Nothing
  <2> SUFFICES ASSUME d = "create" PROVE HalfTrue(m)' /\ Held(m)' = Nothing
    BY <1>11
  <2>1. f = IF content[m] # "dir" THEN "missing" ELSE "create"
    BY <1>3
  <2> QED BY <2>1, <1>4, <1>8, <1>10, <1>12, <1>o, <1>14 DEF HalfTrue, Unbegun
<1>17. plan'[m] = "remove" => f = "remove" /\ Unbegun(cur, m)' /\
       Held(m)'.kind \in {"ours", "respelled"}
  BY <1>3, <1>4, <1>10, <1>11, <1>13, <1>o
<1>18. plan'[m] = "rebuild" => /\ Unbegun(cur, m)' /\ Held(m)'.kind \in {"ours", "respelled"}
                               /\ f = IF content[m] = "dir" THEN "rebuild" ELSE "rebuild missing"
  BY <1>3, <1>4, <1>10, <1>11, <1>13, <1>o
<1> QED BY <1>14, <1>15, <1>16, <1>17, <1>18 DEF Going

(* A clean call does what was forecast of its name, and leaves it quiet.   *)
LEMMA GoingApply ==
    ASSUME TypeOK, RetiredInv, ToldInv, ForecastInv, QuietInv, NEW a \in Agents, NEW n \in Names,
           PassOf(a, n), Clean',
           pc \in Applying, pc' \in Applying, NEW m \in Names
    PROVE  Going(m)'
<1>t. /\ cur \in Agents /\ entry \in [Agents -> [Gens -> [Names -> Objects]]] /\
         content \in [Names -> Contents]
      /\ plan \in [Names -> Plans] /\ seen \in Gens /\ name \in Names
  BY Typed DEF Applying, Removing
<1>c. Clean /\ ~Fault /\ at[cur] = seen
  BY CleanStep DEF Applying, Removing, Midway
<1>k. /\ UNCHANGED <<registered, on, content, touched, at, cur, seen, forecast>> /\
         report \subseteq report'
  BY PassKeeps DEF Applying, Removing, PassOf, Fault, Tell, Goto, Turn, NameTurn, NextAgent,
     FailAgent, Elsewhere, KeepDisk, Held, Hold, Planned, TellOf, Removed, EndRemoval, TakeBack,
     config, disk, scan, link, result, ghosts, bounds, ScanIdentity, ScanFails, ListEntries,
     ListFails, MakeDir, MakeDirFails, Rescan, OpenDir, Retire, RetireFails, Verify, VerifyFails,
     Unlink, UnlinkFails, EndAgent, EndPass, CreateMissing, Create, CreateFails, Inspect,
     InspectFails
<1>g. Going(m)
  BY <1>c DEF ForecastInv, QuietInv, Going
<1>p. /\ plan[m] \in {"create", "rebuild"} => Wanted(cur, m)
      /\ plan[m] = "remove" => ~Wanted(cur, m)
      /\ m = name => /\ pc = "verify" => moved = approved
                     /\ pc \in {"verify", "unlink"} => Held(m) = Nothing
  BY <1>c DEF ToldInv, PlannedInv, Clean
<1>1. \/ CreateMissing(n) \/ Create(n) \/ Inspect(n) \/ Retire \/ Verify \/ Unlink
  BY <1>c DEF Applying, Removing, PassOf, CreateFails, InspectFails, RetireFails, VerifyFails,
     UnlinkFails,
     ScanIdentity, ScanFails, ListEntries, ListFails, MakeDir, MakeDirFails, Rescan, OpenDir, Turn,
       EndAgent, EndPass, NextAgent, Goto
<1>f. plan[m] \in Plans
  BY <1>t
<1>2. ASSUME \A k \in {"conflict", "disabled foreign", "missing"} : <<cur, m, k>> \in report' <=>
             <<cur, m, k>> \in report,
             <<cur, m>> \in changed' <=> <<cur, m>> \in changed,
             plan'[m] = plan[m], Held(m)' = Held(m),
             plan[m] \in {"remove", "rebuild"} /\ m = name /\ pc \in {"verify", "unlink"} =>
               m = name' /\ pc' \in {"verify", "unlink"}
      PROVE  Going(m)'
  <2>1. Unbegun(cur, m)' = Unbegun(cur, m) /\ Untold(cur, m, InTheWay)' = Untold(cur, m, InTheWay)
        /\ Untold(cur, m, InTheWay \cup {"missing"})' = Untold(cur, m, InTheWay \cup {"missing"})
    BY <1>2, <1>k DEF Unbegun, Untold, InTheWay
  <2>2. CameTrue(cur, m)' = CameTrue(cur, m)
    BY <1>2, <1>k, <2>1 DEF CameTrue
  <2>3. HalfTrue(m)' = HalfTrue(m)
    BY <1>2, <1>k, <2>1 DEF HalfTrue
  <2>4. QuietName(cur, m)' = QuietName(cur, m)
    BY <1>2, <1>k, <1>t, <1>c, QuietStays DEF Held
  <2> QED BY <1>2, <1>g, <1>k, <2>1, <2>2, <2>3, <2>4 DEF Going
(* A name is quiet once there is nothing under it, or the link it wants.   *)
<1>q. ASSUME Held(m)' = Nothing, ~Wanted(cur, m) \/ content[m] # "dir" PROVE QuietName(cur, m)'
  <2>1. SightIn(cur, at[cur])'[m] = "none"
    BY <1>q, <1>k, <1>c DEF SightIn, SightOf, Held, Nothing
  <2>2. Wanted(cur, m)' = Wanted(cur, m)
    BY <1>k DEF Wanted, Desired
  <2> QED BY <1>q, <2>1, <2>2, <1>k DEF QuietName, Diff
<1>3. CASE CreateMissing(n)
  <2>1. /\ report' = report \cup {<<cur, n, "missing">>} /\ UNCHANGED <<changed, entry, pc, name>>
        /\ plan' = [plan EXCEPT ![n] = "none"] /\ content[n] # "dir" /\ plan[n] = "create"
    BY <1>3 DEF CreateMissing, TellOf, Tell, Planned, KeepDisk, disk, link
  <2>h. Held(m)' = Held(m)
    BY <2>1, <1>k DEF Held
  <2>2. CASE m = n
    <3>1. HalfTrue(m) /\ Held(m) = Nothing
      BY <2>1, <2>2, <1>g DEF Going
    <3>2. forecast[cur][m] \in {"missing", "rebuild missing"}
      BY <3>1, <2>1, <2>2 DEF HalfTrue
    <3>3. Untold(cur, m, InTheWay)'
      BY <3>1, <2>1, <1>k DEF HalfTrue, Untold, InTheWay
    <3>4. CameTrue(cur, m)'
      BY <3>1, <3>2, <3>3, <2>1, <2>2, <1>k DEF HalfTrue, CameTrue, Pending
    <3>5. QuietName(cur, m)'
      BY <3>1, <2>1, <2>2, <2>h, <1>q
    <3> QED BY <3>4, <3>5, <2>1, <2>2, <1>t DEF Going
  <2>3. CASE m # n
    BY <2>1, <2>3, <2>h, <1>t, <1>2
  <2> QED BY <2>2, <2>3
<1>4. CASE Create(n)
  <2>1. Going(n) /\ plan[n] = "create" /\ content[n] = "dir"
    BY <1>4, <1>c DEF Create, ForecastInv, QuietInv, Going
  <2>2. /\ entry' = [entry EXCEPT ![cur][seen][n] = OurLink] /\ changed' = changed \cup {<<cur, n>>}
        /\ plan' = [plan EXCEPT ![n] = "none"] /\ UNCHANGED <<report, pc, name>>
    BY <1>4, <2>1 DEF Create, Hold, Planned, Going, link
  <2>3. \A l \in Names : entry'[cur][seen][l] = IF l = n THEN OurLink ELSE entry[cur][seen][l]
    BY ONLY <2>2, <1>t, EntryAt, n \in Names
  <2>4. CASE m = n
    <3>1. HalfTrue(m)
      BY <2>1, <2>4 DEF Going
    <3>2. forecast[cur][m] \in {"create", "rebuild"}
      BY <3>1, <2>1, <2>4 DEF HalfTrue
    <3>3. CameTrue(cur, m)'
      BY <3>1, <3>2, <2>2, <2>4, <1>k DEF HalfTrue, CameTrue, Pending, Untold, InTheWay
    <3>4. Wanted(cur, m) /\ Wanted(cur, m)' = Wanted(cur, m) /\ m \notin ReservedBy(cur)
      BY <1>p, <2>1, <2>4, <1>k DEF Wanted, Desired
    <3>5. SightIn(cur, at[cur])'[m] = "ours"
      BY <2>1, <2>3, <2>4, <3>4, <1>k, <1>c DEF SightIn, SightOf, OurLink
    <3>6. QuietName(cur, m)'
      BY <3>4, <3>5 DEF QuietName, Diff
    <3> QED BY <3>3, <3>6, <2>2, <2>4, <1>t DEF Going
  <2>5. CASE m # n
    <3>1. Held(m)' = Held(m)
      BY <2>3, <2>5, <1>k DEF Held
    <3> QED BY <2>2, <2>5, <3>1, <1>t, <1>2
  <2> QED BY <2>4, <2>5
<1>5. CASE Inspect(n)
  <2>1. Going(n) /\ plan[n] \in {"remove", "rebuild"} /\ pc = "apply"
    BY <1>5, <1>c DEF Inspect, ForecastInv, QuietInv, Going, NameTurn
  <2>2. Held(n).kind \in {"ours", "respelled"}
    BY <2>1 DEF Going
  <2>3. UNCHANGED <<plan, report, changed, entry>>
    BY <1>5, <2>2 DEF Inspect, KeepDisk, disk
  <2>4. Held(m)' = Held(m)
    BY <2>3, <1>k DEF Held
  <2> QED BY <2>1, <2>3, <2>4, <1>2
<1>n. pc \in Removing => Going(name)
  BY <1>c, <1>t DEF ForecastInv, QuietInv, Going
<1>6. CASE Retire
  <2>1. plan[name] \in {"remove", "rebuild"} /\ pc = "retire" /\ UNCHANGED <<name, report, changed>>
    BY <1>6 DEF Retire, RetiredInv, Removing, result
  <2>2. Held(name) # Nothing
    <3>1. Going(name)
      BY <1>n, <2>1 DEF Removing
    <3>2. Held(name).kind \in {"ours", "respelled"}
      BY <3>1, <2>1 DEF Going
    <3> QED BY <3>2 DEF Nothing
  <2>3. entry' = [entry EXCEPT ![cur][seen][name] = Nothing] /\ UNCHANGED plan /\ pc' = "verify"
    BY <1>6, <2>2 DEF Retire, Hold, Goto
  <2>4. \A l \in Names : entry'[cur][seen][l] = IF l = name THEN Nothing ELSE entry[cur][seen][l]
    BY ONLY <2>3, <1>t, EntryAt
  <2>5. CASE m = name
    BY <2>1, <2>3, <2>5, <1>g, <1>k DEF Going, Unbegun, Untold
  <2>6. CASE m # name
    <3>1. Held(m)' = Held(m)
      BY <2>4, <2>6, <1>k DEF Held
    <3> QED BY <2>1, <2>3, <2>6, <3>1, <1>2
  <2> QED BY <2>5, <2>6
<1>7. CASE Verify
  <2>1. moved = approved
    BY <1>7, <1>c, <1>t DEF Verify, ToldInv, PlannedInv, Clean, Applying, Removing
  <2>2. UNCHANGED <<plan, entry, report, changed, name>> /\ pc' = "unlink"
    BY <1>7, <2>1 DEF Verify, Goto, link
  <2>3. Held(m)' = Held(m)
    BY <2>2, <1>k DEF Held
  <2> QED BY <2>2, <2>3, <1>2
<1>8. CASE Unlink
  <2>1. /\ changed' = changed \cup {<<cur, name>>} /\ UNCHANGED <<entry, report, name>> /\
           pc = "unlink"
        /\ plan' = [plan EXCEPT ![name] = IF plan[name] = "rebuild" THEN "create" ELSE "none"]
    BY <1>8 DEF Unlink, EndRemoval, Removed, Planned, link
  <2>2. plan[name] \in {"remove", "rebuild"}
    BY <2>1 DEF RetiredInv, Removing
  <2>3. Held(m)' = Held(m)
    BY <2>1, <1>k DEF Held
  <2>4. CASE m = name
    <3>1. Held(m)' = Nothing
      BY <1>p, <2>1, <2>3, <2>4
    <3>2. CASE plan[m] = "remove"
      <4>1. forecast[cur][m] = "remove" /\ Unbegun(cur, m) /\ ~Wanted(cur, m) /\ plan'[m] = "none"
        BY <1>g, <1>p, <3>2, <2>1, <2>4, <1>t DEF Going
      <4>2. CameTrue(cur, m)'
        BY <4>1, <2>1, <2>4, <1>k DEF CameTrue, Unbegun, Untold, InTheWay, Pending
      <4>3. QuietName(cur, m)'
        BY <3>1, <4>1, <1>q
      <4> QED BY <4>1, <4>2, <4>3 DEF Going
    <3>3. CASE plan[m] = "rebuild"
      <4>1. /\ Unbegun(cur, m) /\ plan'[m] = "create"
            /\ forecast[cur][m] = IF content[m] = "dir" THEN "rebuild" ELSE "rebuild missing"
        BY <1>g, <3>3, <2>1, <2>4, <1>t DEF Going
      <4>2. HalfTrue(m)'
        BY <4>1, <2>1, <2>4, <1>k DEF HalfTrue, Unbegun, Untold
      <4> QED BY <3>1, <4>1, <4>2 DEF Going
    <3> QED BY <2>2, <2>4, <3>2, <3>3
  <2>5. CASE m # name
    BY <2>1, <2>3, <2>5, <1>2
  <2> QED BY <2>4, <2>5
<1> QED BY <1>1, <1>3, <1>4, <1>5, <1>6, <1>7, <1>8

(* A clean pass goes as forecast and leaves every agent quiet.             *)
LEMMA CleanPass ==
    ASSUME TypeOK, RetiredInv, ToldInv, ForecastInv, QuietInv, NEW a \in Agents, NEW n \in Names,
           PassOf(a, n)
    PROVE  ForecastInv' /\ QuietInv'
<1> SUFFICES ASSUME Clean' PROVE ForecastInv' /\ QuietInv'
  BY DEF ForecastInv, QuietInv
<1>t. cur \in Agents
  BY Typed
<1>c. Clean /\ ~Fault /\ ~ListFails /\ ~MakeDirFails /\ (Rescan \/ OpenDir => at[cur] = seen)
      /\ (pc \in Midway \ {"mkdir"} => at[cur] = seen)
  BY CleanStep
<1>k. /\ UNCHANGED <<registered, on, content>>
      /\ pc # "mkdir" => at' = at
      /\ \A x \in Agents : x # cur => at'[x] = at[x]
  BY PassKeeps
<1>1. ASSUME pc' \in Applying, NEW m \in Names PROVE Going(m)'
  <2>1. CASE pc \in Applying
    BY <1>1, <2>1, GoingApply
  <2>2. CASE pc \notin Applying
    <3>1. OpenDir
      BY <1>1, <2>2 DEF Applying, Removing, PassOf, Fault, Tell, Goto, Turn, NameTurn, NextAgent,
         FailAgent, Elsewhere, KeepDisk, Held, Hold, Planned, TellOf, Removed, EndRemoval,
         TakeBack, config, disk, scan, link, result, ghosts, bounds, ScanIdentity, ScanFails,
         ListEntries, ListFails, MakeDir, MakeDirFails, Rescan, OpenDir, Retire, RetireFails,
         Verify, VerifyFails, Unlink, UnlinkFails, EndAgent, EndPass, CreateMissing, Create,
         CreateFails, Inspect, InspectFails
    <3>2. PassOf(cur, n)
      BY <3>1 DEF PassOf
    <3> QED BY <3>1, <3>2, <1>t, GoingOpen
  <2> QED BY <2>1, <2>2
<1>2. ASSUME NEW b \in todo' PROVE (StillSaid(b) \/ (b = cur /\ pc \in Applying))'
  BY SaidStep
<1>3. ASSUME NEW b \in Agents, NEW m \in Names, b \notin todo' PROVE CameTrue(b, m)'
  BY <1>3, TrueStep
<1>4. ForecastInv'
  BY <1>1, <1>2, <1>3, SightStep DEF ForecastInv, Going
<1>5. ASSUME NEW b \in Agents, b \notin todo' PROVE Quiet(b)'
  <2>1. CASE b \notin todo
    <3>1. Quiet(b)
      BY <1>c, <2>1 DEF QuietInv
    <3>2. pc \in Midway => b # cur
      BY <2>1 DEF ToldInv, TurnInv
    <3>3. at'[b] = at[b]
      BY <3>2, <1>k DEF Midway
    <3>4. \A g \in Gens, m \in Names : entry'[b][g][m] = entry[b][g][m]
      <4>1. b = cur => pc \notin {"retire", "verify"} /\ ~Create(n)
        BY <3>2 DEF Midway, Applying, Removing, Create, NameTurn
      <4> QED BY <4>1, EntryStep
    <3>5. at[b] \in Gens => \A m \in Names : QuietName(b, m)' = QuietName(b, m)
      BY <3>3, <3>4, <1>k, QuietStays
    <3> QED BY <3>1, <3>3, <3>5 DEF Quiet
  <2>2. CASE b \in todo
    <3>1. EndAgent \/ (ScanIdentity(a) /\ a = b /\ at[b] = "symlink")
      BY <1>5, <2>2, <1>c DEF PassOf, Fault, Tell, Goto, Turn, NameTurn, NextAgent, FailAgent,
         Elsewhere, KeepDisk, Held, Hold, Planned, TellOf, Removed, EndRemoval, TakeBack, config,
         disk, scan, link, result, ghosts, bounds, ScanIdentity, ScanFails, ListEntries,
         ListFails, MakeDir, MakeDirFails, Rescan, OpenDir, Retire, RetireFails, Verify,
         VerifyFails, Unlink, UnlinkFails, EndAgent, EndPass, CreateMissing, Create, CreateFails,
         Inspect, InspectFails
    <3>2. CASE EndAgent
      <4>1. b = cur /\ pc = "apply" /\ plan = Nowhere /\ UNCHANGED <<entry, at>>
        BY <1>5, <2>2, <3>2 DEF EndAgent, NextAgent, KeepDisk, disk
      <4>2. at[b] = seen /\ seen \in Gens
        BY <4>1, <1>c, Typed DEF Midway, Applying
      <4>3. \A m \in Names : QuietName(b, m)
        BY <4>1, <1>c DEF QuietInv, Applying, Nowhere
      <4>4. \A m \in Names : QuietName(b, m)' = QuietName(b, m)
        BY <4>1, <1>k, QuietStays
      <4> QED BY <4>1, <4>2, <4>3, <4>4 DEF Quiet
    <3>3. CASE ScanIdentity(a) /\ a = b /\ at[b] = "symlink"
      BY <3>3, <1>k DEF Quiet, ScanIdentity, Turn
    <3> QED BY <3>1, <3>2, <3>3
  <2> QED BY <2>1, <2>2
<1>6. QuietInv'
  BY <1>1, <1>5 DEF QuietInv, Going
<1> QED BY <1>4, <1>6

(* A command forecasts what holds as it begins.                            *)
LEMMA CleanOther ==
    ASSUME TypeOK, Command \/ Return \/ Crash \/ \E a \in Agents, n \in Names : UserOf(a, n),
           SettledInv, ToldInv, ForecastInv, QuietInv
    PROVE  ForecastInv' /\ QuietInv'
<1> SUFFICES ASSUME Clean' PROVE ForecastInv' /\ QuietInv'
  BY DEF ForecastInv, QuietInv
<1>1. ~\E a \in Agents, n \in Names : UserOf(a, n)
  <2> SUFFICES ASSUME NEW a \in Agents, NEW n \in Names, UserOf(a, n) PROVE FALSE
    OBVIOUS
  <2>1. pc # "idle"
    BY DEF Clean, UserOf, Meddle, Redirect, Rework, EditConfig, Edit, Touch, KeepPass, config,
       disk, scan, link, result, ghosts, bounds
  <2>2. <<a, n>> \in touched'
    BY <2>1, Typed DEF UserOf, Meddle, Redirect, Rework, EditConfig, Edit, Touch, KeepPass,
       config, disk, scan, link, result, ghosts, bounds
  <2> QED BY <2>2 DEF Clean
<1>2. Command
  BY <1>1 DEF Clean, Return, Crash, Fault, Forget, Goto
<1>3. /\ pc' = "agent" /\ todo' = Agents /\ changed' = {} /\ report' = InvalidReports'
      /\ forecast' = [a \in Agents |-> Overview(a)']
  BY <1>2 DEF ToldInv, TurnInv, Command, Restore, Toggle, New, Rm, Begin, config, disk, scan,
     link, result, ghosts, bounds
<1>4. \A b \in Agents, m \in Names : Unbegun(b, m)'
  <2>1. \A b \in Agents, m \in Names, k \in {"conflict", "disabled foreign", "missing"} :
        <<b, m, k>> \notin InvalidReports'
    BY DEF InvalidReports
  <2> QED BY <1>3, <2>1 DEF Unbegun, Untold, InTheWay
<1>5. \A b \in Agents : StillSaid(b)'
  BY <1>3, <1>4 DEF StillSaid
<1> QED BY <1>3, <1>5 DEF ForecastInv, QuietInv, Applying, Removing

(* A pass over quiet agents changes nothing.                               *)
LEMMA SettledPass ==
    ASSUME TypeOK, ToldInv, SettledInv, NEW a \in Agents, NEW n \in Names, PassOf(a, n)
    PROVE  SettledInv'
<1> SUFFICES ASSUME settled PROVE SettledInv'
  BY DEF SettledInv, PassOf, Fault, Tell, Goto, Turn, NameTurn, NextAgent, FailAgent, Elsewhere,
     KeepDisk, Held, Hold, Planned, TellOf, Removed, EndRemoval, TakeBack, config, disk, scan,
     link, result, ghosts, bounds, ScanIdentity, ScanFails, ListEntries, ListFails, MakeDir,
     MakeDirFails, Rescan, OpenDir, Retire, RetireFails, Verify, VerifyFails, Unlink,
     UnlinkFails, EndAgent, EndPass, CreateMissing, Create, CreateFails, Inspect, InspectFails
<1>t. cur \in Agents /\ (pc \in {"open", "list", "rescan", "apply"} => seen \in Gens) /\
      {"missing", "symlink"} \cap Gens = {} /\ plan \in [Names -> Plans] /\ Names # {}
      /\ at \in [Agents -> {"missing", "symlink"} \cup Gens]
  BY Typed, LinksAssumption DEF Names
<1>s. /\ touched = {} /\ changed = {} /\ pc \notin Removing /\ pc # "mkdir"
      /\ \A b \in Agents : Quiet(b)
      /\ pc = "apply" => \A m \in Names :
            plan[m] = "none" \/ (plan[m] = "create" /\ content[m] # "dir")
  BY DEF SettledInv
<1>1. ~Create(n) /\ ~Inspect(n) /\ ~InspectFails(n)
  BY <1>s DEF Create, Inspect, InspectFails, NameTurn
<1>2. UNCHANGED <<registered, on, content, touched, at, entry, changed>>
  BY <1>s, <1>1 DEF Removing, PassOf, Fault, Tell, Goto, Turn, NameTurn, NextAgent, FailAgent,
     Elsewhere, KeepDisk, Held, Hold, Planned, TellOf, Removed, EndRemoval, TakeBack, config,
     disk, scan, link, result, ghosts, bounds, ScanIdentity, ScanFails, ListEntries, ListFails,
     MakeDir, MakeDirFails, Rescan, OpenDir, Retire, RetireFails, Verify, VerifyFails, Unlink,
     UnlinkFails, EndAgent, EndPass, CreateMissing, Create, CreateFails, Inspect, InspectFails
<1>3. \A b \in Agents : Quiet(b)'
  BY <1>2, <1>s, QuietStays DEF Quiet
<1>4. pc' \notin Removing /\ pc' # "mkdir"
  <2>1. \A b \in Agents : at[b] # "missing"
    BY <1>s, <1>t DEF Quiet
  <2> QED BY <2>1, <1>s, <1>1, <1>t DEF Removing, PassOf, Fault, Tell, Goto, Turn, NameTurn,
             NextAgent, FailAgent, Elsewhere, KeepDisk, Held, Hold, Planned, TellOf, Removed,
             EndRemoval, TakeBack, config, disk, scan, link, result, ghosts, bounds,
             ScanIdentity, ScanFails, ListEntries, ListFails, MakeDir, MakeDirFails, Rescan,
             OpenDir, Retire, RetireFails, Verify, VerifyFails, Unlink, UnlinkFails, EndAgent,
             EndPass, CreateMissing, Create, CreateFails, Inspect, InspectFails
<1>5. ASSUME pc' = "apply", NEW m \in Names PROVE plan'[m] = "none" \/
             (plan'[m] = "create" /\ content[m] # "dir")
  <2>1. CASE OpenDir
    <3>1. plan' = Diff(cur, sight) /\ at[cur] = seen /\ pc = "open"
      BY <1>5, <2>1 DEF OpenDir, FailAgent, NextAgent, Goto
    <3>2. sight[m] \in {"unknown", SightOf(cur, m, entry[cur][seen][m])}
      BY <3>1, <1>s DEF ToldInv, ScannedInv
    <3>3. QuietName(cur, m) /\ at[cur] = seen
      BY <3>1, <1>s, <1>t DEF Quiet
    <3>4. CASE sight[m] = "unknown"
      BY <3>1, <3>4 DEF Diff
    <3>5. CASE sight[m] = SightOf(cur, m, entry[cur][seen][m])
      <4>1. SightIn(cur, at[cur])[m] = sight[m]
        BY <3>3, <3>5 DEF SightIn
      <4>2. Diff(cur, SightIn(cur, at[cur]))[m] = Diff(cur, sight)[m]
        BY <4>1 DEF Diff
      <4> QED BY <4>2, <3>1, <3>3 DEF QuietName
    <3> QED BY <3>2, <3>4, <3>5
  <2>2. CASE ~OpenDir
    <3>1. pc = "apply"
      BY <1>5, <2>2, <1>s DEF Removing, PassOf, Fault, Tell, Goto, Turn, NameTurn, NextAgent,
         FailAgent, Elsewhere, KeepDisk, Held, Hold, Planned, TellOf, Removed, EndRemoval,
         TakeBack, config, disk, scan, link, result, ghosts, bounds, ScanIdentity, ScanFails,
         ListEntries, ListFails, MakeDir, MakeDirFails, Rescan, OpenDir, Retire, RetireFails,
         Verify, VerifyFails, Unlink, UnlinkFails, EndAgent, EndPass, CreateMissing, Create,
         CreateFails, Inspect, InspectFails
    <3>2. plan'[m] = plan[m] \/ plan'[m] = "none"
      BY <3>1, <1>1, <1>t DEF PassOf, Fault, Tell, Goto, Turn, NameTurn, NextAgent, FailAgent,
         Elsewhere, KeepDisk, Held, Hold, Planned, TellOf, Removed, EndRemoval, TakeBack, config,
         disk, scan, link, result, ghosts, bounds, ScanIdentity, ScanFails, ListEntries,
         ListFails, MakeDir, MakeDirFails, Rescan, OpenDir, Retire, RetireFails, Verify,
         VerifyFails, Unlink, UnlinkFails, EndAgent, EndPass, CreateMissing, Create, CreateFails,
         Inspect, InspectFails
    <3> QED BY <3>1, <3>2, <1>s
  <2> QED BY <2>1, <2>2
<1> QED BY <1>2, <1>3, <1>4, <1>5, <1>s DEF SettledInv

(* Only a clean pass settles, and whatever changes unsettles.              *)
LEMMA SettledOther ==
    ASSUME TypeOK, Command \/ Return \/ Crash \/ \E a \in Agents, n \in Names : UserOf(a, n),
           SettledInv, ToldInv, ForecastInv, QuietInv
    PROVE  SettledInv'
<1>1. CASE Command
  <2>1. settled' => settled /\ UNCHANGED <<on, registered, content>>
    BY <1>1 DEF Command, Restore, Toggle, New, Rm, Begin, config, disk, scan, link, result,
       ghosts, bounds
  <2>2. UNCHANGED <<at, entry, touched, changed>> /\ pc' = "agent"
    BY <1>1 DEF Command, Restore, Toggle, New, Rm, Begin, config, disk, scan, link, result,
       ghosts, bounds
  <2>3. settled' => \A b \in Agents : Quiet(b)'
    BY <2>1, <2>2, QuietStays DEF SettledInv, Quiet
  <2> QED BY <2>1, <2>2, <2>3 DEF SettledInv, Removing
<1>2. CASE Return
  <2>1. /\ UNCHANGED <<on, registered, content, at, entry>> /\ pc' = "idle" /\ touched' = {} /\
           changed' = {}
        /\ settled' = (touched = {} /\ faults = 0)
    BY <1>2 DEF Return, Crash, Fault, Forget, Goto, config, disk
  <2>2. ASSUME settled' PROVE \A b \in Agents : Quiet(b)
    <3>1. Clean /\ todo = {}
      BY <1>2, <2>1, <2>2 DEF Clean, ToldInv, TurnInv, Return
    <3> QED BY <3>1 DEF QuietInv
  <2>3. settled' => \A b \in Agents : Quiet(b)'
    BY <2>1, <2>2, QuietStays DEF Quiet
  <2> QED BY <2>1, <2>3 DEF SettledInv, Removing
<1>3. CASE Crash \/ \E a \in Agents, n \in Names : UserOf(a, n)
  <2>1. settled' = FALSE
    BY <1>3 DEF Crash, UserOf, Meddle, Redirect, Rework, EditConfig, Edit, Touch, KeepPass,
       config, disk, scan, link, result, ghosts, bounds
  <2> QED BY <2>1 DEF SettledInv
<1> QED BY <1>1, <1>2, <1>3

--------------------------------------------------------------------------------
(* The first states.                                                       *)
LEMMA InvInit == Init => IInv
<1> SUFFICES ASSUME Init PROVE IInv
  OBVIOUS
<1>1. TypeOK
  BY InitTypes
<1>2. BaseInv
  BY <1>1, LinksAssumption DEF Init, BaseInv, RetiredInv, Removing, TheirsInv, SwapsInv,
     ListedInv, ForeignKept, ActsOnListed
<1>3. ToldInv
  BY DEF Init, ToldInv, TurnInv, AsideInv, RefusedInv, ScannedInv, PlannedInv, DoneInv, Midway,
     Applying, Removing
<1>4. ForecastInv /\ QuietInv /\ SettledInv
  BY DEF Init, ForecastInv, QuietInv, SettledInv, Clean
<1> QED BY <1>2, <1>3, <1>4 DEF IInv

(* Every step keeps the invariant, group by group.                         *)
LEMMA InvInductive == IInv /\ [Next]_vars => IInv'
<1> SUFFICES ASSUME IInv, [Next]_vars PROVE IInv'
  OBVIOUS
<1> USE DEF IInv, BaseInv
<1>1. ASSUME Next PROVE IInv'
  <2>1. CASE Command
    BY <2>1, CommandTypes, OtherSteps, ToldOther, CleanOther, SettledOther
  <2>2. CASE Return \/ Crash
    BY <2>2, ForgetTypes, OtherSteps, ToldOther, CleanOther, SettledOther
  <2>3. ASSUME NEW a \in Agents, NEW n \in Names, PassOf(a, n) PROVE IInv'
    <3>1. UNCHANGED edits /\ (swaps' = swaps \/ swaps' = 0)
      BY <2>3 DEF PassOf, Fault, Tell, Goto, Turn, NameTurn, NextAgent, FailAgent, Elsewhere,
         KeepDisk, Held, Hold, Planned, TellOf, Removed, EndRemoval, TakeBack, config, disk,
         scan, link, result, ghosts, bounds, ScanIdentity, ScanFails, ListEntries, ListFails,
         MakeDir, MakeDirFails, Rescan, OpenDir, Retire, RetireFails, Verify, VerifyFails,
         Unlink, UnlinkFails, EndAgent, EndPass, CreateMissing, Create, CreateFails, Inspect,
         InspectFails
    <3>2. SwapsInv'
      BY <3>1, Typed DEF SwapsInv
    <3>3. TypeOK' /\ RetiredInv' /\ ListedInv' /\ ActsOnListed' /\ ForeignKept' /\ TheirsInv'
      BY <2>3, PassTypes, RetiredStep, ListedStep, KeptStep
    <3>4. ToldInv' /\ ForecastInv' /\ QuietInv' /\ SettledInv'
      BY <2>3, ToldPass, CleanPass, SettledPass
    <3> QED BY <3>2, <3>3, <3>4
  <2>4. ASSUME NEW a \in Agents, NEW n \in Names, UserOf(a, n) PROVE IInv'
    BY <2>4, UserTypes, UserSteps, ToldUser, CleanOther, SettledOther
  <2> QED BY <1>1, <2>1, <2>2, <2>3, <2>4, Groups
<1>2. CASE UNCHANGED vars
  <2> USE <1>2 DEF vars, config, disk, scan, link, result, ghosts, bounds
  <2>1. TypeOK'
    BY DEF TypeOK
  <2>2. RetiredInv' /\ TheirsInv' /\ SwapsInv' /\ ListedInv'
    BY DEF RetiredInv, Removing, TheirsInv, SwapsInv, ListedInv
  <2>3. ForeignKept' /\ ActsOnListed'
    BY DEF ForeignKept, ActsOnListed
  <2>4. /\ \A a, n : DeliveryBlocked(a, n)' = DeliveryBlocked(a, n)
        /\ \A a, n : Wanted(a, n)' = Wanted(a, n) /\ Desired(a)' = Desired(a)
        /\ \A a, n : Done(a, n)' = Done(a, n)
        /\ \A n : Held(n)' = Held(n)
        /\ \A a, n, o : SightOf(a, n, o)' = SightOf(a, n, o)
    BY DEF DeliveryBlocked, Wanted, Desired, Done, Held, SightOf
  <2>5. TurnInv' /\ AsideInv' /\ RefusedInv'
    BY DEF ToldInv, TurnInv, AsideInv, RefusedInv, InvalidReports, AlreadyReportedAsReserved,
       Midway, Applying, Removing
  <2>6. ScannedInv'
    BY DEF ToldInv, ScannedInv, SightOf
  <2>7. PlannedInv' /\ DoneInv'
    BY <2>4 DEF ToldInv, PlannedInv, DoneInv
  <2>8. /\ \A a \in Agents : Overview(a)' = Overview(a) /\ Quiet(a)' = Quiet(a)
        /\ \A a \in Agents, n \in Names : QuietName(a, n)' = QuietName(a, n)
    <3>1. \A a \in Agents : Overview(a)' = Overview(a)
      BY OverviewStays
    <3>2. \A a \in Agents, n \in Names : QuietName(a, n)' = QuietName(a, n)
      BY QuietStays
    <3> QED BY <3>1, <3>2 DEF Quiet
  <2>9. /\ \A a, n : CameTrue(a, n)' = CameTrue(a, n) /\ Unbegun(a, n)' = Unbegun(a, n)
        /\ \A n : HalfTrue(n)' = HalfTrue(n)
        /\ SightIn(cur, seen)' = SightIn(cur, seen) /\ Clean' = Clean
    BY DEF CameTrue, Unbegun, HalfTrue, Untold, Clean, SightIn, SightOf
  <2>10. ForecastInv'
    <3>1. \A a \in todo : StillSaid(a)' = StillSaid(a)
      BY <2>8, <2>9, Typed DEF StillSaid
    <3> QED BY <2>4, <2>9, <3>1 DEF ForecastInv
  <2>11. QuietInv' /\ SettledInv'
    BY <2>8, <2>9, Typed DEF QuietInv, SettledInv, Removing, Applying
  <2> QED BY <2>1, <2>2, <2>3, <2>5, <2>6, <2>7, <2>10, <2>11 DEF ToldInv
<1> QED BY <1>1, <1>2

(* The invariant holds in every reachable state.                           *)
LEMMA InvAlways == Spec => []IInv
<1> QED BY InvInit, InvInductive, PTL DEF Spec

(* Every variable keeps its type (a step of a pass relies on RetiredInv:   *)
(* what is put back was an object before).                                 *)
THEOREM LinksTypes == Spec => []TypeOK
<1>1. IInv => TypeOK
  BY DEF IInv, BaseInv
<1> QED BY InvAlways, <1>1, PTL

(* Whatever is swapped in between the system calls of a pass, and wherever *)
(* it dies: retire.go moves and removes nothing of a user's for good.      *)
THEOREM ForeignStays == Spec => []ForeignKept
<1>1. IInv => ForeignKept
  BY DEF IInv, BaseInv
<1> QED BY InvAlways, <1>1, PTL

(* A plan is carried out in the directory it was made from, however often  *)
(* users replace directories: OpenCheckedDir needs two to be deceived.     *)
THEOREM PlansFit == Spec => []ActsOnListed
<1>1. IInv => ActsOnListed
  BY DEF IInv, BaseInv
<1> QED BY InvAlways, <1>1, PTL

(* A command that ran to its end left every undisturbed name as fu.yaml    *)
(* says, or told why not.                                                  *)
THEOREM NothingUntold == Spec => []ToldOrDone
<1>1. IInv => ToldOrDone
  BY ToldEnough DEF IInv, BaseInv
<1> QED BY InvAlways, <1>1, PTL

(* A second pass over what an undisturbed one left changes no link.        *)
THEOREM SecondPassQuiet == Spec => []SecondPassIdle
<1>1. IInv => SecondPassIdle
  BY DEF IInv, SettledInv, SecondPassIdle
<1> QED BY InvAlways, <1>1, PTL

(* What fu agent and fu status said as an undisturbed pass began is what   *)
(* it did.                                                                 *)
THEOREM ForecastsHold == Spec => []Foretold
<1>1. ASSUME IInv PROVE Foretold
  <2> SUFFICES ASSUME pc = "end", touched = {}, faults = 0, NEW a \in Agents, NEW n \in Names
               PROVE  CameTrue(a, n)
    BY DEF Foretold, CameTrue, Untold, InTheWay
  <2>1. Clean /\ todo = {}
    BY <1>1 DEF IInv, ToldInv, TurnInv, Clean
  <2> QED BY <1>1, <2>1 DEF IInv, ForecastInv
<1> QED BY InvAlways, <1>1, PTL
=============================================================================
