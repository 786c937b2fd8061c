----------------------------- MODULE BanManager -----------------------------
(***************************************************************************)
(* Automatic bans: banManager in internal/engine/ban.go.  Refused logins   *)
(* leave a trail per client address, enough of them within a window ban    *)
(* it; the never-ban list, the admin API, expiry and a full table end      *)
(* bans.  A saver goroutine, asked through a channel that holds one        *)
(* request, writes the bans to bans.json; a shutdown writes them once      *)
(* more, and a start reads them back.                                      *)
(*                                                                         *)
(* A step is one section under b.mu, one channel operation or one file     *)
(* operation.  The process may crash between any two.                      *)
(***************************************************************************)
EXTENDS Integers, Sequences, FiniteSets, SequencesExt

CONSTANTS
  Ip,          \* client addresses
  Request,     \* concurrent requests that are refused
  Threshold,   \* banConfig.threshold
  Window,      \* banConfig.window, in ticks
  BanFor,      \* banConfig.banFor
  GcAfter,     \* the age at which gc drops a trail: one hour
  MaxTracked,  \* banMaxTracked
  MaxTime,     \* bound: how long a behaviour is looked at
  MaxStarts,   \* bound: how often the process starts
  Exempts,     \* the never-ban lists an administrator may set
  Persist      \* bans are kept in a file (persistTo was called)

ASSUME BanAssumption ==
  /\ Threshold \in Nat \ {0}
  /\ {Window, BanFor, GcAfter, MaxTracked} \subseteq Nat \ {0}
  /\ {MaxTime, MaxStarts} \subseteq Nat
  /\ Ip # {} /\ IsFiniteSet(Ip)
  /\ Exempts \subseteq SUBSET Ip
  /\ Persist \in BOOLEAN

VARIABLES
  now,        \* the clock
  exempt,     \* the never-ban list in force
  stage,      \* each request: "idle", or "noted": past the checks before b.mu
  client,     \* its client address
  noted,      \* the time it noted
  trail,      \* b.failures: times of refusals, << >> when there is no entry
  banned,     \* b.banned: until when, NotBanned when there is no entry
  lift,       \* addresses found exempt, to be unbanned
  proc,       \* "up", "closing", "final", "closed" (saved for the last time) or "down"
  due,        \* b.saveCh holds a request
  saver,      \* the saver: "wait", "save", "write" or "ended"
  snapshot,   \* the bans a save has collected
  file,       \* bans.json
  saveFailed, \* the last write failed
  starts,     \* starts of the process so far
  \* history
  hist,       \* refusals since the address was last banned, lifted or evicted
  unearned    \* some ban rested on fewer than Threshold refusals in the window

NotBanned == 0
NoClient == CHOOSE ip \in Ip : TRUE  \* of an idle request: whichever
Time == 0..MaxTime
NoBans == [ip \in Ip |-> NotBanned]

clockVars == <<now, exempt>>
requestVars == <<stage, client, noted>>
tableVars == <<trail, banned, hist, unearned>>
saveVars == <<proc, due, saver, snapshot, file, saveFailed, starts>>
banVars == <<clockVars, requestVars, tableVars, lift, saveVars>>

InForce(bans) == [ip \in Ip |-> IF bans[ip] > now THEN bans[ip] ELSE NotBanned]
Entries(bans) == {ip \in Ip : bans[ip] # NotBanned}
Trails == {ip \in Ip : trail[ip] # << >>}
Running == proc # "down"

\* The times of s after cutoff, collected one by one, and how many there are.
After(s, cutoff) ==
  LET kept[i \in 0..Len(s)] ==
        IF i = 0 THEN << >>
        ELSE IF s[i] > cutoff THEN Append(kept[i-1], s[i])
        ELSE kept[i-1]
  IN kept[Len(s)]
CountAfter(s, cutoff) == Len(After(s, cutoff))

\* changed(): ask the saver, unless a request is waiting or it was closed.
Changed_IfIdle(d) == d \/ (Persist /\ proc = "up" /\ saver = "wait")
Changed(d) == d \/ (Persist /\ proc = "up")

BanInit ==
  /\ now = 1
  /\ exempt = {}
  /\ stage = [r \in Request |-> "idle"]
  /\ client = [r \in Request |-> NoClient]
  /\ noted = [r \in Request |-> 0]
  /\ trail = [ip \in Ip |-> << >>]
  /\ banned = NoBans
  /\ lift = {}
  /\ proc = "up"
  /\ due = FALSE
  /\ saver = "wait"
  /\ snapshot = banned
  /\ file = banned
  /\ saveFailed = FALSE
  /\ starts = 1
  /\ hist = trail
  /\ unearned = FALSE

Tick ==
  /\ now < MaxTime
  /\ now' = now + 1
  /\ UNCHANGED <<exempt, requestVars, tableVars, lift, saveVars>>

-----------------------------------------------------------------------------
(* Refused requests: recordFailure.                                        *)

\* The configuration and the clock are read before the lock is taken.
Note(r, ip) ==
  /\ Running
  /\ stage[r] = "idle"
  /\ ip \notin exempt
  /\ stage' = [stage EXCEPT ![r] = "noted"]
  /\ client' = [client EXCEPT ![r] = ip]
  /\ noted' = [noted EXCEPT ![r] = now]
  /\ UNCHANGED <<clockVars, tableVars, lift, saveVars>>

\* evictOne: a new entry in a full table takes the place of an arbitrary one.
Victims(entries, ip) ==
  IF ip \notin entries /\ Cardinality(entries) >= MaxTracked
    THEN {{v} : v \in entries}
    ELSE {{}}

\* The refusals that are still in the window at t, and whether they ban.
Kept_All(s, t) == s
Kept(s, t) == After(s, t - Window)

Full(s) == Len(s) >= Threshold

Without(f, out, none) == [ip \in Ip |-> IF ip \in out THEN none ELSE f[ip]]

\* Under the lock: refusals outside the window go, the new one is added, and
\* a full window bans the address.
Record(r) ==
  LET ip == client[r]
      t == noted[r]
      times == Append(Kept(trail[ip], t), t)
      seen == Append(hist[ip], t)
  IN /\ Running
     /\ stage[r] = "noted"
     /\ \E out \in Victims(Trails, ip) :
          /\ trail' = [Without(trail, out, << >>) EXCEPT ![ip] = IF Full(times) THEN << >> ELSE times]
          /\ hist' = [Without(hist, out, << >>) EXCEPT ![ip] = IF Full(times) THEN << >> ELSE seen]
     /\ IF Full(times)
          THEN /\ \E out \in Victims(Entries(banned), ip) :
                    banned' = [Without(banned, out, NotBanned) EXCEPT ![ip] = t + BanFor]
               /\ unearned' = (unearned \/ CountAfter(seen, t - Window) < Threshold)
               /\ due' = Changed(due)
          ELSE UNCHANGED <<banned, unearned, due>>
     /\ stage' = [stage EXCEPT ![r] = "idle"]
     /\ noted' = [noted EXCEPT ![r] = 0]
     /\ client' = [client EXCEPT ![r] = NoClient]
     /\ UNCHANGED <<clockVars, lift>>
     /\ UNCHANGED <<proc, saver, snapshot, file, saveFailed, starts>>

-----------------------------------------------------------------------------
(* The ends of bans.                                                       *)

\* unban: the ban and the trail go.
Unban(ip) ==
  /\ banned' = [banned EXCEPT ![ip] = NotBanned]
  /\ trail' = [trail EXCEPT ![ip] = << >>]
  /\ hist' = [hist EXCEPT ![ip] = << >>]
  /\ due' = IF banned[ip] # NotBanned THEN Changed(due) ELSE due
  /\ UNCHANGED <<clockVars, requestVars, unearned>>
  /\ UNCHANGED <<proc, saver, snapshot, file, saveFailed, starts>>

\* The admin API's Unban; it answers until the process is down.
AdminUnban(ip) ==
  /\ Running
  /\ banned[ip] # NotBanned
  /\ Unban(ip)
  /\ UNCHANGED lift

\* A Reload stores the new never-ban list, and liftExempt collects the bans
\* to lift; they are lifted one by one after the lock is given back.
SetExempt(list) ==
  /\ Running
  /\ list # exempt
  /\ exempt' = list
  /\ lift' = lift \cup (Entries(banned) \cap list)
  /\ UNCHANGED <<now, requestVars, tableVars, saveVars>>

\* blocked finds that a banned client is on the list: it is let in, and its
\* ban lifted.
BlockedExempt(ip) ==
  /\ Running
  /\ banned[ip] >= now
  /\ ip \in exempt
  /\ ip \notin lift
  /\ lift' = lift \cup {ip}
  /\ UNCHANGED <<clockVars, requestVars, tableVars, saveVars>>

LiftOne(ip) ==
  /\ Running
  /\ ip \in lift
  /\ lift' = lift \ {ip}
  /\ Unban(ip)

\* blocked or gc drops a ban that is over, without asking for a save.
Expire(ip) ==
  /\ Running
  /\ banned[ip] # NotBanned
  /\ now > banned[ip]
  /\ banned' = [banned EXCEPT ![ip] = NotBanned]
  /\ UNCHANGED <<clockVars, requestVars, trail, hist, unearned, lift, saveVars>>

\* gc drops a trail whose last refusal is old.
GcTrail(ip) ==
  /\ Running
  /\ trail[ip] # << >>
  /\ now - Last(trail[ip]) > GcAfter
  /\ trail' = [trail EXCEPT ![ip] = << >>]
  /\ UNCHANGED <<clockVars, requestVars, banned, hist, unearned, lift, saveVars>>

-----------------------------------------------------------------------------
(* Saving.                                                                 *)

\* The saver takes the request from the channel, then save collects the bans
\* in force under b.mu, and writes them to a new file that replaces the old.
SaverTake ==
  /\ Running
  /\ saver = "wait"
  /\ due
  /\ due' = FALSE
  /\ saver' = "save"
  /\ UNCHANGED <<clockVars, requestVars, tableVars, lift>>
  /\ UNCHANGED <<proc, snapshot, file, saveFailed, starts>>

SaverCollect ==
  /\ saver = "save"
  /\ snapshot' = InForce(banned)
  /\ saver' = "write"
  /\ UNCHANGED <<clockVars, requestVars, tableVars, lift>>
  /\ UNCHANGED <<proc, due, file, saveFailed, starts>>

SaverWrite(ok) ==
  /\ saver = "write"
  /\ file' = IF ok THEN snapshot ELSE file
  /\ saveFailed' = ~ok
  /\ saver' = "wait"
  /\ snapshot' = NoBans
  /\ UNCHANGED <<clockVars, requestVars, tableVars, lift>>
  /\ UNCHANGED <<proc, due, starts>>

\* closePersist: the channel is closed, the saver finishes what it holds and
\* ends, and the bans are saved once more.
ClosePersist ==
  /\ Persist
  /\ proc = "up"
  /\ proc' = "closing"
  /\ UNCHANGED <<clockVars, requestVars, tableVars, lift>>
  /\ UNCHANGED <<due, saver, snapshot, file, saveFailed, starts>>

FinalCollect ==
  /\ proc = "closing"
  /\ saver = "wait"
  /\ ~due
  /\ saver' = "ended"
  /\ snapshot' = InForce(banned)
  /\ proc' = "final"
  /\ UNCHANGED <<clockVars, requestVars, tableVars, lift>>
  /\ UNCHANGED <<due, file, saveFailed, starts>>

FinalWrite(ok) ==
  /\ proc = "final"
  /\ file' = IF ok THEN snapshot ELSE file
  /\ saveFailed' = ~ok
  /\ proc' = "closed"
  /\ snapshot' = NoBans
  /\ UNCHANGED <<clockVars, requestVars, tableVars, lift>>
  /\ UNCHANGED <<due, saver, starts>>

-----------------------------------------------------------------------------
(* The process ends, in order or by a crash, and starts again.             *)

Down ==
  /\ Running
  /\ proc' = "down"
  /\ stage' = [r \in Request |-> "idle"]
  /\ trail' = [ip \in Ip |-> << >>]
  /\ hist' = [ip \in Ip |-> << >>]
  /\ banned' = NoBans
  /\ lift' = {}
  /\ due' = FALSE
  /\ saver' = "ended"
  /\ noted' = [r \in Request |-> 0]
  /\ client' = [r \in Request |-> NoClient]
  /\ snapshot' = NoBans
  /\ UNCHANGED <<clockVars, unearned, file, saveFailed, starts>>

\* load takes the saved bans that have not expired; the first Reload lifts
\* those on the never-ban list.
Loaded == InForce(file)

Start ==
  /\ proc = "down"
  /\ starts < MaxStarts
  /\ starts' = starts + 1
  /\ banned' = Loaded
  /\ lift' = Entries(Loaded) \cap exempt
  /\ proc' = "up"
  /\ saver' = "wait"
  /\ saveFailed' = FALSE
  /\ UNCHANGED <<clockVars, requestVars, trail, hist, unearned, due, snapshot, file>>

BanNext ==
  \/ Tick
  \/ \E r \in Request : Record(r) \/ \E ip \in Ip : Note(r, ip)
  \/ \E ip \in Ip : \/ AdminUnban(ip)
                    \/ BlockedExempt(ip)
                    \/ LiftOne(ip)
                    \/ Expire(ip)
                    \/ GcTrail(ip)
  \/ \E list \in Exempts : SetExempt(list)
  \/ SaverTake
  \/ SaverCollect
  \/ \E ok \in BOOLEAN : SaverWrite(ok) \/ FinalWrite(ok)
  \/ ClosePersist
  \/ FinalCollect
  \/ Down
  \/ Start

BanSpec == BanInit /\ [][BanNext]_banVars

-----------------------------------------------------------------------------
(* Properties.                                                             *)

(* Every variable has its type; a trail is always short of a ban, as       *)
(* recordFailure drops it when it bans, and both tables stay within        *)
(* banMaxTracked, whatever is recorded, lifted or loaded from disk.        *)
BanTypeOK ==
  /\ now \in Time
  /\ exempt \subseteq Ip
  /\ stage \in [Request -> {"idle", "noted"}]
  /\ client \in [Request -> Ip]
  /\ noted \in [Request -> Time]
  /\ \A ip \in Ip : /\ Len(trail[ip]) < Threshold
                    /\ \A i \in DOMAIN trail[ip] : trail[ip][i] \in Time
  /\ banned \in [Ip -> 0..(MaxTime + BanFor)]
  /\ lift \subseteq Ip
  /\ proc \in {"up", "closing", "final", "closed", "down"}
  /\ due \in BOOLEAN
  /\ saver \in {"wait", "save", "write", "ended"}
  /\ snapshot \in [Ip -> 0..(MaxTime + BanFor)]
  /\ file \in [Ip -> 0..(MaxTime + BanFor)]
  /\ saveFailed \in BOOLEAN
  /\ starts \in 1..MaxStarts
  /\ Cardinality(Entries(banned)) <= MaxTracked
  /\ Cardinality(Trails) <= MaxTracked

(* A ban rests on Threshold refusals of that address within the window     *)
(* that ends with the last of them.                                        *)
BanIsEarned ==
  ~unearned

(* "after N auth failures within a window, an IP is blocked" (banManager): *)
(* no address has Threshold refusals in the window since it was last       *)
(* banned, lifted or evicted, without having been banned for them.         *)
ThresholdBans ==
  \A ip \in Ip : CountAfter(hist[ip], now - Window) < Threshold

(* An address is banned exactly for Threshold refusals within one window:  *)
(* recordFailure bans for nothing less, and misses none.                   *)
BansExact == BanIsEarned /\ ThresholdBans

(* When the saver has nothing to do and its last write succeeded, the file *)
(* holds exactly the bans in force: a change made while a save was under   *)
(* way has asked for another one ("a save is already due and will include  *)
(* this change").                                                          *)
SaverUpToDate ==
  (proc = "up" /\ saver = "wait" /\ ~due /\ ~saveFailed)
    => InForce(file) = InForce(banned)

(* "so the list of bans does not show addresses that are let in anyway"    *)
(* (liftExempt): once the lifts of a reload are done, no address of the    *)
(* never-ban list is banned.                                               *)
NoExemptBanned ==
  (Running /\ lift = {}) => Entries(InForce(banned)) \cap exempt = {}

(* bans.json is "written whenever a ban starts or is lifted and at         *)
(* shutdown": the file an orderly shutdown leaves holds the bans in force. *)
FileFollowsShutdown ==
  (proc = "closed" /\ ~saveFailed) => InForce(file) = InForce(banned)

=============================================================================
