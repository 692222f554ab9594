---------------------------- MODULE UuidsStorage ----------------------------
(***************************************************************************)
(* The uuids of usernames in Redis (src/db/redis/redis.go), one command at *)
(* a time: GetUuid reads an entry and removes it with a second command if  *)
(* it is too old or has no timestamp, StoreUuid writes one. The clients    *)
(* are goroutines of any number of processes. Any command may fail, before *)
(* or after Redis has executed it. Instead of timestamps the model keeps   *)
(* ages.                                                                   *)
(***************************************************************************)
EXTENDS Naturals

CONSTANTS Clients, Usernames,
          Uuids,      \* the empty uuid, of an account that does not exist, included
          Absent,     \* no entry
          Failed,     \* an error of a command
          Unexpected, \* the error about an entry that has no timestamp
          Limit       \* 30 days

VARIABLES hash,   \* hash:mojang-username-to-uuid
          get,    \* the GetUuid of each client: its next command and its username
          answer  \* what it returned

vars == << hash, get, answer >>

\* Values of the hash, those older versions wrote without a timestamp included.
Entry == [uuid : Uuids, age : 0..(Limit + 1)]
Untimed == [uuid |-> Absent, age |-> 0]
NoEntry == [uuid |-> Failed, age |-> 0]

Idle == [at |-> "idle", username |-> Absent]

\* The types of the variables.
TypeOK ==
  /\ hash \in [Usernames -> Entry \cup {Untimed, NoEntry}]
  /\ get \in [Clients -> [at : {"hget", "hdel", "hdelUntimed"}, username : Usernames] \cup {Idle}]
  /\ answer \in [Clients -> Uuids \cup {Absent, Failed, Unexpected}]

Init ==
  /\ hash \in [Usernames -> {Untimed, NoEntry}]
  /\ get = [c \in Clients |-> Idle]
  /\ answer = [c \in Clients |-> Absent]

\* Mutant of TooOld: an entry is kept for a moment too long.
TooOldLater(entry) == entry.age > Limit + 1

\* storedAt.Add(time.Hour * 24 * 30).Before(now())
TooOld(entry) == entry.age > Limit

Return(c, x) == /\ get' = [get EXCEPT ![c] = Idle]
                /\ answer' = [answer EXCEPT ![c] = x]

\* findMojangUuidByUsername begins.
GetUuid(c, u) ==
  /\ get[c].at = "idle"
  /\ get' = [get EXCEPT ![c] = [at |-> "hget", username |-> u]]
  /\ UNCHANGED << hash, answer >>

Then(c, l) == /\ get' = [get EXCEPT ![c].at = l]
              /\ UNCHANGED answer

\* Mutant of Read: the error about the entry is returned before it is removed.
ReadReportingFirst(c) ==
  LET entry == hash[get[c].username]
  IN  \/ entry = NoEntry /\ Return(c, Absent)
      \/ entry = Untimed /\ Return(c, Unexpected)
      \/ entry.uuid \in Uuids /\ TooOld(entry) /\ Then(c, "hdel")
      \/ entry.uuid \in Uuids /\ ~TooOld(entry) /\ Return(c, entry.uuid)

\* What becomes of the value that HGET returned.
Read(c) ==
  LET entry == hash[get[c].username]
  IN  \/ entry = NoEntry /\ Return(c, Absent)
      \/ entry = Untimed /\ Then(c, "hdelUntimed")
      \/ entry.uuid \in Uuids /\ TooOld(entry) /\ Then(c, "hdel")
      \/ entry.uuid \in Uuids /\ ~TooOld(entry) /\ Return(c, entry.uuid)

\* HGET
HGet(c) ==
  /\ get[c].at = "hget"
  /\ Read(c) \/ Return(c, Failed)
  /\ UNCHANGED hash

\* HDEL, whatever the entry is by now, and what GetUuid returns then.
HDel(c) ==
  /\ get[c].at \in {"hdel", "hdelUntimed"}
  /\ LET removed == [hash EXCEPT ![get[c].username] = NoEntry]
     IN  \/ /\ hash' = removed
            /\ Return(c, IF get[c].at = "hdel" THEN Absent ELSE Unexpected)
         \/ /\ hash' \in {hash, removed}
            /\ Return(c, Failed)

\* StoreUuid: HSET. If it fails without effect nothing happens.
StoreUuid(u, x) ==
  /\ hash' = [hash EXCEPT ![u] = [uuid |-> x, age |-> 0]]
  /\ UNCHANGED << get, answer >>

Older(entry) == IF entry.uuid \in Uuids /\ entry.age <= Limit THEN [entry EXCEPT !.age = @ + 1]
                ELSE entry

\* A unit of time passes.
Time ==
  /\ hash' = [u \in Usernames |-> Older(hash[u])]
  /\ UNCHANGED << get, answer >>

CallNext == \/ \E c \in Clients : (\E u \in Usernames : GetUuid(c, u)) \/ HGet(c) \/ HDel(c)
            \/ \E u \in Usernames, x \in Uuids : StoreUuid(u, x)

Next == CallNext \/ Time

Spec == Init /\ [][Next]_vars

-----------------------------------------------------------------------------
(* Properties *)

\* What the cache remembers: entries with a timestamp that is not too old.
Remembered(entry) == IF entry.uuid \in Uuids /\ entry.age <= Limit THEN entry.uuid ELSE Absent

Cache == INSTANCE UuidsCache WITH
  cache  <- [u \in Usernames |-> Remembered(hash[u])],
  asked  <- [c \in Clients |-> get[c].username],
  answer <- [c \in Clients |-> IF answer[c] = Unexpected THEN Failed ELSE answer[c]]

\* The storage is such a cache: no reader is told a uuid that is too old,
\* and the HDEL of a slow reader that hits an entry stored
\* meanwhile does nothing worse than to forget it.
UuidsCacheSpec == Cache!Spec

\* https://github.com/elyby/chrly/issues/28: an entry without a timestamp is
\* reported after it was removed, so that the next call is not told the same
\* over and over again.
ReportedIsRemoved ==
  [][\A c \in Clients : answer'[c] = Unexpected /\ get[c].at # "idle" /\ get'[c].at = "idle"
                          => hash'[get[c].username] # Untimed]_vars

=============================================================================
