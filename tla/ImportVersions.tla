--------------------------- MODULE ImportVersions ---------------------------
(***************************************************************************)
(* Which provider serves an import: the ImportResolver of                  *)
(* runtime/src/embedder/version.ts.  The keys of the embedder's record are *)
(* registered one by one, in the order of the record; then the imports are *)
(* resolved.  A key is an interface (its base) with a version, which is    *)
(* absent, a semantic version, the name of a compatibility track, "@0",    *)
(* or something else.                                                      *)
(***************************************************************************)
EXTENDS Integers, Sequences, FiniteSets

CONSTANTS Keys,        \* interface ids that may be registered or imported
          MaxKeys      \* bound: keys of one record

ASSUME VersionsAssumption == MaxKeys \in Nat

NoKey == "none"

\* ver: [form: "none" | "zero" | "other"],
\*      [form: "track", track: a track],
\*      [form: "semver", num: <<major, minor, patch>>, pre, build].
\* A track key is spelled as its base and its track.
ASSUME KeysAssumption ==
    \A key \in Keys :
        /\ key.ver.form = "semver" => key.ver.num \in [1..3 -> Nat]
        /\ key.ver.form = "track" =>
              \A other \in Keys :
                 other.ver.form = "track" /\ other.base = key.base
                    /\ other.ver.track = key.ver.track => other = key

Full(id) == id.ver.form = "semver"

\* trackKeyOf: the major version, or the minor one of major 0; prereleases and
\* 0.0.z are compatible with nothing but themselves.
Track(id) ==
    LET n == id.ver.num
    IN  IF id.ver.pre # <<>> THEN <<>>
        ELSE IF n[1] > 0 THEN <<n[1]>>
        ELSE IF n[2] > 0 THEN <<0, n[2]>> ELSE <<>>

\* compareSemver, of releases: build metadata does not count.
Above(v, w) ==
    \E i \in 1..3 : v.num[i] > w.num[i] /\ \A j \in 1..(i - 1) : v.num[j] = w.num[j]

VARIABLES record,       \* the keys, in the order of the embedder's record
          registered,   \* how many of them the resolver has taken
          tracks,       \* <<base, track>> -> the key that claims the track
          unversioned,  \* base -> its unversioned key
          outcome       \* registering, refused, ready

versionVars == <<record, registered, tracks, unversioned, outcome>>

Records == UNION {{r \in [1..n -> Keys] : \A i, j \in 1..n : r[i] = r[j] => i = j} :
                     n \in 0..MaxKeys}

VersionInit ==
    /\ record \in Records
    /\ registered = 0 /\ outcome = "registering"
    /\ tracks = [t \in {} |-> NoKey] /\ unversioned = [b \in {} |-> NoKey]

With(f, x, y) == [z \in DOMAIN f \cup {x} |-> IF z = x THEN y ELSE f[z]]

Claims(key) == IF key.ver.form = "track" THEN <<key.base, key.ver.track>>
               ELSE <<key.base, Track(key)>>
ClaimsOne(key) == key.ver.form = "track" \/ (Full(key) /\ Track(key) # <<>>)

\* A track key beside a full version of its track, or "@0".
Refused(key) ==
    \/ key.ver.form = "zero"
    \/ /\ ClaimsOne(key) /\ Claims(key) \in DOMAIN tracks
       /\ (key.ver.form = "track") # (tracks[Claims(key)].ver.form = "track")

\* Slip: the first key registered keeps the track.
Claimed_first(key) ==
    IF Claims(key) \in DOMAIN tracks THEN tracks ELSE With(tracks, Claims(key), key)

\* #claim: the highest version takes the track.
Claimed(key) ==
    LET t == Claims(key)
    IN  IF t \notin DOMAIN tracks \/ Above(key.ver, tracks[t].ver)
        THEN With(tracks, t, key) ELSE tracks

\* The constructor's loop.
Register ==
    /\ outcome = "registering" /\ registered < Len(record)
    /\ LET key == record[registered + 1]
       IN  IF Refused(key)
           THEN outcome' = "refused" /\ UNCHANGED <<registered, tracks, unversioned>>
           ELSE /\ registered' = registered + 1
                /\ tracks' = IF ClaimsOne(key) THEN Claimed(key) ELSE tracks
                /\ unversioned' = IF key.ver.form = "none" THEN With(unversioned, key.base, key)
                                  ELSE unversioned
                /\ UNCHANGED outcome
    /\ UNCHANGED record

Registered == /\ outcome = "registering" /\ registered = Len(record)
              /\ outcome' = "ready"
              /\ UNCHANGED <<record, registered, tracks, unversioned>>

VersionNext == Register \/ Registered
VersionSpec == VersionInit /\ [][VersionNext]_versionVars

Exact == {record[i] : i \in DOMAIN record}

\* resolve: a key, "error" for a registration that nearly matches, or NoKey.
Resolve(id) ==
    IF id \in Exact THEN id
    ELSE IF Full(id)
    THEN IF Track(id) # <<>> /\ <<id.base, Track(id)>> \in DOMAIN tracks
         THEN tracks[<<id.base, Track(id)>>]
         ELSE IF id.base \in DOMAIN unversioned THEN [base |-> "error"] ELSE [base |-> NoKey]
    ELSE IF id.ver.form = "none" /\ \E key \in Exact : key.base = id.base
    THEN [base |-> "error"]
    ELSE [base |-> NoKey]

(* -- properties ------------------------------------------------------------- *)

\* The keys of the whole record that are on a track, in no order.
OnTrack(base, track) ==
    {key \in Exact : ClaimsOne(key) /\ Claims(key) = <<base, track>>}

Ambiguous ==
    \/ \E key \in Exact : key.ver.form = "zero"
    \/ \E key, other \in Exact : /\ ClaimsOne(key) /\ ClaimsOne(other)
                                 /\ Claims(key) = Claims(other)
                                 /\ key.ver.form = "track" /\ other.ver.form # "track"

\* Whatever the order of the record: it is refused exactly if it is
\* ambiguous, and an import is served by the very key, or else by a highest
\* version of its track or the track's key, and never by an unversioned key or
\* by a prerelease (version.ts:159-291).
OrderIsImmaterial ==
    /\ outcome = "refused" => Ambiguous
    /\ outcome = "ready" =>
        /\ ~Ambiguous
        /\ \A id \in Keys :
            LET found == Resolve(id)
                serving == IF Full(id) /\ Track(id) # <<>> THEN OnTrack(id.base, Track(id)) ELSE {}
            IN  IF id \in Exact THEN found = id
                ELSE IF serving = {} THEN found.base \in {"error", NoKey}
                ELSE found \in serving /\ \A key \in serving :
                        key.ver.form = "track" \/ ~Above(key.ver, found.ver)
=============================================================================
