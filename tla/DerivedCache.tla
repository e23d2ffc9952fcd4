---------------------------- MODULE DerivedCache -----------------------------
(***************************************************************************)
(* The store of derived data (crates/storage/src/synthetic.rs) and its two *)
(* writers (crates/ingest/src/features.rs and recon.rs).  Every entry is   *)
(* tagged with the lineage of the bars it was computed from.  A pass that  *)
(* caches feature vectors commits one transaction per bar and may stop     *)
(* half-way; reconstructed bars are written in one.  Evicting stale        *)
(* entries is two transactions, a scan and the deletes.                    *)
(*                                                                         *)
(* The second part is the encoding of the keys and of the cached values    *)
(* (crates/storage/src/key.rs): LMDB orders keys byte by byte and scans by *)
(* prefix, so what both stores promise about series rests on it.  Bytes    *)
(* are 0 .. Base - 1, a time is two bytes wide and a length one.           *)
(***************************************************************************)
EXTENDS Integers, Sequences, FiniteSets, SequencesExt

CONSTANTS
  Lineages,     \* states of the source bars
  Covers,       \* Covers[l]: the bar times with a complete vector under l
  Catalogues,   \* feature catalogues: records of lookback, shape (states and width) and id
  NoEntry,
  MaxPasses     \* bound: caching passes

\* Bar times are whole milliseconds; absence is neither an entry nor a lineage.
ASSUME DerivedAssumption ==
  /\ NoEntry \notin [lineage : Lineages, cfg : Catalogues] /\ NoEntry \notin Lineages
  /\ Covers \in [Lineages -> SUBSET Int]

VARIABLES
  feats,    \* feats[k]: the cached vector under <<lookback, time>>
  tiers,    \* tiers[t]: the lineage of the reconstructed bar at t
  pass,     \* the caching pass under way: lineage, catalogue and times left
  evict,    \* the eviction under way: lineage and the keys it will delete
  passes,
  raced,    \* history: keys written since the last eviction's scan
  lost      \* history: keys of the current lineage an eviction deleted, not so written

derivedVars == <<feats, tiers, pass, evict, passes, raced, lost>>

BarTimes == UNION {Covers[l] : l \in Lineages}
FeatureKeys == {c.lookback : c \in Catalogues} \X BarTimes
Resting == [lineage |-> NoEntry, left |-> {}]

DerivedInit ==
  /\ feats = [k \in FeatureKeys |-> NoEntry] /\ tiers = [t \in BarTimes |-> NoEntry]
  /\ pass = Resting /\ evict = Resting /\ passes = 0
  /\ raced = {} /\ lost = {}

\* assemble_and_cache_features: the complete vectors, one after another.
StartFeatures(l, c) ==
  /\ pass = Resting /\ passes < MaxPasses
  /\ pass' = [lineage |-> l, cfg |-> c, left |-> Covers[l]]
  /\ passes' = passes + 1
  /\ UNCHANGED <<feats, tiers, evict, raced, lost>>

\* put_indicator_state: one transaction.
PutIndicatorState(k, e) == feats' = [feats EXCEPT ![k] = e]

Earliest(t, S) == t \in S /\ \A u \in S : t <= u

PutNext ==
  /\ pass # Resting
  /\ \E t \in pass.left :
       LET k == <<pass.cfg.lookback, t>>
       IN  /\ Earliest(t, pass.left)
           /\ PutIndicatorState(k, [lineage |-> pass.lineage, cfg |-> pass.cfg])
           /\ pass' = [pass EXCEPT !.left = @ \ {t}]
           /\ raced' = raced \union {k}
  /\ UNCHANGED <<tiers, evict, passes, lost>>

\* A pass ends, having written everything or stopped by an error.
EndPass ==
  /\ pass # Resting
  /\ pass' = Resting
  /\ UNCHANGED <<feats, tiers, evict, passes, raced, lost>>

\* cache_reconstructed_tiers and put_recon_bars: one transaction.
CacheTiers(l) ==
  /\ passes < MaxPasses
  /\ tiers' = [t \in BarTimes |-> IF t \in Covers[l] THEN l ELSE tiers[t]]
  /\ passes' = passes + 1
  /\ UNCHANGED <<feats, pass, evict, raced, lost>>

\* invalidate_stale_indicators: the scan in a read transaction ...
ScanStale(l) ==
  /\ evict = Resting
  /\ evict' = [lineage |-> l, left |-> {k \in FeatureKeys : feats[k] # NoEntry /\ feats[k].lineage # l}]
  /\ raced' = {}
  /\ UNCHANGED <<feats, tiers, pass, passes, lost>>

\* ... and the deletes in a write transaction, by key alone.
DeleteStale ==
  /\ evict # Resting
  /\ feats' = [k \in FeatureKeys |-> IF k \in evict.left THEN NoEntry ELSE feats[k]]
  /\ lost' = lost \union {k \in evict.left \ raced : feats[k] # NoEntry /\ feats[k].lineage = evict.lineage}
  /\ evict' = Resting
  /\ UNCHANGED <<tiers, pass, passes, raced>>

DerivedNext ==
  \/ \E l \in Lineages : (\E c \in Catalogues : StartFeatures(l, c)) \/ CacheTiers(l) \/ ScanStale(l)
  \/ PutNext \/ EndPass \/ DeleteStale
DerivedSpec == DerivedInit /\ [][DerivedNext]_derivedVars

-----------------------------------------------------------------------------
\* Mutant: a stale entry is served.
GetIndicatorStateAny(k, l) == IF feats[k] = NoEntry THEN {} ELSE {feats[k]}

\* get_indicator_state: a stale entry is a miss.
GetIndicatorState(k, l) == IF feats[k] # NoEntry /\ feats[k].lineage = l THEN {feats[k]} ELSE {}

\* read_cached_feature: the blob's header must match the schema's shape.
ReadCachedFeature(t, l, c) == {e \in GetIndicatorState(<<c.lookback, t>>, l) : e.cfg.shape = c.shape}

\* get_recon_bar, and the scan of the bars in [from, to).
GetReconBar(t, l) == IF tiers[t] = l THEN {l} ELSE {}
ScanReconBars(from, to) == {t \in BarTimes : tiers[t] # NoEntry /\ from <= t /\ t < to}

\* Whatever passes of other lineages and catalogues wrote or left half-written,
\* what a read serves was computed from the lineage it asks for and is as long
\* as its schema; the bars of the tiers of a lineage are served together or not
\* at all unless another lineage overwrote some; and an eviction deletes a
\* current entry only if it was written during that eviction (the scan and the
\* deletes of invalidate_stale_indicators are two transactions).
DerivedSound ==
  /\ \A l \in Lineages, c \in Catalogues, t \in BarTimes :
       \A e \in ReadCachedFeature(t, l, c) : e.lineage = l /\ e.cfg.lookback = c.lookback /\ t \in Covers[l]
  /\ \A l \in Lineages : LET mine == {t \in BarTimes : GetReconBar(t, l) # {}}
                         IN  mine # {} => mine \subseteq Covers[l] /\ \A t \in Covers[l] \ mine : t \in ScanReconBars(t, t + 1)
  /\ lost = {}

\* The inductive invariant: what the entries, the pass and the eviction under way are.
Entries == [lineage : Lineages, cfg : Catalogues]
DerivedTypes ==
  /\ feats \in [FeatureKeys -> Entries \union {NoEntry}]
  /\ tiers \in [BarTimes -> Lineages \union {NoEntry}]
  /\ pass # Resting => pass \in [lineage : Lineages, cfg : Catalogues, left : SUBSET BarTimes] /\ pass.left \subseteq Covers[pass.lineage]
  /\ evict # Resting => evict \in [lineage : Lineages, left : SUBSET FeatureKeys]
DerivedKept ==
  /\ DerivedTypes
  /\ \A k \in FeatureKeys : feats[k] # NoEntry => feats[k].cfg.lookback = k[1] /\ k[2] \in Covers[feats[k].lineage]
  /\ \A t \in BarTimes : tiers[t] # NoEntry => t \in Covers[tiers[t]] /\ \A u \in Covers[tiers[t]] : tiers[u] # NoEntry
  /\ evict # Resting => \A k \in evict.left \ raced : feats[k] # NoEntry /\ feats[k].lineage # evict.lineage
  /\ lost = {}

-----------------------------------------------------------------------------
(* Keys and values as bytes.                                               *)
CONSTANTS
  Base,         \* the values of a byte
  Names,        \* symbols and indicator names: sequences of non-zero bytes
  KeyTimes,     \* timestamps, negative ones too, in -(Base^2)/2 .. (Base^2)/2 - 1
  Resolutions   \* ordinals of Resolution::ALL

VARIABLE keyArgs   \* two keys' fields

Half == (Base * Base) \div 2

\* order_i64: the sign bit flipped, big-endian; and back.
OrderI64(v) == LET u == v + Half IN <<u \div Base, u % Base>>
UnorderI64(b) == b[1] * Base + b[2] - Half

SeriesPrefix(sym) == sym \o <<0>>
SeriesKey(k) == SeriesPrefix(k.sym) \o OrderI64(k.time)
BarPrefix(k) == Append(SeriesPrefix(k.sym), k.res)
BarKey(k) == BarPrefix(k) \o OrderI64(k.time)

\* indicator_key: symbol and name are length-prefixed.
IndicatorKey(k) ==
  <<Len(k.sym)>> \o k.sym \o <<k.res>> \o <<Len(k.id)>> \o k.id \o <<k.lookback>> \o OrderI64(k.time)

TimeFromKey(key) == UnorderI64(SubSeq(key, Len(key) - 1, Len(key)))

\* LMDB's order of keys.
Before(a, b) ==
  \/ IsStrictPrefix(a, b)
  \/ \E n \in 1 .. Min({Len(a), Len(b)}) :
       a[n] < b[n] /\ \A m \in 1 .. n - 1 : a[m] = b[m]

\* The bars a scan of [from, to) over the prefix returns: the walk ends at the
\* first key at or past to.
ScanBars(all, k, from, to) ==
  LET hits == {key \in all : IsPrefix(BarPrefix(k), key)}
      ends == {key \in hits : TimeFromKey(key) >= to}
  IN  {key \in hits : TimeFromKey(key) >= from /\ ~\E e \in ends : e = key \/ Before(e, key)}

\* encode_cache_value and decode_cache_value
EncodeCacheValue(lineage, state) == <<Len(lineage)>> \o lineage \o state
DecodeCacheValue(b) ==
  IF Len(b) = 0 \/ b[1] > Len(b) - 1 THEN <<>>
  ELSE <<SubSeq(b, 2, b[1] + 1), SubSeq(b, b[1] + 2, Len(b))>>

Keys == [sym : Names \ {<<>>}, res : Resolutions, id : Names, lookback : {1, 2}, time : KeyTimes]
StoreKeysInit == keyArgs \in {p \in Keys \X Keys : p[1].time <= p[2].time}

\* Keys of one series sort as their times do and decode to them, negative times
\* included, and a scan of one instrument and resolution returns exactly its
\* bars of the range although other symbols share its first letters.
ScanExact ==
  LET a == keyArgs[1]
      b == keyArgs[2]
      all == {BarKey(a), BarKey(b)}
  IN  /\ TimeFromKey(SeriesKey(a)) = a.time
      /\ (a.sym = b.sym /\ a.time < b.time) => Before(SeriesKey(a), SeriesKey(b))
      /\ IsPrefix(SeriesPrefix(a.sym), SeriesKey(b)) <=> a.sym = b.sym
      /\ ScanBars(all, a, a.time, b.time + 1) =
           {BarKey(k) : k \in {j \in {a, b} : j.sym = a.sym /\ j.res = a.res}}

\* Two indicator states never share a key, whatever the lengths of their symbols
\* and names, and a cached value decodes to the lineage and state written.
IndicatorKeysDistinct ==
  LET a == keyArgs[1]
      b == keyArgs[2]
  IN  /\ a # b => IndicatorKey(a) # IndicatorKey(b)
      /\ DecodeCacheValue(EncodeCacheValue(a.sym, b.id)) = <<a.sym, b.id>>
=============================================================================
