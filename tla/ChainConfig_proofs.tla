------------------------- MODULE ChainConfig_proofs -------------------------
(***************************************************************************)
(* The registry lookups answer right for every set of standard networks   *)
(* and every order of Register calls.  The argument: the registry maps    *)
(* are exactly what the registered networks put in them (RInv), and for   *)
(* standard networks that determines the answers.  RInv needs             *)
(* StandardNets only for the HD map, where a second network with the same *)
(* private magic would overwrite the first.                               *)
(***************************************************************************)
EXTENDS ChainConfig, TLAPS

\* The registry maps hold exactly the entries of the registered networks.
RInv ==
    /\ registered \subseteq Nets
    /\ DOMAIN hdPrivToPubKeyIDs = {p.hdPriv : p \in registered}
    /\ \A p \in registered : hdPrivToPubKeyIDs[p.hdPriv] = p.hdPub
    /\ bech32SegwitPrefixes = {WithSep(p.hrp) : p \in registered}

LEMMA InitRInv == Init => RInv
<1> SUFFICES ASSUME Init PROVE RInv
  OBVIOUS
<1>1. DOMAIN hdPrivToPubKeyIDs = {} /\ registered = {} /\ bech32SegwitPrefixes = {}
  BY DEF Init
<1>. QED
  BY <1>1 DEF RInv

\* Register(params) keeps the maps in step with the registered networks.
LEMMA RegisteredRInv ==
    ASSUME StandardNets(Nets), RInv, NEW params \in Nets, Registered(params)
    PROVE  RInv'
<1>1. registered' = registered \cup {params} /\ registered' \subseteq Nets
  BY DEF Registered, RInv
<1>2. DOMAIN hdPrivToPubKeyIDs' = {p.hdPriv : p \in registered'}
  BY <1>1 DEF Registered, RInv
<1>3. ASSUME NEW p \in registered' PROVE hdPrivToPubKeyIDs'[p.hdPriv] = p.hdPub
  <2>1. CASE p.hdPriv = params.hdPriv
    <3>1. p = params
      BY <1>1, <2>1 DEF StandardNets
    <3>. QED
      BY <3>1 DEF Registered
  <2>2. CASE p.hdPriv # params.hdPriv
    <3>1. p \in registered
      BY <1>1, <2>2
    <3>. QED
      BY <2>2, <3>1 DEF Registered, RInv
  <2>. QED
    BY <2>1, <2>2
<1>4. bech32SegwitPrefixes' = {WithSep(p.hrp) : p \in registered'}
  BY <1>1 DEF Registered, RInv
<1>. QED
  BY <1>1, <1>2, <1>3, <1>4 DEF RInv

LEMMA NextRInv ==
    ASSUME StandardNets(Nets) PROVE RInv /\ [Next]_vars => RInv'
<1> SUFFICES ASSUME RInv, [Next]_vars PROVE RInv'
  OBVIOUS
<1>1. CASE PackageInit
  <2>1. MainNet \in Nets /\ Registered(MainNet)
    BY <1>1, ConfigAssumption DEF PackageInit
  <2>. QED
    BY <2>1, RegisteredRInv
<1>2. ASSUME NEW params \in Nets, Register(params) PROVE RInv'
  BY <1>2, RegisteredRInv DEF Register
<1>3. ASSUME NEW body \in Bodies, UpdateGenesisBlock(body) PROVE RInv'
  BY <1>3 DEF UpdateGenesisBlock, registry, RInv
<1>4. CASE UNCHANGED vars
  BY <1>4 DEF vars, registry, RInv
<1>. QED
  BY <1>1, <1>2, <1>3, <1>4 DEF Next

LEMMA RInvHDKeyLookup == RInv => HDKeyLookup
<1> SUFFICES ASSUME RInv PROVE HDKeyLookup
  OBVIOUS
<1>1. ASSUME NEW params \in registered
      PROVE  /\ HDPrivateKeyToPublicKeyID(params.hdPriv).err = NoErr
             /\ HDPrivateKeyToPublicKeyID(params.hdPriv).pub = params.hdPub
  <2>1. params \in NetParams
    BY ConfigAssumption DEF RInv
  <2>2. params.hdPriv \in HDKeyIDs /\ params.hdPriv \in DOMAIN hdPrivToPubKeyIDs
    BY <2>1 DEF NetParams, RInv
  <2>. QED
    BY <2>2 DEF HDPrivateKeyToPublicKeyID, RInv
<1>2. ASSUME NEW id \in HDKeyIDs \cup ShortKeyIDs,
             \A params \in registered : id # params.hdPriv
      PROVE  HDPrivateKeyToPublicKeyID(id).err = ErrUnknownHDKeyID
  <2>1. id \notin DOMAIN hdPrivToPubKeyIDs
    BY <1>2 DEF RInv
  <2>. QED
    BY <2>1 DEF HDPrivateKeyToPublicKeyID
<1>. QED
  BY <1>1, <1>2 DEF HDKeyLookup

LEMMA RInvSegwit ==
    ASSUME StandardNets(Nets) PROVE RInv => SegwitPrefixRecognised
<1> SUFFICES ASSUME RInv, NEW s \in Strings
             PROVE  IsBech32SegwitPrefix(s) <=>
                        s.sep /\ \E params \in registered : params.hrp.word = s.word
  BY DEF SegwitPrefixRecognised
<1>1. ToLower(s) = [word |-> s.word, upper |-> FALSE, sep |-> s.sep] /\ s.sep \in BOOLEAN
  <2>1. s = [word |-> s.word, upper |-> s.upper, sep |-> s.sep] /\ s.sep \in BOOLEAN
    BY DEF Strings
  <2>2. /\ DOMAIN ToLower(s) = {"word", "upper", "sep"}
        /\ ToLower(s).word = s.word /\ ToLower(s).upper = FALSE
        /\ ToLower(s).sep = s.sep
    BY <2>1 DEF ToLower
  <2>3. ToLower(s) = [f \in {"word", "upper", "sep"} |-> ToLower(s)[f]]
    BY <2>1 DEF ToLower
  <2>. QED
    BY <2>1, <2>2, <2>3
<1>2. \A p \in registered :
          /\ p.hrp \in [word : Words, upper : BOOLEAN]
          /\ ~p.hrp.upper
          /\ WithSep(p.hrp) = [word |-> p.hrp.word, upper |-> FALSE, sep |-> TRUE]
  BY ConfigAssumption DEF RInv, StandardNets, NetParams, WithSep
<1>3. \A p \in registered : ToLower(s) = WithSep(p.hrp) <=> s.sep /\ p.hrp.word = s.word
  <2> SUFFICES ASSUME NEW p \in registered
               PROVE  ToLower(s) = WithSep(p.hrp) <=> s.sep /\ p.hrp.word = s.word
    OBVIOUS
  <2>1. [word |-> s.word, upper |-> FALSE, sep |-> s.sep] =
          [word |-> p.hrp.word, upper |-> FALSE, sep |-> TRUE]
          <=> s.word = p.hrp.word /\ s.sep = TRUE
    OBVIOUS
  <2>. QED
    BY <1>1, <1>2, <2>1
<1>. QED
  BY <1>3 DEF IsBech32SegwitPrefix, RInv

(***************************************************************************)
(* For every set of standard networks (distinct HD private magics) and    *)
(* every sequence of Register and UpdateGenesisBlock calls after init(),  *)
(* HDPrivateKeyToPublicKeyID answers each registered network's public     *)
(* magic and refuses every other id (HDKeyLookup).                        *)
(***************************************************************************)
THEOREM HDKeyLookupCorrect ==
    ASSUME StandardNets(Nets) PROVE Spec => []HDKeyLookup
<1>1. Spec => []RInv
  BY InitRInv, NextRInv, PTL DEF Spec
<1>. QED
  BY <1>1, RInvHDKeyLookup, PTL

(***************************************************************************)
(* For every set of standard networks (lower-case hrps), after any        *)
(* sequence of calls IsBech32SegwitPrefix recognises hrp + "1" of every   *)
(* registered network in either case, and nothing else                    *)
(* (SegwitPrefixRecognised).                                              *)
(***************************************************************************)
THEOREM SegwitPrefixCorrect ==
    ASSUME StandardNets(Nets) PROVE Spec => []SegwitPrefixRecognised
<1>1. Spec => []RInv
  BY InitRInv, NextRInv, PTL DEF Spec
<1>. QED
  BY <1>1, RInvSegwit, PTL
=============================================================================
