----------------------------- MODULE ChainConfig -----------------------------
(***************************************************************************)
(* The network parameters of the config part of engine.go: the registry   *)
(* of address and key magics that Register fills and the Is...AddrID,     *)
(* HDPrivateKeyToPublicKeyID and IsBech32SegwitPrefix lookups read, and   *)
(* the genesis block of ChainParams that UpdateGenesisBlock replaces.     *)
(* The package init() runs UpdateGenesisBlock(ChainParams.GenesisBlock)   *)
(* and Register(&ChainParams) before any other call.                      *)
(*                                                                        *)
(* A network is a record of its magics and its Bech32 human-readable part *)
(* (hrp).  A string is a record: its word, whether it has upper-case      *)
(* letters, and whether "1" is appended.  A block header is its body (the *)
(* fields other than ChainID) and its ChainID; GetChainID and BlockHash   *)
(* are taken to be injective.                                             *)
(***************************************************************************)
EXTENDS Naturals

CONSTANTS
    AddrIDs,       \* byte values of PubKeyHashAddrID / ScriptHashAddrID
    HDKeyIDs,      \* [4]byte values of HDPrivateKeyID / HDPublicKeyID
    ShortKeyIDs,   \* byte slices of other lengths
    Words,         \* the letters of human-readable parts
    Nets,          \* the Params a main package may Register
    MainNet,       \* ChainParams
    Bodies,        \* genesis block headers, ChainID aside
    DefaultBody,   \* genesisHeader as declared
    NoChainID      \* the zero ChainID of a header not yet updated

Strings == [word : Words, upper : BOOLEAN, sep : BOOLEAN]
NetParams == [pkh : AddrIDs, sh : AddrIDs, hdPriv : HDKeyIDs, hdPub : HDKeyIDs,
              hrp : [word : Words, upper : BOOLEAN]]

ASSUME ConfigAssumption ==
    /\ Nets \subseteq NetParams
    /\ MainNet \in Nets
    /\ DefaultBody \in Bodies
    /\ HDKeyIDs \cap ShortKeyIDs = {}

ErrUnknownHDKeyID == "ErrUnknownHDKeyID"
NoErr == "nil"
NoKeyID == "nil"

\* GetChainID and BlockHash, abstracted to injective functions.
GetChainID(body) == <<"chainID", body>>
BlockHash(hdr) == <<"hash", hdr.body, hdr.chainID>>

VARIABLES
    pubKeyHashAddrIDs,     \* map[byte]struct{}
    scriptHashAddrIDs,     \* map[byte]struct{}
    hdPrivToPubKeyIDs,     \* map[[4]byte][]byte
    bech32SegwitPrefixes,  \* map[string]struct{}
    registered,            \* the Params passed to Register so far
    genesisBlockHeader,    \* ChainParams.GenesisBlock.Header
    genesisHeader,         \* the package's genesisHeader
    chainID,               \* *ChainParams.ChainID, and genesisChainID
    genesisHash,           \* *ChainParams.GenesisHash
    initDone               \* the package init() has run

registry == <<pubKeyHashAddrIDs, scriptHashAddrIDs, hdPrivToPubKeyIDs,
              bech32SegwitPrefixes, registered>>
genesis == <<genesisBlockHeader, genesisHeader, chainID, genesisHash>>
vars == <<registry, genesis, initDone>>

\* strings.ToLower, and s + "1".
ToLower(s) == [s EXCEPT !.upper = FALSE]
WithSep(hrp) == [word |-> hrp.word, upper |-> hrp.upper, sep |-> TRUE]

\* The lookups.
IsPubKeyHashAddrID(id) == id \in pubKeyHashAddrIDs
IsScriptHashAddrID(id) == id \in scriptHashAddrIDs
HDPrivateKeyToPublicKeyID(id) ==
    IF id \notin HDKeyIDs \/ id \notin DOMAIN hdPrivToPubKeyIDs
    THEN [pub |-> NoKeyID, err |-> ErrUnknownHDKeyID]
    ELSE [pub |-> hdPrivToPubKeyIDs[id], err |-> NoErr]

\* Mutant: the query is not lower-cased.
IsBech32SegwitPrefixCaseSensitive(prefix) == prefix \in bech32SegwitPrefixes

IsBech32SegwitPrefix(prefix) == ToLower(prefix) \in bech32SegwitPrefixes

\* Mutant: Register forgets the HD key magics.
RegisteredNoHD(params) ==
    /\ pubKeyHashAddrIDs' = pubKeyHashAddrIDs \cup {params.pkh}
    /\ scriptHashAddrIDs' = scriptHashAddrIDs \cup {params.sh}
    /\ hdPrivToPubKeyIDs' = hdPrivToPubKeyIDs
    /\ bech32SegwitPrefixes' = bech32SegwitPrefixes \cup {WithSep(params.hrp)}
    /\ registered' = registered \cup {params}

\* Register(params): every magic is added, a second HDPrivateKeyID
\* overwrites the first, and nothing is refused.
Registered(params) ==
    /\ pubKeyHashAddrIDs' = pubKeyHashAddrIDs \cup {params.pkh}
    /\ scriptHashAddrIDs' = scriptHashAddrIDs \cup {params.sh}
    /\ hdPrivToPubKeyIDs' = [id \in DOMAIN hdPrivToPubKeyIDs \cup {params.hdPriv} |->
                              IF id = params.hdPriv THEN params.hdPub
                              ELSE hdPrivToPubKeyIDs[id]]
    /\ bech32SegwitPrefixes' = bech32SegwitPrefixes \cup {WithSep(params.hrp)}
    /\ registered' = registered \cup {params}

\* UpdateGenesisBlock(blk) for a block whose header has the given body:
\* the new ChainID goes into ChainParams, the block and genesisHeader, and
\* the hash is that of genesisHeader.
GenesisUpdated(body) ==
    /\ genesisBlockHeader' = [body |-> body, chainID |-> GetChainID(body)]
    /\ genesisHeader' = [genesisHeader EXCEPT !.chainID = GetChainID(body)]
    /\ chainID' = GetChainID(body)
    /\ genesisHash' = BlockHash(genesisHeader')

Init ==
    /\ pubKeyHashAddrIDs = {}
    /\ scriptHashAddrIDs = {}
    /\ hdPrivToPubKeyIDs = <<>>
    /\ bech32SegwitPrefixes = {}
    /\ registered = {}
    /\ genesisHeader = [body |-> DefaultBody, chainID |-> NoChainID]
    /\ genesisBlockHeader = genesisHeader
    /\ chainID = NoChainID
    /\ genesisHash = NoChainID
    /\ initDone = FALSE

\* init(): UpdateGenesisBlock(ChainParams.GenesisBlock); Register(&ChainParams).
PackageInit ==
    /\ ~initDone
    /\ GenesisUpdated(genesisBlockHeader.body)
    /\ Registered(MainNet)
    /\ initDone' = TRUE

\* A main package registers its network.  Register always returns nil.
Register(params) ==
    /\ initDone
    /\ Registered(params)
    /\ UNCHANGED <<genesis, initDone>>

\* A mock chain installs its own genesis block.
UpdateGenesisBlock(body) ==
    /\ initDone
    /\ GenesisUpdated(body)
    /\ UNCHANGED <<registry, initDone>>

Next ==
    \/ PackageInit
    \/ \E params \in Nets : Register(params)
    \/ \E body \in Bodies : UpdateGenesisBlock(body)

Spec == Init /\ [][Next]_vars

-----------------------------------------------------------------------------
(***************************************************************************)
(* HDPrivateKeyToPublicKeyID maps the HD private key magic of every       *)
(* registered network to that network's public key magic, after any       *)
(* sequence of Register calls, and answers ErrUnknownHDKeyID for every    *)
(* other id, of 4 bytes or not.                                           *)
(***************************************************************************)
HDKeyLookup ==
    /\ \A params \in registered :
           /\ HDPrivateKeyToPublicKeyID(params.hdPriv).err = NoErr
           /\ HDPrivateKeyToPublicKeyID(params.hdPriv).pub = params.hdPub
    /\ \A id \in HDKeyIDs \cup ShortKeyIDs :
           (\A params \in registered : id # params.hdPriv) =>
               HDPrivateKeyToPublicKeyID(id).err = ErrUnknownHDKeyID

(***************************************************************************)
(* IsBech32SegwitPrefix recognises hrp + "1" of every registered network, *)
(* written in either case, and nothing that was never registered.         *)
(***************************************************************************)
SegwitPrefixRecognised ==
    \A s \in Strings :
        IsBech32SegwitPrefix(s) <=>
            s.sep /\ \E params \in registered : params.hrp.word = s.word

(***************************************************************************)
(* After init(), and after every UpdateGenesisBlock, ChainParams.         *)
(* GenesisHash is the hash of ChainParams.GenesisBlock's header and       *)
(* ChainParams.ChainID is its ChainID.                                    *)
(***************************************************************************)
GenesisConsistent ==
    initDone =>
        /\ genesisHash = BlockHash(genesisBlockHeader)
        /\ chainID = genesisBlockHeader.chainID

\* The networks of the standard chains: no two share an HD private key
\* magic, and every hrp is lower case (ChainParams: "ms").  Register does
\* not enforce either; HDKeyLookup and SegwitPrefixRecognised hold for
\* these networks.
StandardNets(nets) ==
    /\ \A p, q \in nets : p.hdPriv = q.hdPriv => p = q
    /\ \A p \in nets : ~p.hrp.upper
=============================================================================
