---------------------------- MODULE DeploymentPlan ----------------------------
(***************************************************************************)
(* The steps of the deploy scripts, in the order hardhat-deploy executes   *)
(* them: the files by name, and a file's dependencies before it, which     *)
(* puts 99_multisig after 999_faucet.  One definition per block of a       *)
(* script.  A block first asks for the code at the derived address: if it  *)
(* is missing the contract is deployed and its init code writes a group of *)
(* settings, otherwise the settings are compared one by one (Checks).      *)
(*                                                                         *)
(* Abstracted: addresses and argument values (a setting is a name, see     *)
(* DeploymentRunner), the tables of gas parameters, chain ids, interface   *)
(* hashes and token symbols (a table is one setting per transaction that   *)
(* is sent for it), logging.                                               *)
(***************************************************************************)
EXTENDS Integers, Sequences, SequencesExt

CONSTANTS HTokens, SupportedChains \* the hTokens and the chains each of them supports

\* A network: its type, the environment variable, whether protocolMultisig is
\* defined, whether it is the network HLG is minted on, whether lzEndpoint is
\* set, and its key where a script asks for it.
IsTestnetOrLocal(n) == n.type \in {"testnet", "local"}

-----------------------------------------------------------------------------
(* Kinds of steps. *)

Step(kind, c) == [kind |-> kind, on |-> c, sets |-> {}, needs |-> {}, again |-> {},
                  when |-> "always", to |-> "deployer", raw |-> FALSE]

Deploy(c, fields) == <<[Step("deploy", c) EXCEPT !.sets = {<<c, f>> : f \in fields}]>>
Set(c, f)         == <<[Step("set", c) EXCEPT !.sets = {<<c, f>>}]>>
Checks(c, fields) ==
    [i \in DOMAIN fields |-> [Set(c, fields[i])[1] EXCEPT !.when = "existing"]]
Factory(c, unset) == <<[Step("factory", c) EXCEPT !.again = unset]>>
Each(seq, op(_))  == FlattenSeq([i \in DOMAIN seq |-> op(seq[i])])

Nothing == <<>>

-----------------------------------------------------------------------------
(* 00_genesis and 01_sources. *)

Genesis(n) == IF n.type = "local" THEN <<Step("genesis", "HolographGenesisLocal")>>
              ELSE Nothing

HolographRefs == {"bridge", "factory", "interfaces", "operator", "registry",
                  "treasury", "utilityToken"}

\* The encoded data of setFactory is not encoded data but the call itself.
HolographChecks ==
    LET c == Checks("Holograph", <<"bridge", "factory", "interfaces", "operator",
                                   "registry", "treasury", "utilityToken">>)
    IN [c EXCEPT ![2].raw = TRUE]

HolographSteps == Deploy("Holograph", HolographRefs) \o HolographChecks

BridgeSteps ==
    Deploy("HolographBridge", {})
    \o Deploy("HolographBridgeProxy", {"source", "factory", "holograph", "operator", "registry"})
    \o Checks("HolographBridgeProxy",
              <<"source", "factory", "holograph", "operator", "registry">>)

FactorySteps ==
    Deploy("HolographFactory", {})
    \o Deploy("HolographFactoryProxy", {"source", "holograph", "registry"})
    \o Checks("HolographFactoryProxy", <<"source", "holograph", "registry">>)

OperatorRefs == {"source", "bridge", "holograph", "interfaces", "registry",
                 "utilityToken", "minGasPrice"}

OperatorSteps ==
    Deploy("HolographOperator", {})
    \o Deploy("HolographOperatorProxy", OperatorRefs)
    \o Checks("HolographOperatorProxy", <<"source", "bridge", "holograph", "interfaces",
                                          "registry", "utilityToken", "minGasPrice">>)

\* The utility token is compared in the branch that deploys, too.
RegistrySteps ==
    Deploy("HolographRegistry", {})
    \o Deploy("HolographRegistryProxy", {"source", "holograph", "namespaces"})
    \o Checks("HolographRegistryProxy", <<"source", "holograph">>)
    \o Set("HolographRegistryProxy", "utilityToken")

TreasurySteps ==
    Deploy("HolographTreasury", {})
    \o Deploy("HolographTreasuryProxy",
              {"source", "bridge", "holograph", "operator", "registry", "mintFee"})
    \o Checks("HolographTreasuryProxy",
              <<"source", "bridge", "operator", "registry", "mintFee">>)

InterfacesAndRoyalties ==
    Deploy("HolographInterfaces", {}) \o Deploy("HolographRoyalties", {})

-----------------------------------------------------------------------------
(* 02_interfaces: one transaction for the missing chain id maps, one for the *)
(* missing prepends, one for each type of interface. *)

ChainIdMaps == Set("HolographInterfaces", "chainIdMaps")
UriPrepends == Set("HolographInterfaces", "uriPrepends")
SupportedInterfaces ==
    Set("HolographInterfaces", "interfaces 1")
    \o Set("HolographInterfaces", "interfaces 2")
    \o Set("HolographInterfaces", "interfaces 4")

-----------------------------------------------------------------------------
(* 03_erc20 to 08_erc721dropV2. *)

ERC20Steps    == Deploy("HolographERC20", {})
GenericSteps  == Deploy("HolographGeneric", {})
ERC721Steps   == Each(<<"HolographERC721", "CxipERC721", "HolographLegacyERC721">>,
                      LAMBDA c : Deploy(c, {}))
CountdownStep == Deploy("CountdownERC721", {})
CustomStep    == Deploy("CustomERC721", {})

PriceOracleSteps ==
    Deploy("DropsPriceOracle", {})
    \o Deploy("DropsPriceOracleProxy", {"source"})
    \o Checks("DropsPriceOracleProxy", <<"source">>)

\* The current quoter is lower-cased; the expected one is not on baseTestnetSepolia,
\* where they never compare equal.
BaseQuoter(n) ==
    CASE n.key = "base" -> Set("DropsPriceOracleProxy", "quoter")
      [] n.key = "baseTestnetSepolia" ->
           <<[Set("DropsPriceOracleProxy", "quoter")[1] EXCEPT !.kind = "resend"]>>
      [] OTHER -> Nothing

MantleRatio(n) == IF n.key = "mantleTestnet"
                  THEN Set("DropsPriceOracleProxy", "tokenPriceRatio") ELSE Nothing

\* Both drop scripts deploy the metadata renderers; the second finds the first's.
RendererSteps ==
    Each(<<"DropsMetadataRenderer", "EditionsMetadataRenderer">>,
         LAMBDA r : Deploy(r, {}) \o Deploy(r \o "Proxy", {"source"})
                    \o Checks(r \o "Proxy", <<"source">>))

DropSteps   == RendererSteps \o Deploy("HolographDropERC721", {})
DropV2Steps == RendererSteps \o Deploy("HolographDropERC721V2", {})

-----------------------------------------------------------------------------
(* 10_layer_zero_module and 11_layer_zero. *)

LayerZeroInit == {"source", "bridge", "interfaces", "operator",
                  "optimismGasPriceOracle", "gasParameters"}

LayerZeroDeploys ==
    Deploy("OVM_GasPriceOracle", {}) \o Deploy("LayerZeroModule", {})
    \o Deploy("LayerZeroModuleProxy", LayerZeroInit)

LayerZeroChecks ==
    Set("HolographOperatorProxy", "messagingModule")
    \o Set("LayerZeroModuleProxy", "optimismGasPriceOracle")

GasParameters == Set("LayerZeroModuleProxy", "gasParameters")

\* The endpoint of a local network is the zero address, which is not an empty
\* string: a mock takes its place.
MockLZEndpoint(n) == IF n.type = "local" THEN <<Step("mock", "MockLZEndpoint")>> ELSE Nothing

LayerZeroEndpoint(n) ==
    IF n.endpoint THEN MockLZEndpoint(n) \o Set("LayerZeroModuleProxy", "lzEndpoint")
    ELSE Nothing

-----------------------------------------------------------------------------
(* 20_register_templates. *)

Namespaces == Set("HolographRegistryProxy", "namespaces")

\* setContractTypeAddress demands a reserved namespace.
Template(t) ==
    <<[Set("HolographRegistryProxy", t)[1]
         EXCEPT !.needs = {<<"HolographRegistryProxy", "namespaces">>}]>>

RendererTemplates == Each(<<"DropsPriceOracleProxy", "DropsMetadataRendererProxy",
                            "EditionsMetadataRendererProxy">>, Template)
EnforcerTemplates == Each(<<"HolographGeneric", "HolographERC721">>, Template)
DropTemplates     == Each(<<"HolographDropERC721", "HolographDropERC721V2">>, Template)
SaleTemplates     == Each(<<"CustomERC721", "CountdownERC721">>, Template)
LegacyTemplates   == Each(<<"CxipERC721", "HolographLegacyERC721">>, Template)
TokenTemplates    == Each(<<"HolographERC20", "HolographRoyalties", "hToken">>, Template)

-----------------------------------------------------------------------------
(* 21_hlg and 22_hToken. *)

\* Does the deployer hold HLG?  It is minted on one network of a type, to the
\* deployer in the develop environment only.
DeployerHoldsHLG(n) ==
    \/ n.type = "local"
    \/ n.type = "testnet" /\ n.env = "develop" /\ n.primary

\* Deployed again, in vain, while the reference in Holograph is another one.
UtilityToken == Factory("HolographUtilityToken", {<<"Holograph", "utilityToken">>})

UtilityTokenReferences ==
    Set("Holograph", "utilityToken") \o Set("HolographRegistryProxy", "utilityToken")

OperatorFunds(n) ==
    IF IsTestnetOrLocal(n) /\ n.env = "develop"
    THEN <<Step("fund", "HolographOperatorProxy")>> ELSE Nothing

HTokenSource == Deploy("hToken", {})

HTokenOn(t, c) == Set(t, c) \o Set("HolographRegistryProxy", t \o " on " \o c)

HTokenDeployer(t) == Factory(t, {}) \o Each(SupportedChains, LAMBDA c : HTokenOn(t, c))

-----------------------------------------------------------------------------
(* 25 to 28, 999_faucet and 99_multisig. *)

Mocks(n) == IF n.type = "local" THEN Deploy("ERC20Mock", {}) \o Deploy("MockERC721Receiver", {})
            ELSE Nothing

Samples(n) ==
    IF n.type = "local"
    THEN Each(<<"SampleERC20", "SampleERC721", "sample CxipERC721", "sample HolographLegacyERC721">>,
              LAMBDA c : Factory(c, {}))
    ELSE Nothing

\* Deployed for the explorer's verification only; the condition is a record.
EmptyContracts(n) ==
    IF n.type = "local" THEN Nothing
    ELSE Each(<<"Holographer", "CxipERC721Proxy", "HolographLegacyERC721Proxy",
                "HolographDropERC721Proxy", "CountdownERC721Proxy",
                "HolographUtilityToken record", "hTokenProxy">>,
              LAMBDA c : Deploy(c, {}))

\* The transfer follows the deployment and is not looked for again.
FaucetSteps(n) ==
    IF IsTestnetOrLocal(n) /\ n.env # "mainnet"
    THEN Deploy("Faucet", {"token"})
         \o <<[Step("fund", "Faucet") EXCEPT !.when = "fresh"]>>
         \o Set("Faucet", "token")
    ELSE Nothing

MULTI_SIG(n) == IF n.multisig THEN "multisig" ELSE "deployer"

\* Faulty: an older list.
switchToHolographWithoutRenderers ==
    <<"HolographBridgeProxy", "HolographFactoryProxy", "HolographInterfaces",
      "HolographOperatorProxy", "HolographRegistryProxy", "HolographTreasuryProxy",
      "LayerZeroModuleProxy", "DropsPriceOracleProxy">>

switchToHolograph ==
    <<"HolographBridgeProxy", "HolographFactoryProxy", "HolographInterfaces",
      "HolographOperatorProxy", "HolographRegistryProxy", "HolographTreasuryProxy",
      "LayerZeroModuleProxy", "DropsPriceOracleProxy", "DropsMetadataRendererProxy",
      "EditionsMetadataRendererProxy", "HolographBridge", "HolographFactory",
      "HolographOperator", "HolographRegistry", "HolographTreasury", "LayerZeroModule",
      "OVM_GasPriceOracle">>

HandsOver(n) == n.type \in {"mainnet", "testnet"} /\ n.env \in {"mainnet", "testnet"}

AdminTo(c, p) == <<[Step("admin", c) EXCEPT !.to = p]>>

MultiSigSteps(n) ==
    <<Step("recount", "Holograph")>>
    \o IF HandsOver(n)
       THEN AdminTo("Holograph", MULTI_SIG(n))
            \o Each(switchToHolograph, LAMBDA c : AdminTo(c, "Holograph"))
       ELSE Nothing

-----------------------------------------------------------------------------
Sources == HolographSteps \o BridgeSteps \o FactorySteps \o OperatorSteps
           \o RegistrySteps \o TreasurySteps \o InterfacesAndRoyalties

Interfaces == ChainIdMaps \o UriPrepends \o SupportedInterfaces

Drops(n) == PriceOracleSteps \o BaseQuoter(n) \o MantleRatio(n) \o CountdownStep
            \o CustomStep \o DropSteps \o DropV2Steps

LayerZero(n) == LayerZeroDeploys \o LayerZeroChecks \o GasParameters \o LayerZeroEndpoint(n)

Templates == Namespaces \o RendererTemplates \o EnforcerTemplates \o DropTemplates
             \o SaleTemplates \o LegacyTemplates \o TokenTemplates

Tokens(n) == UtilityToken \o UtilityTokenReferences \o OperatorFunds(n)
             \o HTokenSource \o Each(HTokens, HTokenDeployer)

\* Faulty: the templates are registered right behind the registry.
ScriptsRegisteringFirst(n) ==
    Genesis(n) \o Sources \o Templates \o Interfaces \o ERC20Steps \o GenericSteps
    \o ERC721Steps \o Drops(n) \o LayerZero(n) \o Tokens(n) \o Mocks(n) \o Samples(n)
    \o EmptyContracts(n) \o FaucetSteps(n) \o MultiSigSteps(n)

\* The whole of "hardhat deploy" on network n.
Scripts(n) ==
    Genesis(n) \o Sources \o Interfaces \o ERC20Steps \o GenericSteps \o ERC721Steps
    \o Drops(n) \o LayerZero(n) \o Templates \o Tokens(n) \o Mocks(n) \o Samples(n)
    \o EmptyContracts(n) \o FaucetSteps(n) \o MultiSigSteps(n)
=============================================================================
