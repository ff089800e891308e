----------------------------- MODULE MCDeployment -----------------------------
(***************************************************************************)
(* The deploy scripts of DeploymentPlan run by DeploymentRunner on eleven   *)
(* networks: fresh ones, and ones where an earlier release is in place and *)
(* some code is missing or some settings differ from the wanted ones.      *)
(***************************************************************************)
EXTENDS DeploymentRunner, DeploymentPlan, FiniteSetsExt, TLC

MCHTokens == <<"hETH">>
MCChains  == <<"chain 1", "chain 2">>

Facts(type, env, key, multisig, endpoint, primary) ==
    [type |-> type, env |-> env, key |-> key, multisig |-> multisig,
     endpoint |-> endpoint, primary |-> primary]

Fact ==
    "local"    :> Facts("local",   "develop", "localhost", FALSE, TRUE, TRUE) @@
    "sepolia"  :> Facts("testnet", "develop", "ethereumTestnetSepolia", FALSE, TRUE, TRUE) @@
    "mantle"   :> Facts("testnet", "testnet", "mantleTestnet", TRUE, TRUE, FALSE) @@
    "base"     :> Facts("mainnet", "mainnet", "base", FALSE, TRUE, FALSE) @@
    "upgrade"  :> Facts("mainnet", "mainnet", "ethereum", TRUE, TRUE, TRUE) @@
    "owned"    :> Facts("mainnet", "mainnet", "polygon", TRUE, TRUE, FALSE) @@
    "token"    :> Facts("mainnet", "mainnet", "ethereum", TRUE, TRUE, TRUE) @@
    "solo"     :> Facts("mainnet", "mainnet", "optimism", FALSE, TRUE, FALSE) @@
    "factory"  :> Facts("mainnet", "mainnet", "ethereum", TRUE, TRUE, TRUE) @@
    "quoter"   :> Facts("testnet", "testnet", "baseTestnetSepolia", TRUE, TRUE, FALSE) @@
    "faucet"   :> Facts("testnet", "develop", "ethereumTestnetSepolia", FALSE, TRUE, TRUE)

MCNetworks  == DOMAIN Fact
Commands    == FoldSet(LAMBDA n, f : (n :> Scripts(Fact[n])) @@ f, <<>>, MCNetworks)
AllSteps    == UNION {ToSet(Commands[n]) : n \in MCNetworks}
Deployables == {s.on : s \in AllSteps}
AllSettings == UNION {s.sets : s \in AllSteps}
MCMultisig  == {n \in MCNetworks : Fact[n].multisig}
MCWealthy   == {n \in MCNetworks : DeployerHoldsHLG(Fact[n])}
MCEphemeral == {n \in MCNetworks : Fact[n].type = "local"}
MCAdminless == {"Faucet"}

Empty == [code |-> {}, stale |-> AllSettings,
          admin |-> [c \in Deployables |-> "nobody"],
          funded |-> [c \in Deployables |-> 0]]

\* A network as an earlier run left it, with code and settings missing.
Deployed(n, missing, stale) ==
    LET there   == {s.on : s \in {t \in ToSet(Commands[n]) : t.kind \in Creating}} \ missing
        handed  == {s.on : s \in {t \in ToSet(Commands[n]) : t.kind = "admin"}} IN
    [code |-> there, stale |-> stale,
     admin |-> [c \in Deployables |->
                  CASE c \notin there                          -> "nobody"
                    [] c = "Holograph" /\ c \in handed         -> MULTI_SIG(Fact[n])
                    [] c # "Holograph" /\ c \in handed         -> "Holograph"
                    [] OTHER                                   -> "deployer"],
     funded |-> [c \in Deployables |-> 0]]

Initially ==
    [n \in {"local", "sepolia", "mantle", "base"} |-> Empty] @@
    "upgrade" :> Deployed("upgrade", {"HolographBridge", "HolographDropERC721V2"},
                   {<<"HolographBridgeProxy", "source">>,
                    <<"HolographRegistryProxy", "namespaces">>,
                    <<"HolographRegistryProxy", "HolographDropERC721V2">>}) @@
    "owned"   :> [Deployed("owned", {}, {<<"DropsPriceOracleProxy", "source">>,
                                         <<"HolographTreasuryProxy", "mintFee">>})
                    EXCEPT !.admin["DropsPriceOracleProxy"] = "multisig"] @@
    "token"   :> Deployed("token", {"HolographUtilityToken"},
                   {<<"Holograph", "utilityToken">>,
                    <<"HolographOperatorProxy", "utilityToken">>,
                    <<"HolographRegistryProxy", "utilityToken">>}) @@
    "solo"    :> Deployed("solo", {"HolographFactory"},
                   {<<"Holograph", "factory">>, <<"HolographFactoryProxy", "source">>,
                    <<"LayerZeroModuleProxy", "gasParameters">>}) @@
    "factory" :> Deployed("factory", {}, {<<"Holograph", "factory">>}) @@
    "quoter"  :> Deployed("quoter", {}, {}) @@
    "faucet"  :> Deployed("faucet", {"HolographBridge"}, {<<"Faucet", "token">>})

\* TLC evaluates a definition once when it is used by its own name, but the
\* right-hand side of a constant's replacement at every use of the constant.
MCPlan      == Commands
MCStart     == Initially
MCContracts == Deployables
MCSettings  == AllSettings

\* A contract type that points at the wanted template points at code: 20 comes
\* after the scripts that deploy the templates, also when the deployment is
\* interrupted or the registration waits for the signers.  hToken is the
\* exception, registered two scripts before it is deployed.
RegisteredHasCode ==
    \A c \in Deployables \ {"hToken"} :
        <<"HolographRegistryProxy", c>> \in AllSettings \ chain.stale => c \in chain.code
=============================================================================
