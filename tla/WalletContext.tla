---------------------------- MODULE WalletContext ----------------------------
(* WalletProvider: the wallet the page shows, as React state. An effect keeps *)
(* it in step with the Ethereum wallet; the Starknet extension is read when   *)
(* the page is mounted or connects. The functions the context hands out see   *)
(* the wallet of the render they come from.                                   *)
EXTENDS Naturals, Sequences

CONSTANTS Tasks,            \* calls of the page in progress at a time
          EthereumAccounts, StarknetAccounts, None

VARIABLES
  wallet,     \* React state: address, walletType and starknetAccount
  ethereum,   \* the account wagmi is connected with, or None
  starknet,   \* the account window.starknet is enabled for, or None
  tasks       \* [Tasks -> what the call has to do, with the closure it sees]

Idle == [kind |-> "idle"]
At(t, kind, at) == tasks[t].kind = kind /\ tasks[t].at = at
Ends(t) == tasks' = [tasks EXCEPT ![t] = Idle]
Goto(t, at) == tasks' = [tasks EXCEPT ![t].at = at]
Starts(t, task) == tasks[t] = Idle /\ tasks' = [tasks EXCEPT ![t] = task]

NoWallet == [address |-> None, walletType |-> None, starknetAccount |-> None]
isConnected(w) == w.address # None

\* The effect on the Ethereum wallet's state: it runs after every render in which
\* that state or the wallet type changed, so a connected Ethereum wallet takes the
\* page back even from a Starknet wallet that has just been connected.
InStep(w, account) ==
  IF account # None THEN [w EXCEPT !.address = account, !.walletType = "ethereum"]
  ELSE IF w.walletType = "ethereum" THEN [w EXCEPT !.address = None, !.walletType = None]
  ELSE w

StarknetWallet(account) ==
  [address |-> account, walletType |-> "starknet", starknetAccount |-> account]

\* The effects of the first render; wagmi connects by itself now or later.
Mounted(account) ==
  InStep(IF starknet # None THEN StarknetWallet(starknet) ELSE NoWallet, account)

\* wagmi reports an account, another one, or none: it connects by itself, was asked
\* to, or the user acts in the wallet.
EthereumChanges(account) ==
  /\ ethereum' = account /\ account # ethereum
  /\ wallet' = InStep(wallet, account)
  /\ UNCHANGED <<starknet, tasks>>

\* connectWallet(type), once it is answered. The Ethereum connect only asks wagmi
\* and returns; the Starknet one waits for the user.
connectWallet(walletType) ==
  \/ walletType = "ethereum" /\ UNCHANGED <<wallet, ethereum, starknet>>
  \/ /\ walletType = "starknet"
     /\ \E account \in StarknetAccounts :
          starknet' = account /\ wallet' = InStep(StarknetWallet(account), ethereum)
     /\ UNCHANGED ethereum

\* disconnectWallet() of a render with wallet w.
disconnectWallet(w) ==
  /\ ethereum' = IF w.walletType = "ethereum" THEN None ELSE ethereum
  /\ wallet' = IF w.walletType = "starknet" THEN InStep(NoWallet, ethereum) ELSE InStep(wallet, ethereum')
  /\ UNCHANGED starknet

\* signMessage of a render with wallet w throws at once, or asks the wallet.
CannotSign(w) ==
  \/ ~isConnected(w)
  \/ w.walletType = "starknet" /\ w.starknetAccount = None
  \/ w.walletType = "ethereum" /\ ethereum = None
signMessage(w) ==
  [walletType |-> w.walletType,
   by         |-> IF w.walletType = "ethereum" THEN ethereum ELSE w.starknetAccount]
=============================================================================
