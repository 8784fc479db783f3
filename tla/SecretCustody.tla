---------------------------- MODULE SecretCustody ----------------------------
(***************************************************************************)
(* What the secret lifecycle promises to somebody who only sees which      *)
(* stored secret a connection holds: secrets are numbered in the order in  *)
(* which the vault received them; a connection adopts only the newest one, *)
(* and only while it is stored; the secret it holds is never discarded;    *)
(* and a secret it once gave up never comes back.                          *)
(***************************************************************************)
EXTENDS Integers

VARIABLES held,    \* the secret the connection holds, 0 when it holds none
          stored,  \* the secrets the vault has
          last     \* the newest secret the vault ever received

custodyVars == <<held, stored, last>>

CustodyInit == held = 0 /\ stored = {} /\ last = 0

Receive == /\ last' = last + 1
           /\ stored' = stored \cup {last + 1}
           /\ UNCHANGED held

Adopt == /\ last \in stored
         /\ last > held
         /\ held' = last
         /\ UNCHANGED <<stored, last>>

GiveUp == /\ held # 0
          /\ held' = 0
          /\ UNCHANGED <<stored, last>>

Discard == /\ \E s \in stored \ {held} : stored' = stored \ {s}
           /\ UNCHANGED <<held, last>>

CustodyNext == Receive \/ Adopt \/ GiveUp \/ Discard

CustodySpec == CustodyInit /\ [][CustodyNext]_custodyVars
=============================================================================
