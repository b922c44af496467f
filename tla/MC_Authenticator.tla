-------------------------- MODULE MC_Authenticator --------------------------
EXTENDS Authenticator

\* Every adbd configuration: auth on or off, the host's key already in
\* adb_keys or not, a user who accepts the key prompt or not.
MCDevices == [secure : BOOLEAN, keyKnown : BOOLEAN, userAccepts : BOOLEAN]

\* What an earlier server left on the wire: nothing; the WRTE and CLSE of
\* its stream (host local 2, adbd local 1, so the (1, _) lookup finds their
\* key); WRTEs of two such streams (two keys the lookup may pick); or the
\* token of a handshake it did not finish.
StalePkt(c, a0, a1, d) == [cmd |-> c, a0 |-> a0, a1 |-> a1, data |-> d, lat |-> "fast"]
MCStaleWires ==
    { <<>>,
      <<StalePkt("WRTE", 1, 2, NoData), StalePkt("CLSE", 1, 2, NoData)>>,
      <<StalePkt("WRTE", 1, 2, NoData), StalePkt("WRTE", 1, 3, NoData)>>,
      <<StalePkt(AUTH, AuthToken, 0, 1)>> }
=============================================================================
