-------------------------- MODULE MCStationInstall --------------------------
(* Stations of a host and the services on it, on small instances.          *)
EXTENDS StationInstall, TLC

CONSTANTS docker, portainer, proxy, s1, s2, e1

\* A chain: the proxy runs on portainer, portainer on docker.
Chain == [x \in Service |-> IF x = docker THEN NoHost
                            ELSE IF x = proxy THEN portainer ELSE docker]

Symmetry == Permutations(Session)
=============================================================================
