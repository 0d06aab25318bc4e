---------------------------- MODULE MCInstaller ----------------------------
(* Installer on small instances, shaped like the bundled blueprints: k3s    *)
(* (a server publishes its token, optional agents read it), a hosted one    *)
(* (portainer publishes its URL), and two servers without agents.           *)
EXTENDS Installer

CONSTANTS h1, h2, token

Plain == [verify |-> FALSE, rollback |-> FALSE, publish |-> {}, needs |-> {}]
Verified == [Plain EXCEPT !.verify = TRUE]
Publishing == [Plain EXCEPT !.publish = {token}]
Joining == [Verified EXCEPT !.rollback = TRUE, !.needs = {<<1, token>>}]

Server(hosts, steps) == [optional |-> FALSE, hosts |-> hosts,
                         install |-> steps, uninstall |-> <<Verified>>]
Agent(hosts) == [optional |-> TRUE, hosts |-> hosts,
                 install |-> <<Joining>>, uninstall |-> <<Verified>>]
OnHosts == [optional |-> FALSE, hosts |-> <<h1, h2>>, uninstall |-> <<>>,
            install |-> <<[Publishing EXCEPT !.rollback = TRUE]>>]

K3s == [hosted |-> FALSE,
        roles |-> <<Server(<<h1>>, <<Verified, Publishing>>), Agent(<<h2>>)>>]
Pair == [hosted |-> FALSE,
         roles |-> <<Server(<<h1, h2>>, <<Publishing>>), Agent(<<h1>>)>>]
Alone == [hosted |-> FALSE,
          roles |-> <<Server(<<h1>>, <<Verified>>), Agent(<<>>)>>]
Nobody == [hosted |-> FALSE,
           roles |-> <<Server(<<>>, <<Verified>>), Agent(<<h1>>)>>]
Hosted == [hosted |-> TRUE, roles |-> <<OnHosts>>]

\* Registration does not mind one machine twice in a role.
Twice == [hosted |-> FALSE,
          roles |-> <<Server(<<h1, h1>>, <<Verified>>), Agent(<<>>)>>]

Several == {K3s, Pair, Alone, Nobody, Twice, Hosted}
One == {Alone}
=============================================================================
