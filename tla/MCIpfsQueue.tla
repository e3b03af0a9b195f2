---------------------------- MODULE MCIpfsQueue ----------------------------
(* Values for IpfsQueue's constants: one ordered group, beside pins and     *)
(* jobs without a group.                                                    *)
EXTENDS IpfsQueue

CONSTANTS t1, t2, c1, domains

Soon == {1}
=============================================================================
