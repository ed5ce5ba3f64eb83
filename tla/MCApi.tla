--------------------------------- MODULE MCApi ---------------------------------
(* A user and an administrator on one address, two requests to any of the      *)
(* routes below, which have every chain of middlewares there is; a limiter     *)
(* lets one request a second through.                                          *)
EXTENDS Api

MCLimit == [l \in Limiters |-> 1]
=============================================================================
