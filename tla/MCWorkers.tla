----------------------------- MODULE MCWorkers -----------------------------
(***************************************************************************)
(* Every lane measures two contexts, of a model that takes what was        *)
(* estimated or more; and answers one prompt or a batch of two.  Where mlx *)
(* is given the wide margin, the floor of its base estimate alone reaches  *)
(* the budget: the one case in which its gate refuses what the driver      *)
(* admits.                                                                 *)
(***************************************************************************)
EXTENDS Workers

AllLanes == {"cpu", "vulkan", "gguf", "mlx", "cuda"}
Margin == 4
WideMargin == 7
Job(l, o, c, p, a, x) ==
    [lane |-> l, op |-> o, ctx |-> c, prompts |-> p, ask |-> a, extra |-> x,
     margin |-> Margin]
Wide(j) == [j EXCEPT !.margin = WideMargin]
MCJobs ==
    {Job(l, "preflight", 0, <<>>, 0, 0) : l \in AllLanes}
    \cup {Wide(Job("mlx", "preflight", 0, <<>>, 0, 0)),
          Wide(Job("mlx", "measure", 1, <<>>, 0, 0))} \cup
    {Job(l, "measure", c, <<>>, 0, x) : l \in AllLanes, c \in {1, 2}, x \in {0, 2, 4}}
    \cup {Job(l, "generate", 3, <<p>>, a, 0) : l \in AllLanes, p \in {1, 2, 3}, a \in {1, 2}}
    \cup {Job(l, "benchmark", 3, p, a, 0) :
                 l \in AllLanes, p \in {<<1, 2>>, <<2, 1>>, <<3, 1>>}, a \in {1, 2}}
=============================================================================
