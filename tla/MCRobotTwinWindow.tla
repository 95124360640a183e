-------------------------- MODULE MCRobotTwinWindow --------------------------
\* Rotations of three things stand for poses: the smallest group in which order matters.
EXTENDS RobotTwinWindow

MCPose == {p \in [1 .. 3 -> 1 .. 3] : \A x, y \in 1 .. 3 : p[x] = p[y] => x = y}
MCIdentity == <<1, 2, 3>>
MCCompose(x, y) == [i \in 1 .. 3 |-> x[y[i]]]
MCInverse(x) == [i \in 1 .. 3 |-> CHOOSE j \in 1 .. 3 : x[j] = i]
MCZero == <<2, 3, 1>>
MCObserved == {<<2, 1, 3>>, <<1, 3, 2>>}
MCPredictions == {<<<<2, 1, 3>>, <<3, 1, 2>>, <<1, 3, 2>>>>, <<<<1, 2, 3>>, <<3, 2, 1>>, <<2, 3, 1>>>>}
MCSmoothed == {<<3, 2, 1>>, <<2, 3, 1>>}
=============================================================================
