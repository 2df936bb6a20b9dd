CONSTANTS
 Agents={"a"}
 Sessions={"s1","s2"}
 Callers={"m1","m2","m3"}
 To <- MCTo
 From <- MCFrom
 WaitFrom <- MCWaitFrom
 Waits={"w1"}
 Drains = {"w1"}
 MailboxCap=1
 MaxTurns=1
 MaxKills=1
SPECIFICATION Spec
CHECK_DEADLOCK FALSE
INVARIANTS  OneKnownSession Accounted NoMailWhileWaiting
PROPERTIES  SendSettles TimerParksIdle
