\* Nothing fails: does the session keep what the user was shown?
CONSTANTS
    Styles = {"slack", "url", "feishu", "dingtalk", "plain card", "wecom", "complete"}
    Chunks = 3
    MaxFaults = 0
SPECIFICATION Spec
CHECK_DEADLOCK FALSE  \* the reply is over
INVARIANTS
    SessionHasTheReply
