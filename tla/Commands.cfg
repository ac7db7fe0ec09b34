\* Three commands of a developer, who is an owner, and another member.
CONSTANTS
    Requests = {r1, r2, r3}
    Members = {dev, mem}
    Guild = guild
    Owners = {dev}
    Developers = {dev}
    Testers = {}
SPECIFICATION GSpec
INVARIANTS BlacklistHolds BotPermGap
\* All commands have ended.
CHECK_DEADLOCK FALSE
